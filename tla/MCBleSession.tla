----------------------------- MODULE MCBleSession -----------------------------
(* BleSession for TLC.                                                     *)
EXTENDS BleSession
=============================================================================
