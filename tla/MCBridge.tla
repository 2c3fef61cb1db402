------------------------------ MODULE MCBridge ------------------------------
(* Bridge for TLC: the exchange that opens the device and a keep-alive,     *)
(* with frames of different lengths.                                        *)
EXTENDS Bridge

MCLength == [c \in Callers |-> IF c = Opener THEN 11 ELSE 7]
=============================================================================
