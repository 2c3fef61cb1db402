----------------------------- MODULE MCExchange -----------------------------
(* Exchange for TLC: every constant is given its value in the .cfg files.   *)
EXTENDS Exchange
=============================================================================
