------------------------------- MODULE MCPage -------------------------------
(* Page for TLC: two sessions or reports, sweeps over one address that the  *)
(* dashboard shows and one behind it, and a scan of two components.  A read *)
(* gives a value or throws; Sweep alone is checked with all its outcomes.   *)
EXTENDS Page

MCEntries == <<[component |-> "DriveUnit", priority |-> TRUE], [component |-> "HeadUnit", priority |-> FALSE]>>

MCParts == <<"DriveUnit", "Battery">>
=============================================================================
