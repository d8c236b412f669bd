--------------------------- MODULE MCFinalizeRelease ---------------------------
(* Model values for the runs of FinalizeRelease. *)
EXTENDS FinalizeRelease

CONSTANTS evening, morning, operator
================================================================================
