--------------------------- MODULE MCMinuteBackfill ----------------------------
(* Model values for the runs of MinuteBackfill. *)
EXTENDS MinuteBackfill, TLC

CONSTANTS dog1, dog2, script

Symmetry == Permutations({dog1, dog2})
================================================================================
