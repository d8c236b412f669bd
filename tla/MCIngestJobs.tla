------------------------------ MODULE MCIngestJobs ------------------------------
(* Model values and symmetry for the runs of IngestJobs. *)
EXTENDS IngestJobs, TLC

\* No loop process and no worker slot differs from another one by its name.
Symmetry == Permutations(Loop) \cup Permutations(Slot)
================================================================================
