--------------------------- MODULE MCStrategyPublish ---------------------------
(* Model values and symmetry for the runs of StrategyPublish. *)
EXTENDS StrategyPublish, TLC

\* The publishers run the same program and no property names one of them.
Symmetry == Permutations(Proc)
================================================================================
