--------------------------- MODULE MCThemePromotion ----------------------------
(* Model values and symmetry for the runs of ThemePromotion. *)
EXTENDS ThemePromotion, TLC

\* Promoters run the same program, runs differ by name only, and the order in
\* which recovery visits them is left open.
Symmetry == Permutations(Proc) \cup Permutations(Run)
================================================================================
