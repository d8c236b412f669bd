------------------------------ MODULE MCRepairLoop ------------------------------
(* The tables of the repair plan, reduced to one check of each kind. *)
EXTENDS RepairLoop, TLC

CONSTANTS score, watch, ops, publish, review

MCOrder == <<score, watch, ops, publish, review>>

MCStages == <<<<score, watch>>, <<publish, review>>, <<ops>>>>

\* watch feeds the health report as well as the publication, like market_monitor.
MCDependents ==
    (score :> <<watch, publish>>) @@ (watch :> <<publish, ops>>)
    @@ (publish :> <<ops>>) @@ (ops :> <<>>) @@ (review :> <<>>)
================================================================================
