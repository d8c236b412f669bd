-------------------------------- MODULE WorkQueue --------------------------------
(***************************************************************************)
(* What a job table promises to those who queue work in it: a job is       *)
(* worked on by one worker at a time, and once it is finished nobody       *)
(* takes it up again.  Workers may lose their job without finishing it.    *)
(***************************************************************************)
EXTENDS Integers

CONSTANTS Worker, Job

VARIABLES
    working,   \* working[w]: the job w works on, or Nothing
    finished   \* the finished jobs

Nothing == 0

Init ==
    /\ working = [w \in Worker |-> Nothing]
    /\ finished = {}

Take(w, j) ==
    /\ working[w] = Nothing
    /\ j \notin finished
    /\ \A v \in Worker : working[v] # j
    /\ working' = [working EXCEPT ![w] = j]
    /\ UNCHANGED finished

Finish(w) ==
    /\ working[w] # Nothing
    /\ finished' = finished \cup {working[w]}
    /\ working' = [working EXCEPT ![w] = Nothing]

\* Some workers give up, hang or die.
Lose(W) ==
    /\ working' = [w \in Worker |-> IF w \in W THEN Nothing ELSE working[w]]
    /\ UNCHANGED finished

Next ==
    \/ \E w \in Worker : Finish(w) \/ \E j \in Job : Take(w, j)
    \/ \E W \in SUBSET Worker : Lose(W)

Spec == Init /\ [][Next]_<<working, finished>>
==================================================================================
