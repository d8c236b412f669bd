----------------------------- MODULE EvidenceStore -----------------------------
(***************************************************************************)
(* What the promotion of reviewed evidence promises to the readers of a    *)
(* canonical theme artifact: source and claim rows are only ever added, a  *)
(* row that was added is neither changed nor withdrawn, a claim never      *)
(* stands without its source, and whoever is told that rows were promoted  *)
(* finds them there from then on.                                          *)
(***************************************************************************)
CONSTANTS
    Item,       \* the rows an artifact may hold, by id
    Source,     \* the id among them that is a source; the others are claims
    Row         \* what a row may say: the decision it was accepted with

VARIABLES
    rows,       \* rows[i]: the row with id i, or Absent
    told        \* the <<id, row>> pairs somebody was told are promoted

Absent == "absent"

Artifact == [Item -> Row \cup {Absent}]

\* Every claim has its source, a reviewed claim an accepted one.
Supported(artifact) ==
    \A c \in Item \ {Source} :
        /\ artifact[c] # Absent => artifact[Source] # Absent
        /\ artifact[c] = "accept_reviewed" => artifact[Source] = "accept_draft"

Init ==
    /\ rows = [i \in Item |-> Absent]
    /\ told = {}

Promote ==
    /\ rows' \in Artifact
    /\ \A i \in Item : rows[i] # Absent => rows'[i] = rows[i]
    /\ Supported(rows')
    /\ told \subseteq told'
    /\ \A t \in told' : rows'[t[1]] = t[2]

Next == Promote

Spec == Init /\ [][Next]_<<rows, told>>
================================================================================
