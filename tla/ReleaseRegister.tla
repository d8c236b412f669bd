---------------------------- MODULE ReleaseRegister ----------------------------
(***************************************************************************)
(* What the publication of one trade date promises to the readers of the   *)
(* platform: a write-once register.  At most one release is ever           *)
(* registered for the date, and once it is registered no later caller      *)
(* replaces it or takes it back.                                           *)
(***************************************************************************)
EXTENDS Integers

CONSTANT Release     \* what may be registered

VARIABLE registered  \* the registered release, or Unregistered

Unregistered == 0

RegisterTypeOK == registered \in Release \cup {Unregistered}

Init == registered \in Release \cup {Unregistered}

Register(r) ==
    /\ registered = Unregistered
    /\ registered' = r

Next == \E r \in Release : Register(r)

Spec == Init /\ [][Next]_registered
================================================================================
