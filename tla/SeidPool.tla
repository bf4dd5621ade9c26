------------------------------ MODULE SeidPool ------------------------------
(***************************************************************************)
(* What the session table of the UPF promises its users: a SEID that is in  *)
(* use belongs to one session until that session ends.                      *)
(***************************************************************************)
EXTENDS Naturals

CONSTANT Owners      \* whose sessions they are

VARIABLE owner       \* the owner of every SEID in use

Init == owner = << >>

Give(i, o) ==
  /\ i \notin DOMAIN owner
  /\ owner' = [j \in DOMAIN owner \cup {i} |-> IF j = i THEN o ELSE owner[j]]

TakeBack(S) == owner' = [j \in DOMAIN owner \ S |-> owner[j]]

Next == \/ \E i \in DOMAIN owner' : owner'[i] \in Owners /\ Give(i, owner'[i])
        \/ \E S \in SUBSET DOMAIN owner : TakeBack(S)

Spec == Init /\ [][Next]_owner
=============================================================================
