---------------------------- MODULE AdminRoster ----------------------------
(***************************************************************************)
(* What member administration promises, with every change atomic: a change *)
(* of group or a removal never takes away the last administrator, and the  *)
(* session version of an account moves exactly when its group does.        *)
(***************************************************************************)
EXTENDS Naturals

CONSTANTS User, Group, Admin, Gone

VARIABLES group, version

Init ==
  /\ group \in [User -> Group]
  /\ \E u \in User : group[u] = Admin
  /\ version = [u \in User |-> 0]

Remove(u) ==
  /\ group[u] # Gone
  /\ \E o \in User \ {u} : group[o] = Admin
  /\ group' = [group EXCEPT ![u] = Gone]
  /\ UNCHANGED version

Move(u, g) ==
  /\ group[u] \notin {Gone, g}
  /\ group[u] = Admin => \E o \in User \ {u} : group[o] = Admin
  /\ group' = [group EXCEPT ![u] = g]
  /\ version' = [version EXCEPT ![u] = @ + 1]

Next == \E u \in User : Remove(u) \/ \E g \in Group : Move(u, g)

Spec == Init /\ [][Next]_<<group, version>>
=============================================================================
