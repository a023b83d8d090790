------------------------- MODULE SubmissionContract -------------------------
(***************************************************************************)
(* What the submission feature promises to a student and to the staff who  *)
(* grade: a target is accepted at most once, an acceptance is never taken  *)
(* back or altered, and the accepted file stays readable, unchanged.       *)
(* Everything that is not yet accepted may come and go.                    *)
(***************************************************************************)
CONSTANTS
  Place,    \* storage paths
  Content,  \* contents an object may have
  Acceptance,  \* records of acceptance
  Absent    \* no object

VARIABLES
  accepted, \* the receipts given out
  vault     \* what is stored at each path

\* A receipt names what it accepted for whom: the fields the contract reads.
ForSame(r1, r2) == r1.target = r2.target \/ r1.intent = r2.intent \/ r1.key = r2.key

Init == accepted = {} /\ vault = [p \in Place |-> Absent]

\* Accept a file that is in the vault, for a target nothing was accepted for.
\* r ranges over the new value, so that Acceptance need not be enumerated.
Accept ==
  \E r \in accepted' :
    /\ r \in Acceptance
    /\ \A old \in accepted : ~ForSame(old, r)
    /\ vault[r.intent] = r.file
    /\ accepted' = accepted \cup {r}
    /\ UNCHANGED vault

\* Store, lose or delete an object nobody has been promised.
Change(p, c) ==
  /\ \A r \in accepted : r.intent # p
  /\ vault' = [vault EXCEPT ![p] = c]
  /\ UNCHANGED accepted

Next ==
  \/ Accept
  \/ \E p \in Place, c \in Content \cup {Absent} : Change(p, c)

Spec == Init /\ [][Next]_<<accepted, vault>>
=============================================================================
