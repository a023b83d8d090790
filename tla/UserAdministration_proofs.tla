---------------------- MODULE UserAdministration_proofs ----------------------
(***************************************************************************)
(* Member administration keeps an administrator, names one group with each *)
(* session version and implements AdminRoster, for any sets of accounts,   *)
(* groups and overlapping requests.                                        *)
(***************************************************************************)
EXTENDS UserAdministration, FiniteSetTheorems, TLAPS

\* A request has counted nothing before its statement locks rows.
NothingCounted ==
  \A r \in Request : request[r].pc \in {"idle", "find", "scan"} => request[r].counted = {}

\* Every committed pair of version and group is on record, no record is ahead
\* of the account, and the record of the current version is the current group.
Recorded ==
  /\ \A u \in User : group[u] # Gone => <<u, version[u], group[u]>> \in seen
  /\ \A s \in seen : /\ s[2] <= version[s[1]]
                     /\ s[2] = version[s[1]] /\ group[s[1]] # Gone => s[3] = group[s[1]]

IInv ==
  /\ TypeOK
  /\ NothingCounted
  /\ CountedStayAdmin
  /\ AdminRemains
  /\ Recorded
  /\ VersionNamesGroup

LEMMA InitIInv == Init => IInv
<1> SUFFICES ASSUME Init PROVE IInv OBVIOUS
<1> USE AdminAssumption DEF Init
<1>1. TypeOK
  <2>1. request \in [Request -> RequestRow]
    <3>1. PICK target \in [Request -> User], to \in [Request -> Group \cup {Gone}] :
            request = [r \in Request |->
              [pc |-> "idle", target |-> target[r], to |-> to[r], todo |-> << >>,
               counted |-> {}, answer |-> None]]
      OBVIOUS
    <3> QED BY <3>1 DEF RequestRow
  <2> QED BY <2>1 DEF TypeOK
<1>2. \A r \in Request : request[r].pc = "idle" /\ request[r].counted = {}
  <2>1. PICK target \in [Request -> User], to \in [Request -> Group \cup {Gone}] :
          request = [r \in Request |->
            [pc |-> "idle", target |-> target[r], to |-> to[r], todo |-> << >>,
             counted |-> {}, answer |-> None]]
    OBVIOUS
  <2> QED BY <2>1
<1>3. NothingCounted /\ CountedStayAdmin BY <1>2 DEF NothingCounted, CountedStayAdmin
<1>4. Recorded /\ VersionNamesGroup
  <2>1. \A s \in seen : s[1] \in User /\ s = <<s[1], 0, group[s[1]]>> OBVIOUS
  <2> QED BY <2>1 DEF Recorded, VersionNamesGroup
<1> QED BY <1>1, <1>3, <1>4 DEF IInv, AdminRemains

-----------------------------------------------------------------------------
(* Steps that leave the accounts alone.                                    *)

\* What a step of r that writes no account may do to r's row and the locks.
KeepsLocks(r, row) ==
  \/ /\ owner' = owner
     /\ row.pc \in {"lock", "write"} =>
          \A u \in row.counted : group[u] = Admin /\ owner[u] = r
  \/ owner' = Released(r) /\ row.pc \notin {"lock", "write"}
  \/ \E v \in User :
       /\ Free(v, r) /\ owner' = Locked(v, r)
       /\ \A u \in row.counted : group[u] = Admin /\ (u = v \/ owner[u] = r)

\* Such a step keeps the invariant.
LEMMA QuietStep ==
  ASSUME IInv, NEW r \in Request, NEW row \in RequestRow,
         request' = [request EXCEPT ![r] = row],
         UNCHANGED <<group, version, seen>>,
         row.pc \in {"idle", "find", "scan"} => row.counted = {},
         KeepsLocks(r, row)
  PROVE  IInv'
<1> USE DEF IInv
<1>1. TypeOK'
  <2>1. owner' \in [User -> Request \cup {None}]
    BY DEF TypeOK, KeepsLocks, Released, Locked
  <2> QED BY <2>1 DEF TypeOK
<1>2. NothingCounted' BY DEF TypeOK, NothingCounted
<1>3. CountedStayAdmin'
  <2> SUFFICES ASSUME NEW q \in Request, request'[q].pc \in {"lock", "write"},
                      NEW u \in request'[q].counted
               PROVE  group[u] = Admin /\ owner'[u] = q
    BY DEF CountedStayAdmin
  <2>1. u \in User BY DEF TypeOK, RequestRow
  <2>2. CASE q = r
    <3>1. request'[q] = row BY <2>2 DEF TypeOK
    <3> QED BY <2>1, <2>2, <3>1 DEF TypeOK, KeepsLocks, Locked
  <2>3. CASE q # r
    <3>1. request'[q] = request[q] BY <2>3 DEF TypeOK
    <3>2. group[u] = Admin /\ owner[u] = q BY <3>1 DEF CountedStayAdmin
    <3> QED BY <2>1, <2>3, <3>2, AdminAssumption DEF TypeOK, KeepsLocks, Released, Locked, Free
  <2> QED BY <2>2, <2>3
<1>4. AdminRemains' /\ Recorded' /\ VersionNamesGroup'
  BY DEF AdminRemains, Admins, Recorded, VersionNamesGroup
<1> QED BY <1>1, <1>2, <1>3, <1>4

LEMMA OrdersAreSequences == ASSUME NEW S \in SUBSET User PROVE Orders(S) \subseteq Seq(User)
<1>1. Cardinality(S) \in Nat BY UserAssumption, FS_Subset, FS_CardinalityType
<1> QED BY <1>1 DEF Orders

LEMMA BeginStep == ASSUME IInv, NEW r \in Request, Begin(r) PROVE IInv'
<1> DEFINE row == [request[r] EXCEPT !.pc = "find"]
<1>1. request[r] \in RequestRow /\ request[r].counted = {}
  BY DEF IInv, TypeOK, NothingCounted, Begin
<1>2. row \in RequestRow /\ row.counted = {} /\ row.pc = "find" BY <1>1 DEF RequestRow
<1>3. request' = [request EXCEPT ![r] = row] BY DEF Begin, Goto
<1>4. KeepsLocks(r, row) BY <1>2 DEF KeepsLocks, Begin
<1> QED BY <1>2, <1>3, <1>4, QuietStep DEF Begin

LEMMA FindStep == ASSUME IInv, NEW r \in Request, Find(r) PROVE IInv'
<1> DEFINE row == IF group[request[r].target] = Gone
                  THEN [request[r] EXCEPT !.pc = "done", !.answer = "missing"]
                  ELSE [request[r] EXCEPT !.pc = "scan"]
<1>1. request[r] \in RequestRow /\ request[r].counted = {}
  BY DEF IInv, TypeOK, NothingCounted, Find
<1>2. row \in RequestRow /\ row.counted = {} /\ row.pc \in {"done", "scan"}
  BY <1>1 DEF RequestRow, Answer
<1>3. request' = [request EXCEPT ![r] = row] BY DEF Find, Goto, Finish
<1>4. KeepsLocks(r, row) BY <1>2 DEF KeepsLocks, Find
<1> QED BY <1>2, <1>3, <1>4, QuietStep DEF Find

LEMMA RecheckStep == ASSUME IInv, NEW r \in Request, Recheck(r) PROVE IInv'
<1> DEFINE row == [request[r] EXCEPT !.pc = "done", !.answer =
                    IF group[request[r].target] = Gone THEN "missing" ELSE "last_admin"]
<1>1. request[r] \in RequestRow BY DEF IInv, TypeOK
<1>2. row \in RequestRow /\ row.pc = "done" BY <1>1 DEF RequestRow, Answer
<1>3. request' = [request EXCEPT ![r] = row] BY DEF Recheck, Finish
<1>4. KeepsLocks(r, row) BY <1>2 DEF KeepsLocks, Recheck
<1> QED BY <1>2, <1>3, <1>4, QuietStep DEF Recheck

LEMMA ScanStep == ASSUME IInv, NEW r \in Request, Scan(r) PROVE IInv'
<1> DEFINE g == group[request[r].target]
           pc == CASE g = Gone -> "recheck"
                   [] g # Gone /\ NeedsNoCount(g, request[r].to) -> "write"
                   [] OTHER -> "lock"
<1>1. PICK order \in Orders(Admins) :
        request' = [request EXCEPT ![r] = [@ EXCEPT !.todo = order, !.pc = pc]]
  BY DEF Scan
<1> DEFINE row == [request[r] EXCEPT !.todo = order, !.pc = pc]
<1>2. request[r] \in RequestRow /\ request[r].counted = {}
  BY DEF IInv, TypeOK, NothingCounted, Scan
<1>3. order \in Seq(User) BY OrdersAreSequences DEF Admins
<1>4. row \in RequestRow /\ row.counted = {} BY <1>2, <1>3 DEF RequestRow
<1>5. request' = [request EXCEPT ![r] = row] BY <1>1
<1>6. KeepsLocks(r, row) BY <1>4 DEF KeepsLocks, Scan
<1> QED BY <1>4, <1>5, <1>6, QuietStep DEF Scan

LEMMA LockNextStep == ASSUME IInv, NEW r \in Request, LockNext(r) PROVE IInv'
<1> DEFINE v == Head(request[r].todo)
           row == [request[r] EXCEPT !.todo = Tail(request[r].todo),
                                     !.counted = request[r].counted \cup StillAdmin(v)]
<1>1. request[r] \in RequestRow /\ request[r].pc = "lock" /\ request[r].todo # << >>
  BY DEF IInv, TypeOK, LockNext
<1>2. request[r].todo \in Seq(User) /\ request[r].counted \in SUBSET User
  BY <1>1 DEF RequestRow
<1>3. v \in User /\ Tail(request[r].todo) \in Seq(User) BY <1>1, <1>2
<1>4. StillAdmin(v) \subseteq User BY <1>3 DEF StillAdmin
<1>5. row \in RequestRow /\ row.pc = "lock" BY <1>1, <1>2, <1>3, <1>4 DEF RequestRow
<1>6. row.counted = request[r].counted \cup StillAdmin(v) BY <1>1 DEF RequestRow
<1>7. \A u \in row.counted : group[u] = Admin /\ (u = v \/ owner[u] = r)
  BY <1>1, <1>6 DEF IInv, CountedStayAdmin, StillAdmin
<1>8. KeepsLocks(r, row) BY <1>3, <1>7 DEF KeepsLocks, LockNext
<1>9. request' = [request EXCEPT ![r] = row] BY DEF LockNext
<1> HIDE DEF row
<1> QED BY <1>5, <1>8, <1>9, QuietStep DEF LockNext

LEMMA NoRowStep == ASSUME IInv, NEW r \in Request, NoRow(r) PROVE IInv'
<1> DEFINE row == [request[r] EXCEPT !.pc = "recheck"]
<1>1. request[r] \in RequestRow BY DEF IInv, TypeOK
<1>2. row \in RequestRow /\ row.pc = "recheck" BY <1>1 DEF RequestRow
<1>3. request' = [request EXCEPT ![r] = row] BY DEF NoRow, Goto
<1>4. KeepsLocks(r, row) BY <1>2 DEF KeepsLocks, NoRow
<1> QED BY <1>2, <1>3, <1>4, QuietStep DEF NoRow

LEMMA CountedStep == ASSUME IInv, NEW r \in Request, Counted(r) PROVE IInv'
<1>1. CASE Goto(r, "write") /\ UNCHANGED <<group, version, owner, seen>>
  <2> DEFINE row == [request[r] EXCEPT !.pc = "write"]
  <2>1. request[r] \in RequestRow /\ request[r].pc = "lock" BY DEF IInv, TypeOK, Counted
  <2>2. row \in RequestRow /\ row.pc = "write" /\ row.counted = request[r].counted
    BY <2>1 DEF RequestRow
  <2>3. request' = [request EXCEPT ![r] = row] BY <1>1 DEF Goto
  <2>4. \A u \in row.counted : group[u] = Admin /\ owner[u] = r
    BY <2>1, <2>2 DEF IInv, CountedStayAdmin
  <2>5. KeepsLocks(r, row) BY <1>1, <2>4 DEF KeepsLocks
  <2> QED BY <1>1, <2>2, <2>3, <2>5, QuietStep
<1>2. CASE NoRow(r) BY <1>2, NoRowStep
<1> QED BY <1>1, <1>2 DEF Counted

\* A statement that fails, by a foreign key or as the victim of a deadlock.
LEMMA FailStep ==
  ASSUME IInv, NEW r \in Request, owner' = Released(r), Finish(r, "error"),
         UNCHANGED <<group, version, seen>>
  PROVE  IInv'
<1> DEFINE row == [request[r] EXCEPT !.pc = "done", !.answer = "error"]
<1>1. request[r] \in RequestRow BY DEF IInv, TypeOK
<1>2. row \in RequestRow /\ row.pc = "done" BY <1>1 DEF RequestRow, Answer
<1>3. request' = [request EXCEPT ![r] = row] BY DEF Finish
<1>4. KeepsLocks(r, row) BY <1>2 DEF KeepsLocks
<1> QED BY <1>2, <1>3, <1>4, QuietStep

-----------------------------------------------------------------------------
(* The write.                                                              *)

\* What the lock protocol guarantees the moment an account is written: an
\* administrator other than the target exists unless the target becomes or
\* stays one.
LEMMA AnotherAdmin ==
  ASSUME IInv, NEW r \in Request, request[r].pc = "write",
         LET g == group[request[r].target] IN
           g # Gone /\ (NeedsNoCount(g, request[r].to) \/ SeveralCounted(r)),
         request[r].to # Admin
  PROVE  \E o \in User \ {request[r].target} : group[o] = Admin
<1> DEFINE u == request[r].target
<1>1. CASE group[u] # Admin BY <1>1 DEF IInv, AdminRemains, Admins
<1>2. CASE SeveralCounted(r)
  <2>1. request[r].counted \in SUBSET User BY DEF IInv, TypeOK, RequestRow
  <2> QED BY <1>2, <2>1 DEF SeveralCounted, IInv, CountedStayAdmin
<1> QED BY <1>1, <1>2 DEF NeedsNoCount

\* The guard under which Write commits.
MayCommit(r) ==
  LET u == request[r].target IN
  /\ request[r].pc = "write"
  /\ Free(u, r)
  /\ group[u] # Gone /\ (NeedsNoCount(group[u], request[r].to) \/ SeveralCounted(r))

LEMMA CommitStep == ASSUME IInv, NEW r \in Request, MayCommit(r), Commit(r) PROVE IInv'
<1> DEFINE u == request[r].target
           g == request[r].to
           v == IF g = Gone THEN version[u] ELSE NextVersion(u, g)
           row == [request[r] EXCEPT !.pc = "done", !.answer = "changed"]
<1> USE DEF IInv
<1>1. request[r] \in RequestRow /\ u \in User /\ g \in Group \cup {Gone}
  BY DEF TypeOK, RequestRow
<1>2. row \in RequestRow /\ row.pc = "done" BY <1>1 DEF RequestRow, Answer
<1>3. request' = [request EXCEPT ![r] = row] BY DEF Commit, Finish
<1>4. group' = [group EXCEPT ![u] = g] /\ version' = [version EXCEPT ![u] = v]
  BY DEF Commit
<1>5. v \in Nat /\ version[u] \in Nat /\ v >= version[u]
      /\ (g # Gone /\ g # group[u] => v > version[u])
      /\ (g = Gone \/ g = group[u] => v = version[u])
  BY <1>1 DEF TypeOK, NextVersion
<1>6. seen' = IF g = Gone THEN seen ELSE seen \cup {<<u, v, g>>} BY DEF Commit
<1>7. group[u] # Gone BY DEF MayCommit
<1> HIDE DEF v, row
<1>8. TypeOK'
  <2>1. owner' \in [User -> Request \cup {None}] BY DEF TypeOK, Commit, Released
  <2>2. request' \in [Request -> RequestRow] BY <1>2, <1>3 DEF TypeOK
  <2>3. group' \in [User -> Group \cup {Gone}] /\ version' \in [User -> Nat]
    BY <1>1, <1>4, <1>5 DEF TypeOK
  <2>4. seen' \subseteq User \X Nat \X Group BY <1>1, <1>5, <1>6 DEF TypeOK
  <2> QED BY <2>1, <2>2, <2>3, <2>4 DEF TypeOK
<1>9. NothingCounted' BY <1>2, <1>3 DEF TypeOK, NothingCounted
<1>10. CountedStayAdmin'
  <2> SUFFICES ASSUME NEW q \in Request, request'[q].pc \in {"lock", "write"},
                      NEW w \in request'[q].counted
               PROVE  group'[w] = Admin /\ owner'[w] = q
    BY DEF CountedStayAdmin
  <2>1. q # r BY <1>2, <1>3 DEF TypeOK
  <2>2. request'[q] = request[q] BY <1>3, <2>1 DEF TypeOK
  <2>3. w \in User BY <2>2 DEF TypeOK, RequestRow
  <2>4. group[w] = Admin /\ owner[w] = q BY <2>2 DEF CountedStayAdmin
  <2>5. w # u BY <2>1, <2>4, AdminAssumption DEF MayCommit, Free
  <2> QED BY <1>4, <2>1, <2>3, <2>4, <2>5 DEF TypeOK, Commit, Released
<1>11. AdminRemains'
  <2>1. CASE g = Admin BY <1>1, <1>4, <2>1 DEF TypeOK, AdminRemains, Admins
  <2>2. CASE g # Admin
    <3>1. PICK o \in User \ {u} : group[o] = Admin BY <2>2, AnotherAdmin DEF MayCommit
    <3>2. group'[o] = Admin BY <1>4, <3>1 DEF TypeOK
    <3> QED BY <3>2 DEF AdminRemains, Admins
  <2> QED BY <2>1, <2>2
<1>12. Recorded'
  <2>1. \A s \in seen : s[1] \in User /\ s[2] \in Nat BY DEF TypeOK
  <2>2. \A w \in User : group'[w] # Gone => <<w, version'[w], group'[w]>> \in seen'
    BY <1>1, <1>4, <1>6 DEF TypeOK, Recorded
  <2>3. \A s \in seen : s[2] <= version'[s[1]]
    BY <1>1, <1>4, <1>5, <2>1 DEF TypeOK, Recorded
  <2>4. \A s \in seen : s[2] = version'[s[1]] /\ group'[s[1]] # Gone => s[3] = group'[s[1]]
    <3> SUFFICES ASSUME NEW s \in seen, s[2] = version'[s[1]], group'[s[1]] # Gone
                 PROVE  s[3] = group'[s[1]]
      OBVIOUS
    <3>1. CASE s[1] # u BY <1>1, <1>4, <2>1, <3>1 DEF TypeOK, Recorded
    <3>2. CASE s[1] = u
      <4>1. g # Gone /\ s[2] = v BY <1>1, <1>4, <3>2 DEF TypeOK
      <4>2. s[2] <= version[u] /\ (s[2] = version[u] => s[3] = group[u])
        BY <1>7, <3>2 DEF Recorded
      <4>3. g = group[u] BY <1>5, <2>1, <4>1, <4>2
      <4> QED BY <1>1, <1>4, <1>5, <3>2, <4>1, <4>2, <4>3 DEF TypeOK
    <3> QED BY <3>1, <3>2
  <2>5. <<u, v, g>>[1] = u /\ <<u, v, g>>[2] = v /\ <<u, v, g>>[3] = g OBVIOUS
  <2>6. v = version'[u] /\ g = group'[u] BY <1>1, <1>4 DEF TypeOK
  <2> QED BY <1>5, <1>6, <2>2, <2>3, <2>4, <2>5, <2>6 DEF Recorded
<1>13. VersionNamesGroup'
  <2> DEFINE new == <<u, v, g>>
  <2>1. new[1] = u /\ new[2] = v /\ new[3] = g OBVIOUS
  <2>2. \A s \in seen : g # Gone /\ s[1] = u /\ s[2] = v => s[3] = g
    BY <1>5, <1>7 DEF Recorded, TypeOK
  <2> HIDE DEF new
  <2>3. seen' \subseteq seen \cup {new} /\ (new \in seen' \ seen => g # Gone)
    BY <1>6 DEF new
  <2> QED BY <2>1, <2>2, <2>3 DEF VersionNamesGroup
<1> QED BY <1>8, <1>9, <1>10, <1>11, <1>12, <1>13

\* Write either commits under its guard, waits for its count, or finds no row.
LEMMA WriteCases ==
  ASSUME NEW r \in Request, Write(r)
  PROVE  \/ MayCommit(r) /\ Commit(r)
         \/ /\ request[r].pc = "write" /\ Free(request[r].target, r)
            /\ owner' = Locked(request[r].target, r)
            /\ Goto(r, "lock")
            /\ UNCHANGED <<group, version, seen>>
         \/ NoRow(r)
BY DEF Write, MayCommit, NeedsNoCount

LEMMA WriteStep == ASSUME IInv, NEW r \in Request, Write(r) PROVE IInv'
<1>1. CASE MayCommit(r) /\ Commit(r) BY <1>1, CommitStep
<1>2. CASE /\ request[r].pc = "write" /\ Free(request[r].target, r)
           /\ owner' = Locked(request[r].target, r)
           /\ Goto(r, "lock")
           /\ UNCHANGED <<group, version, seen>>
  <2> DEFINE row == [request[r] EXCEPT !.pc = "lock"]
  <2>1. request[r] \in RequestRow BY DEF IInv, TypeOK
  <2>2. row \in RequestRow /\ row.pc = "lock" /\ row.counted = request[r].counted
        /\ request[r].target \in User
    BY <2>1 DEF RequestRow
  <2>3. request' = [request EXCEPT ![r] = row] BY <1>2 DEF Goto
  <2>4. \A u \in row.counted : group[u] = Admin /\ owner[u] = r
    BY <1>2, <2>2 DEF IInv, CountedStayAdmin
  <2>5. KeepsLocks(r, row) BY <1>2, <2>2, <2>4 DEF KeepsLocks
  <2> QED BY <1>2, <2>2, <2>3, <2>5, QuietStep
<1>3. CASE NoRow(r) BY <1>3, NoRowStep
<1> QED BY <1>1, <1>2, <1>3, WriteCases

LEMMA NextIInv == IInv /\ [Next]_vars => IInv'
<1> SUFFICES ASSUME IInv, [Next]_vars PROVE IInv' OBVIOUS
<1>1. CASE UNCHANGED vars
  BY <1>1 DEF vars, IInv, TypeOK, NothingCounted, CountedStayAdmin, AdminRemains, Admins,
              Recorded, VersionNamesGroup
<1>2. ASSUME NEW r \in Request, Begin(r) \/ Serve(r) PROVE IInv'
  <2>1. CASE Restricted(r) BY <2>1, FailStep DEF Restricted
  <2>2. CASE DeadlockAbort(r) BY <2>2, FailStep DEF DeadlockAbort
  <2> QED BY <1>2, <2>1, <2>2, BeginStep, FindStep, RecheckStep, ScanStep, LockNextStep,
             CountedStep, WriteStep DEF Serve
<1> QED BY <1>1, <1>2 DEF Next

\* The inductive invariant holds in every reachable state.
THEOREM Invariance == Spec => []IInv
BY InitIInv, NextIInv, PTL DEF Spec

\* Accounts, locks, requests and the record keep their types.
THEOREM TypeCorrect == Spec => []TypeOK
BY Invariance, PTL DEF IInv

\* Whatever demotions and deletions overlap, an administrator remains
\* (updateGroup and deleteUser in users/admin/repository.ts).
THEOREM AnAdminRemains == Spec => []AdminRemains
BY Invariance, PTL DEF IInv

\* Two committed states of an account with the same session version have the
\* same group (the CASE on session_version in updateGroup).
THEOREM OneGroupPerVersion == Spec => []VersionNamesGroup
BY Invariance, PTL DEF IInv

\* A row a statement has counted stays an administrator until it ends.
THEOREM CountIsStable == Spec => []CountedStayAdmin
BY Invariance, PTL DEF IInv

\* The component's invariants, together (updateGroup, deleteUser).
THEOREM Invariants == Spec => []RowsSound
BY TypeCorrect, CountIsStable, OneGroupPerVersion, PTL DEF RowsSound

-----------------------------------------------------------------------------
(* Refinement.                                                             *)

\* A committed write is one atomic change of the roster, or none at all when
\* the account already belongs to the group.
LEMMA CommitIsAtomic ==
  ASSUME IInv, NEW r \in Request, MayCommit(r), Commit(r)
  PROVE  [Roster!Next]_<<group, version>>
<1> DEFINE u == request[r].target
           g == request[r].to
<1>1. u \in User /\ g \in Group \cup {Gone} BY DEF IInv, TypeOK, RequestRow
<1>2. group' = [group EXCEPT ![u] = g] BY DEF Commit
<1>3. version' = [version EXCEPT ![u] = IF g = Gone THEN version[u] ELSE NextVersion(u, g)]
  BY DEF Commit
<1>4. group[u] # Gone BY DEF MayCommit
<1>5. g # Admin => \E o \in User \ {u} : group[o] = Admin BY AnotherAdmin DEF MayCommit
<1>6. CASE g = Gone
  <2>1. version' = version BY <1>1, <1>3, <1>6 DEF IInv, TypeOK
  <2>2. Roster!Remove(u)
    BY <1>2, <1>4, <1>5, <1>6, <2>1, AdminAssumption DEF Roster!Remove
  <2> QED BY <1>1, <2>2 DEF Roster!Next
<1>7. CASE g = group[u]
  <2>1. group' = group /\ version' = version
    BY <1>1, <1>2, <1>3, <1>4, <1>7 DEF IInv, TypeOK, NextVersion
  <2> QED BY <2>1
<1>8. CASE g \notin {Gone, group[u]}
  <2>1. version' = [version EXCEPT ![u] = version[u] + 1]
    BY <1>3, <1>8 DEF NextVersion
  <2>2. Roster!Move(u, g) BY <1>2, <1>4, <1>5, <1>8, <2>1 DEF Roster!Move
  <2> QED BY <1>1, <1>8, <2>2 DEF Roster!Next
<1> QED BY <1>6, <1>7, <1>8

LEMMA StepRefines == IInv /\ [Next]_vars => [Roster!Next]_<<group, version>>
<1> SUFFICES ASSUME IInv, [Next]_vars PROVE [Roster!Next]_<<group, version>> OBVIOUS
<1>1. CASE UNCHANGED vars BY <1>1 DEF vars
<1>2. ASSUME NEW r \in Request, Begin(r) \/ Serve(r) PROVE [Roster!Next]_<<group, version>>
  <2>1. CASE Write(r) BY <2>1, WriteCases, CommitIsAtomic DEF NoRow
  <2>2. CASE ~Write(r)
    BY <1>2, <2>2 DEF Serve, Begin, Find, Recheck, Scan, LockNext, Counted, NoRow,
                      Restricted, DeadlockAbort
  <2> QED BY <2>1, <2>2
<1> QED BY <1>1, <1>2 DEF Next

\* Member administration implements AdminRoster: its statements are atomic
\* changes that look at all administrators.
THEOREM Refinement == Spec => ImplementsRoster
<1>1. Init => Roster!Init BY DEF Init, Roster!Init, Admins
<1>2. QED BY <1>1, StepRefines, Invariance, PTL DEF Spec, ImplementsRoster, Roster!Spec

=============================================================================
