------------------------- MODULE UserAdministration -------------------------
(***************************************************************************)
(* The member administration of the site: several administrators change    *)
(* groups and delete accounts at the same time.  Each request is three     *)
(* separate statements (find, change, find again); the change is one SQL   *)
(* statement whose CTE locks the ADMIN rows of its snapshot one after the  *)
(* other and whose WHERE clause is re-evaluated on the newest row version  *)
(* when the target changed under it (READ COMMITTED).                      *)
(***************************************************************************)
EXTENDS Integers, Sequences, FiniteSets

CONSTANTS
  User,      \* accounts
  Request,   \* administration requests, each served once
  Group,     \* ADMIN, FACULTY, PENDING, or a cohort (role MEMBER)
  Admin,     \* the group of administrators
  Gone,      \* no such account; as a wish: delete it
  None       \* no lock holder, no answer

ASSUME UserAssumption == IsFiniteSet(User)
ASSUME AdminAssumption ==
  /\ Admin \in Group /\ Gone \notin Group
  /\ None \notin Request

VARIABLES
  group,     \* users.role and users.cohort_id, or Gone
  version,   \* users.session_version
  owner,     \* the statement that holds the row lock of an account
  request,   \* local state of each request
  seen       \* every <<account, version, group>> that was ever committed

vars == <<group, version, owner, request, seen>>

Answer == {"changed", "missing", "last_admin", "error"}

RequestRow ==
  [pc : {"idle", "find", "scan", "lock", "write", "recheck", "done"},
   target : User, to : Group \cup {Gone}, todo : Seq(User),
   counted : SUBSET User, answer : Answer \cup {None}]

TypeOK ==
  /\ group \in [User -> Group \cup {Gone}]
  /\ version \in [User -> Nat]
  /\ owner \in [User -> Request \cup {None}]
  /\ request \in [Request -> RequestRow]
  /\ seen \subseteq User \X Nat \X Group

Admins == {u \in User : group[u] = Admin}

\* (SELECT count(*) FROM admin_lock) > 1
SeveralCounted(r) == \E a, b \in request[r].counted : a # b

\* The WHERE clause of updateGroup and deleteUser without its count.
NeedsNoCount_DeletionUnchecked(g, to) == g # Admin \/ to \in {Admin, Gone}
NeedsNoCount(g, to) == g # Admin \/ to = Admin

Free(u, r) == owner[u] \in {None, r}
Released_TransactionLeftOpen(r) == owner
Released(r) == [u \in User |-> IF owner[u] = r THEN None ELSE owner[u]]

Goto(r, pc) == request' = [request EXCEPT ![r].pc = pc]
Finish(r, answer) ==
  request' = [request EXCEPT ![r] = [@ EXCEPT !.pc = "done", !.answer = answer]]

\* The orders in which a scan can meet the rows of S.
Orders(S) == {o \in [1 .. Cardinality(S) -> S] : \A u \in S : \E i \in DOMAIN o : o[i] = u}

Init ==
  /\ group \in [User -> Group]
  /\ Admins # {}
  /\ version = [u \in User |-> 0]
  /\ owner = [u \in User |-> None]
  /\ \E target \in [Request -> User], to \in [Request -> Group \cup {Gone}] :
       request = [r \in Request |->
         [pc |-> "idle", target |-> target[r], to |-> to[r], todo |-> << >>,
          counted |-> {}, answer |-> None]]
  /\ seen = {<<u, 0, group[u]>> : u \in User}

-----------------------------------------------------------------------------
(* The request handler.                                                    *)

\* requireAdmin, assertAdmin and the protection of oneself: the actor is an
\* administrator now, and may no longer be one when the change is made.
Begin(r) ==
  /\ request[r].pc = "idle"
  /\ \E actor \in Admins : actor # request[r].target
  /\ Goto(r, "find")
  /\ UNCHANGED <<group, version, owner, seen>>

Find(r) ==
  /\ request[r].pc = "find"
  /\ IF group[request[r].target] = Gone THEN Finish(r, "missing") ELSE Goto(r, "scan")
  /\ UNCHANGED <<group, version, owner, seen>>

\* No row came back: the handler looks again to tell why.
Recheck(r) ==
  /\ request[r].pc = "recheck"
  /\ Finish(r, IF group[request[r].target] = Gone THEN "missing" ELSE "last_admin")
  /\ UNCHANGED <<group, version, owner, seen>>

-----------------------------------------------------------------------------
(* The statement.                                                          *)

\* The statement takes its snapshot and tests the target in it; the count is
\* evaluated only when the rest of the clause does not decide.
Scan(r) ==
  LET g == group[request[r].target] IN
  /\ request[r].pc = "scan"
  /\ \E order \in Orders(Admins) :
       request' = [request EXCEPT ![r] = [@ EXCEPT
         !.todo = order,
         !.pc = CASE g = Gone -> "recheck"
                  [] g # Gone /\ NeedsNoCount(g, request[r].to) -> "write"
                  [] OTHER -> "lock"]]
  /\ UNCHANGED <<group, version, owner, seen>>

\* FOR UPDATE: a row that is no longer ADMIN once its lock is held is skipped.
Locked_NoForUpdate(u, r) == owner
Locked(u, r) == [owner EXCEPT ![u] = r]
StillAdmin_Snapshot(u) == {u}
StillAdmin(u) == IF group[u] = Admin THEN {u} ELSE {}

LockNext(r) ==
  LET u == Head(request[r].todo) IN
  /\ request[r].pc = "lock" /\ request[r].todo # << >>
  /\ Free(u, r)
  /\ owner' = Locked(u, r)
  /\ request' = [request EXCEPT ![r] = [@ EXCEPT
       !.todo = Tail(request[r].todo),
       !.counted = request[r].counted \cup StillAdmin(u)]]
  /\ UNCHANGED <<group, version, seen>>

\* The statement ends without a row and its locks go.
NoRow(r) ==
  /\ owner' = Released(r)
  /\ Goto(r, "recheck")
  /\ UNCHANGED <<group, version, seen>>

Counted(r) ==
  /\ request[r].pc = "lock" /\ request[r].todo = << >>
  /\ \/ /\ SeveralCounted(r)
        /\ Goto(r, "write")
        /\ UNCHANGED <<group, version, owner, seen>>
     \/ ~SeveralCounted(r) /\ NoRow(r)

\* SET session_version = CASE WHEN role or cohort_id IS DISTINCT FROM the new one.
NextVersion_RoleOnly(u, g) ==
  IF (group[u] = Admin) # (g = Admin) THEN version[u] + 1 ELSE version[u]
NextVersion_Back(u, g) == IF group[u] # g THEN version[u] - 1 ELSE version[u]
NextVersion(u, g) == IF group[u] # g THEN version[u] + 1 ELSE version[u]

Commit(r) ==
  LET u == request[r].target
      g == request[r].to
      v == IF g = Gone THEN version[u] ELSE NextVersion(u, g) IN
  /\ group' = [group EXCEPT ![u] = g]
  /\ version' = [version EXCEPT ![u] = v]
  /\ seen' = IF g = Gone THEN seen ELSE seen \cup {<<u, v, g>>}
  /\ owner' = Released(r)
  /\ Finish(r, "changed")

\* The row is written once nobody else locks it, after the WHERE clause has
\* been tested on its newest version; a target promoted in the meantime makes
\* the count necessary after all.
Write(r) ==
  LET u == request[r].target
      q == request[r] IN
  /\ q.pc = "write"
  /\ Free(u, r)
  /\ \/ group[u] # Gone /\ (NeedsNoCount(group[u], q.to) \/ SeveralCounted(r)) /\ Commit(r)
     \/ /\ group[u] # Gone /\ ~NeedsNoCount(group[u], q.to) /\ ~SeveralCounted(r)
        /\ owner' = Locked(u, r)
        /\ Goto(r, "lock")
        /\ UNCHANGED <<group, version, seen>>
     \/ group[u] = Gone /\ NoRow(r)

\* A foreign key that restricts the deletion aborts the statement.
Restricted(r) ==
  /\ request[r].pc = "write" /\ request[r].to = Gone
  /\ Free(request[r].target, r)
  /\ owner' = Released(r)
  /\ Finish(r, "error")
  /\ UNCHANGED <<group, version, seen>>

-----------------------------------------------------------------------------
(* PostgreSQL's deadlock detector.                                         *)

\* Request r waits for a row lock that request q holds.
WaitsFor(r, q) ==
  /\ q # r
  /\ \/ /\ request[r].pc = "lock" /\ request[r].todo # << >>
        /\ owner[Head(request[r].todo)] = q
     \/ request[r].pc = "write" /\ owner[request[r].target] = q

\* r is on a cycle of waiting requests.
Deadlocked(r) ==
  \E S \in SUBSET Request :
    /\ r \in S
    /\ \A x \in S : \E y \in S : WaitsFor(x, y)
    /\ \A y \in S : \E x \in S : WaitsFor(x, y)

DeadlockAbort(r) ==
  /\ Deadlocked(r)
  /\ owner' = Released(r)
  /\ Finish(r, "error")
  /\ UNCHANGED <<group, version, seen>>

Serve(r) ==
  \/ Find(r) \/ Recheck(r) \/ Scan(r) \/ LockNext(r) \/ Counted(r) \/ Write(r)
  \/ Restricted(r) \/ DeadlockAbort(r)

Next == \E r \in Request : Begin(r) \/ Serve(r)

Spec == Init /\ [][Next]_vars

\* A request that has begun is run by the server and the database to its end.
FairSpec == Spec /\ \A r \in Request : WF_vars(Serve(r))

-----------------------------------------------------------------------------
(* Properties.                                                             *)

\* However requests that demote or delete administrators overlap, also each
\* other's actors, an administrator remains (updateGroup, deleteUser).
AdminRemains == Admins # {}

\* A session version stands for one group: whoever obtained a credential at
\* some version of an account belonged to the same group as anyone else who
\* presents that version (the CASE that moves session_version).
VersionNamesGroup ==
  \A a, b \in seen : a[1] = b[1] /\ a[2] = b[2] => a[3] = b[3]

\* The rows a statement has counted stay administrators until it ends.
CountedStayAdmin ==
  \A r \in Request : \A u \in request[r].counted :
    request[r].pc \in {"lock", "write"} => group[u] = Admin /\ owner[u] = r

\* The invariants that lead to AdminRemains, and the one of the session versions.
RowsSound == TypeOK /\ CountedStayAdmin /\ VersionNamesGroup

\* The requests behave as if each change were one atomic step that looks at
\* all administrators (locking and re-evaluation in updateGroup, deleteUser).
Roster == INSTANCE AdminRoster
ImplementsRoster == Roster!Spec

\* Every request that begins is answered, also when two statements lock the
\* administrators in opposite orders.
EveryRequestAnswered ==
  \A r \in Request : request[r].pc # "idle" ~> request[r].pc = "done"
=============================================================================
