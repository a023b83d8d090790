--------------------------- MODULE AcademicRegistry ---------------------------
(***************************************************************************)
(* The academic records: students, their accounts and enrolments, and one  *)
(* assignment from draft to closure, as the SQL functions                  *)
(*   register_academic_roster      (scripts/migrate-academic-roster.sql)   *)
(*   apply_academic_enrollment_links  (...-enrollment-links.sql)           *)
(*   mutate_academic_assignment    (...-assignment-actions.sql)            *)
(* and the triggers of migrate-academic-assignments.sql change them.       *)
(*                                                                         *)
(* A call is one transaction: it takes its first locks one by one, checks, *)
(* takes the locks of its writes, writes, and commits or rolls back.  The  *)
(* approver's pages keep one request id per form and send it again when    *)
(* the answer is lost, so any request may be called several times, also    *)
(* concurrently.                                                           *)
(***************************************************************************)
EXTENDS Integers, Sequences, FiniteSets, SequencesExt

CONSTANTS
  Proc,      \* concurrent calls of the database functions
  Req,       \* request ids
  Form,      \* [Req -> what the request's form may send]
  Student, User, Cohort, Event, Text,
  Scenario,  \* bounds: how often each request is called, and how often others act
  Actor,     \* [Req -> the approver configured where the request is served]
  IdOf,      \* [Student or User -> its id]
  None

Kind == {"register", "link", "create", "update", "publish", "close"}
DraftKind == {"create", "update"}

\* What a call is asked to do.
Body == [text : Text \union {None}, cohort : Cohort \union {None}, event : Event \union {None}]
LinkPlan == [student : Student, user : User, cohort : Cohort, role : {"MEMBER"},
             was : Cohort \union {None}]
Load == [kind : Kind, student : Student \union {None}, cohort : Cohort \union {None},
         links : Seq(LinkPlan), body : Body, version : Nat, targets : SUBSET Student]

ASSUME RegistryAssumption ==
  /\ Actor \in [Req -> User]
  /\ IdOf \in [Student \union User -> Nat]
  /\ \A i, j \in Student \union User : IdOf[i] = IdOf[j] => i = j
  /\ None \notin Req \union Student \union User \union Event \union Cohort \union Load
  /\ Form \in [Req -> SUBSET Load]
  /\ \A r \in Req : \A x \in Form[r] :
       x.kind = "register" => x.student \in Student /\ x.cohort \in Cohort
  /\ Scenario \subseteq [calls : [Req -> Nat], changes : Nat]

\* The database has a limited number of connections.
ASSUME FiniteCalls == IsFiniteSet(Proc)

\* The requests that may create an assignment: the model has one assignment.
Creates(r) == \E x \in Form[r] : x.kind = "create"

ASSUME OneCreator ==
  \A S \in Scenario : \A r, q \in Req :
    S.calls[r] > 0 /\ S.calls[q] > 0 /\ Creates(r) /\ Creates(q) => r = q

VARIABLES
  account,    \* [User -> [role, cohort]]
  linked,     \* [Student -> User or None]: academic_students.user_id
  enrolled,   \* cohort_enrollments: pairs of student and cohort
  event,      \* [Event -> Cohort]: schedule_events.cohort_id
  assignment, \* the assignment: [status, version, body, late, targets]
  ledger,     \* [Req -> payload recorded with the request's effect, or None]
  page,       \* [Req -> what the request's form was rendered from, or None]
  txn,        \* [Proc -> transaction]
  answer,     \* [Proc -> the last answer given]
  calls,      \* [Req -> calls still to be made]
  changes     \* changes that others still make

db == <<account, linked, enrolled, event, assignment, ledger>>
vars == <<db, page, txn, answer, calls, changes>>

NoBody == [text |-> None, cohort |-> None, event |-> None]
NoAssignment ==
  [status |-> "none", version |-> 0, body |-> NoBody, late |-> FALSE, targets |-> {}]
Quiet == [pc |-> "idle", req |-> None, load |-> None, todo |-> <<>>, holds |-> {}, got |-> {}]
Silent == [req |-> None, load |-> None, how |-> "none"]

Init ==
  /\ account = [u \in User |-> [role |-> "MEMBER", cohort |-> None]]
  /\ linked = [s \in Student |-> None]
  /\ enrolled = {}
  /\ event \in [Event -> Cohort]
  /\ assignment = NoAssignment
  /\ ledger = [r \in Req |-> None]
  /\ page = [r \in Req |-> None]
  /\ txn = [p \in Proc |-> Quiet]
  /\ answer = [p \in Proc |-> Silent]
  /\ \E S \in Scenario : calls = S.calls /\ changes = S.changes

-----------------------------------------------------------------------------
\* The approver's pages.

Members(c) == {s \in Student : <<s, c>> \in enrolled}

\* A page is rendered: the draft it shows and, for a publication, the students
\* of the draft's cohort at one instant.
Shown(kind) ==
  /\ kind \in {"update", "publish"} => assignment.status = "DRAFT"
  /\ kind = "close" => assignment.status # "none"

Open(r) ==
  /\ page[r] = None
  /\ calls[r] > 0
  /\ \A x \in Form[r] : Shown(x.kind)
  /\ page' = [page EXCEPT ![r] =
       [version |-> assignment.version, body |-> assignment.body,
        targets |-> Members(assignment.body.cohort)]]
  /\ UNCHANGED <<db, txn, answer, calls, changes>>

\* What the form sends: the fields of the form, and for an update or a
\* publication the version, and the targets, that the page was rendered from.
Payload(r, x) ==
  [x EXCEPT !.version = IF x.kind \in {"update", "publish"} THEN page[r].version ELSE 0,
            !.targets = IF x.kind = "publish" THEN page[r].targets ELSE {}]

-----------------------------------------------------------------------------
\* Locks.  X: FOR UPDATE, an advisory lock, or an uncommitted index entry;
\* K: FOR KEY SHARE or FOR SHARE; W: ROW EXCLUSIVE, S: SHARE on the table.

Lock(what, of, mode) == [what |-> what, of |-> of, mode |-> mode]
Conflict(l, m) ==
  /\ l.what = m.what
  /\ l.of = m.of
  /\ \/ "X" \in {l.mode, m.mode}
     \/ {l.mode, m.mode} = {"W", "S"}

WaitsFor(p, q) ==
  /\ p # q
  /\ txn[p].todo # <<>>
  /\ \E h \in txn[q].holds : Conflict(Head(txn[p].todo), h)

\* Mutant: accounts are locked in the order of the plan.
LinkOrder_AsGiven(r, load) == [i \in DOMAIN load.links |-> load.links[i].user] \o <<Actor[r]>>
\* Mutant: only the approver's account is locked.
LinkOrder_ApproverOnly(r, load) == <<Actor[r]>>

\* ORDER BY id: the k-th is the one that k of them do not come after.
UpTo(ids, i) == {j \in ids : IdOf[j] <= IdOf[i]}
InIdOrder(ids) ==
  [k \in 1..Cardinality(ids) |-> CHOOSE i \in ids : Cardinality(UpTo(ids, i)) = k]
LinkOrder(r, load) == InIdOrder({Actor[r]} \union {load.links[i].user : i \in DOMAIN load.links})

\* Mutant: calls of one request are not serialised.
RequestLock_None(r) == <<>>

\* A plan has one link of a student.
LinkStudents(load) == {load.links[i].student : i \in DOMAIN load.links}
LinkOf(load, s) == CHOOSE k \in Range(load.links) : k.student = s

RequestLock(r) == <<Lock("request", r, "X")>>
LockEach(what, ids) == [i \in DOMAIN ids |-> Lock(what, ids[i], "X")]

FirstLocks(r, load) ==
  IF load.kind = "register" THEN RequestLock(r) \o <<Lock("student", load.student, "K")>>
  ELSE IF load.kind = "link"
  THEN RequestLock(r) \o LockEach("user", LinkOrder(r, load))
       \o LockEach("student", InIdOrder(LinkStudents(load)))
  ELSE RequestLock(r) \o <<Lock("user", Actor[r], "X")>>
       \o (IF load.kind = "create" THEN <<>> ELSE <<Lock("assignment", None, "X")>>)

PairLock(s, c) == Lock("pair", <<s, c>>, "X")

\* INSERT locks the table, waits for an uncommitted row with the same key, and
\* locks the row its foreign key names.
RegisterLocks(r, load) ==
  <<Lock("roster", None, "W"), PairLock(load.student, load.cohort), Lock("user", Actor[r], "K")>>
LinkLocks(load) ==
  LET students == InIdOrder(LinkStudents(load)) IN
  <<Lock("roster", None, "W")>>
    \o [i \in DOMAIN students |-> PairLock(students[i], LinkOf(load, students[i]).cohort)]
\* Mutant: the roster is not locked against registrations.
PublishLocks_None == <<>>

PublishLocks == <<Lock("roster", None, "S")>>
\* Mutant: the lesson is read without FOR SHARE.
EventLocks_None(body) == <<>>

EventLocks(body) == IF body.event = None THEN <<>> ELSE <<Lock("event", body.event, "K")>>

WriteLocks(r, load) ==
  IF load.kind = "register" THEN RegisterLocks(r, load)
  ELSE IF load.kind = "link" THEN LinkLocks(load)
  ELSE IF load.kind = "publish" /\ assignment.status = "DRAFT"
  THEN PublishLocks \o EventLocks(assignment.body)
  ELSE IF load.kind \in DraftKind THEN EventLocks(load.body) ELSE <<>>

-----------------------------------------------------------------------------
\* A call.

Begin(p) ==
  /\ txn[p].pc = "idle"
  /\ \E r \in Req : \E x \in Form[r] :
       /\ page[r] # None
       /\ calls[r] > 0
       /\ calls' = [calls EXCEPT ![r] = @ - 1]
       /\ LET load == Payload(r, x) IN
          txn' = [txn EXCEPT ![p] =
            [pc |-> "check", req |-> r, load |-> load, todo |-> FirstLocks(r, load),
             holds |-> {}, got |-> {}]]
  /\ UNCHANGED <<db, page, answer, changes>>

Acquire(p) ==
  /\ txn[p].todo # <<>>
  /\ \A q \in Proc : ~WaitsFor(p, q)
  /\ txn' = [txn EXCEPT ![p] =
       [txn[p] EXCEPT !.todo = Tail(txn[p].todo), !.holds = @ \union {Head(txn[p].todo)}]]
  /\ UNCHANGED <<db, page, answer, calls, changes>>

At(p, pc) == txn[p].pc = pc /\ txn[p].todo = <<>>

\* The transaction ends and the caller is answered.
Ended(p, how) ==
  /\ txn' = [txn EXCEPT ![p] = Quiet]
  /\ answer' = [answer EXCEPT ![p] = [req |-> txn[p].req, load |-> txn[p].load, how |-> how]]

\* Mutant: any version is accepted.
Stale_Never(load) == FALSE

\* HRA05: the version the page was rendered from.
Stale(load) == load.version # assignment.version

\* The link's student and account are still what the approver confirmed, and
\* linked to nothing else.
Linkable(k) ==
  /\ account[k.user].role = k.role
  /\ account[k.user].cohort = k.was
  /\ linked[k.student] \in {None, k.user}
  /\ \A s \in Student \ {k.student} : linked[s] # k.user

Acceptable(load) ==
  CASE load.kind \in {"register", "create"} -> TRUE
    [] load.kind = "link" -> \A i \in DOMAIN load.links : Linkable(load.links[i])
    [] load.kind = "update" -> assignment.status = "DRAFT" /\ ~Stale(load)
    [] load.kind = "publish" ->
         /\ assignment.status # "none"
         /\ assignment.status = "DRAFT" => ~Stale(load) /\ ~assignment.late
    [] load.kind = "close" -> assignment.status \in {"PUBLISHED", "CLOSED"}

\* A registration's caller is checked by the web service alone.
Authorised(r, load) == load.kind = "register" \/ account[Actor[r]].role # "PENDING"

\* The request is looked up under its lock, then its own conditions checked.
Check(p) ==
  /\ At(p, "check")
  /\ LET r == txn[p].req
         load == txn[p].load IN
     \/ /\ ~Authorised(r, load)
        /\ Ended(p, "forbidden")
     \/ /\ Authorised(r, load)
        /\ ledger[r] # None
        /\ Ended(p, IF ledger[r] = load THEN "replayed" ELSE "conflict")
     \/ /\ Authorised(r, load)
        /\ ledger[r] = None
        /\ ~Acceptable(load)
        /\ Ended(p, "refused")
     \/ /\ Authorised(r, load)
        /\ ledger[r] = None
        /\ Acceptable(load)
        /\ txn' = [txn EXCEPT ![p] = [txn[p] EXCEPT !.pc = "write", !.todo = WriteLocks(r, load)]]
        /\ UNCHANGED answer
  /\ UNCHANGED <<db, page, calls, changes>>

\* The triggers and constraints of the rows written.  got holds what the
\* statement read: the snapshot of targets, or the pairs to insert.
EventFits(body) == body.event # None => event[body.event] = body.cohort

\* Mutant: the confirmed targets are not compared.
Confirmed_Always(load, targets) == TRUE

\* HRA09: the fingerprint of the targets the page was rendered with.
Confirmed(load, targets) == targets = load.targets

Write(p) ==
  /\ At(p, "write")
  /\ LET load == txn[p].load
         publishing == load.kind = "publish" /\ assignment.status = "DRAFT"
         targets == Members(assignment.body.cohort)
         pairs == {<<load.links[i].student, load.links[i].cohort>> : i \in DOMAIN load.links}
     IN
     \/ /\ load.kind = "register"
        /\ <<load.student, load.cohort>> \in enrolled
        /\ Ended(p, "duplicate")
     \/ /\ load.kind \in DraftKind
        /\ ~EventFits(load.body)
        /\ Ended(p, "refused")
     \/ /\ publishing
        /\ assignment.late \/ ~Confirmed(load, targets)
        /\ Ended(p, "refused")
     \/ /\ load.kind = "register" => <<load.student, load.cohort>> \notin enrolled
        /\ load.kind \in DraftKind => EventFits(load.body)
        /\ publishing => ~assignment.late /\ Confirmed(load, targets)
        /\ txn' = [txn EXCEPT ![p] = [txn[p] EXCEPT
             !.pc = "commit",
             !.got = IF load.kind = "register" THEN {<<load.student, load.cohort>>}
                     ELSE IF load.kind = "link" THEN pairs
                     ELSE IF publishing THEN targets ELSE {}]]
        /\ UNCHANGED answer
  /\ UNCHANGED <<db, page, calls, changes>>

Enrol(p) ==
  /\ enrolled' = enrolled \union txn[p].got
  /\ UNCHANGED <<account, event, assignment>>

Link(p) ==
  LET load == txn[p].load IN
  linked' = [s \in Student |->
    IF linked[s] = None /\ s \in LinkStudents(load) THEN LinkOf(load, s).user ELSE linked[s]]

\* Mutant: targets are written with the draft.
Saved_Targets(body) ==
  [assignment EXCEPT !.status = "DRAFT", !.version = @ + 1, !.body = body, !.late = FALSE,
                     !.targets = Members(body.cohort)]

Saved(body) ==
  [assignment EXCEPT !.status = "DRAFT", !.version = @ + 1, !.body = body, !.late = FALSE]
Published(targets) ==
  IF assignment.status = "DRAFT"
  THEN [assignment EXCEPT !.status = "PUBLISHED", !.version = @ + 1, !.targets = targets]
  ELSE assignment
Closed == IF assignment.status = "PUBLISHED"
          THEN [assignment EXCEPT !.status = "CLOSED", !.version = @ + 1] ELSE assignment

Change(p) ==
  LET load == txn[p].load IN
  /\ assignment' = IF load.kind \in DraftKind THEN Saved(load.body)
                   ELSE IF load.kind = "publish" THEN Published(txn[p].got) ELSE Closed
  /\ UNCHANGED <<account, linked, enrolled, event>>

Commit(p) ==
  /\ txn[p].pc = "commit"
  /\ \/ txn[p].load.kind = "register" /\ Enrol(p) /\ UNCHANGED linked
     \/ txn[p].load.kind = "link" /\ Enrol(p) /\ Link(p)
     \/ txn[p].load.kind \notin {"register", "link"} /\ Change(p)
  /\ ledger' = [ledger EXCEPT ![txn[p].req] = txn[p].load]
  /\ Ended(p, "done")
  /\ UNCHANGED <<page, calls, changes>>

\* A deadlock victim, a lock or statement timeout, a lost connection.
Abort(p) ==
  /\ txn[p].pc # "idle"
  /\ Ended(p, "failed")
  /\ UNCHANGED <<db, page, calls, changes>>

-----------------------------------------------------------------------------
\* Others.

OthersAct == changes > 0 /\ changes' = changes - 1

Unlocked(what, of) ==
  \A p \in Proc : \A h \in txn[p].holds : ~Conflict(h, Lock(what, of, "X"))

\* A member administrator changes an account (its row lock conflicts with FOR
\* UPDATE and not with FOR KEY SHARE).
ChangeAccount ==
  /\ OthersAct
  /\ \E u \in User, role \in {"MEMBER", "PENDING"}, c \in Cohort \union {None} :
       /\ \A p \in Proc : Lock("user", u, "X") \notin txn[p].holds
       /\ account' = [account EXCEPT ![u] = [role |-> role, cohort |-> c]]
  /\ UNCHANGED <<linked, enrolled, event, assignment, ledger, page, txn, answer, calls>>

\* A schedule editor moves a lesson to another cohort; the trigger runs under
\* the row's lock and refuses when an assignment refers to the lesson.
MoveEvent ==
  /\ OthersAct
  /\ \E e \in Event, c \in Cohort :
       /\ Unlocked("event", e)
       /\ assignment.body.event # e
       /\ event' = [event EXCEPT ![e] = c]
  /\ UNCHANGED <<account, linked, enrolled, assignment, ledger, page, txn, answer, calls>>

DuePasses ==
  /\ assignment.status = "DRAFT"
  /\ ~assignment.late
  /\ OthersAct
  /\ assignment' = [assignment EXCEPT !.late = TRUE]
  /\ UNCHANGED <<account, linked, enrolled, event, ledger, page, txn, answer, calls>>

Next ==
  \/ \E r \in Req : Open(r)
  \/ \E p \in Proc : Begin(p) \/ Acquire(p) \/ Check(p) \/ Write(p) \/ Commit(p) \/ Abort(p)
  \/ ChangeAccount
  \/ MoveEvent
  \/ DuePasses

Spec == Init /\ [][Next]_vars

-----------------------------------------------------------------------------
\* Properties.

How == {"none", "done", "replayed", "conflict", "refused", "duplicate", "forbidden", "failed"}

\* The shape of the tables, of the transactions and of the answers
\* (scripts/migrate-academic-*.sql).
TypeOK ==
  /\ account \in [User -> [role : {"MEMBER", "PENDING"}, cohort : Cohort \union {None}]]
  /\ linked \in [Student -> User \union {None}]
  /\ enrolled \subseteq Student \X Cohort
  /\ event \in [Event -> Cohort]
  /\ assignment.status \in {"none", "DRAFT", "PUBLISHED", "CLOSED"}
  /\ assignment.version \in Nat
  /\ assignment.body \in Body
  /\ assignment.targets \subseteq Student
  /\ assignment.status \in {"none", "DRAFT"} => assignment.targets = {}
  /\ \A p \in Proc :
       /\ txn[p].pc \in {"idle", "check", "write", "commit"}
       /\ txn[p].pc = "idle" <=> txn[p].req = None
       /\ txn[p].pc = "idle" => txn[p] = Quiet
       /\ answer[p].how \in How
  /\ calls \in [Req -> Nat] /\ changes \in Nat

\* A publication's targets are everybody enrolled in its cohort when it takes
\* effect, whatever registrations and links overlap with it: nobody's
\* enrolment commits between the snapshot and the publication (LOCK TABLE ...
\* IN SHARE MODE in guard_academic_assignment).
TargetsComplete ==
  [][assignment.status = "DRAFT" /\ assignment'.status = "PUBLISHED"
     => assignment'.targets = Members(assignment.body.cohort)]_vars

\* What is published, and to whom, is what the approver's page showed when the
\* publication was confirmed (expectedUpdatedAt, expectedTargetFingerprint),
\* and it stays so.
PublishedAsReviewed ==
  assignment.status \in {"PUBLISHED", "CLOSED"} =>
    \E r \in Req :
      /\ ledger[r] # None
      /\ ledger[r].kind = "publish"
      /\ page[r].body = assignment.body
      /\ page[r].targets = assignment.targets

\* No edit of a draft is lost: what a save replaces is what its form was
\* rendered from, however many forms are open and however often they are sent.
NoEditLost ==
  [][assignment.status = "DRAFT" /\ assignment'.body # assignment.body
     => \E p \in Proc : txn[p].pc = "commit" /\ page[txn[p].req].body = assignment.body]_vars

\* When a student is linked to an account, the account still has the role and
\* the cohort the approver was shown, although administrators change accounts
\* meanwhile.
LinkedAsApproved ==
  [][\A s \in Student : linked'[s] # linked[s] =>
       \E p \in {q \in Proc : txn[q].pc = "commit" /\ s \in LinkStudents(txn[q].load)} :
         LET k == LinkOf(txn[p].load, s) IN
         /\ linked'[s] = k.user
         /\ account[k.user].role = k.role
         /\ account[k.user].cohort = k.was]_vars

\* A call of a permitted approver that repeats a request that took effect is
\* never told that it was refused, that it conflicts or that the student is already registered.
RetryAnswered ==
  [][\A p \in Proc :
       /\ answer'[p] # answer[p]
       /\ answer'[p].how \in {"conflict", "refused", "duplicate"}
       => ledger[answer'[p].req] # answer'[p].load]_vars

\* An assignment's lesson is of the assignment's cohort, however the schedule
\* is edited while a draft is being saved.
LessonOfCohort ==
  assignment.body.event # None => event[assignment.body.event] = assignment.body.cohort

\* The rows of the registry.
RowsSound == TypeOK /\ LessonOfCohort

\* Calls that wait for one another in a circle include a registration: link
\* plans, saves and publications alone never do (they lock accounts, then
\* students, in the order of their ids).
CircleNeedsRegistration ==
  \A D \in SUBSET {p \in Proc : txn[p].pc # "idle" /\ txn[p].load.kind # "register"} :
    D # {} => \E p \in D : \A q \in D : ~WaitsFor(p, q)

\* Decisions are carried out on what the person who took them was shown: the
\* publication, every save of a draft and every link.
AsReviewed == [][PublishedAsReviewed']_vars /\ NoEditLost /\ LinkedAsApproved
=============================================================================
