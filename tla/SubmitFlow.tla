------------------------------ MODULE SubmitFlow ------------------------------
(***************************************************************************)
(* The mobile app's submission of one assignment: the submit machine of    *)
(* submit-flow.ts on each screen that has one, the account's single resume *)
(* record on the device, and the server's ledger (UploadLedger), reached   *)
(* over a network on which a request the app gave up may still arrive.     *)
(*                                                                         *)
(* An action is a screen's code between two awaits, together with the      *)
(* outcome of the call it had awaited.  One student, one target: the ids   *)
(* the app generates for an attempt (request id, submission key) and the   *)
(* intent id the server answers with are the attempt's number.             *)
(***************************************************************************)
EXTENDS UploadLedger, Sequences

CONSTANTS
  Screen,      \* mounted screens, each with its runner
  MaxLate,     \* bound on the requests given up that may still take effect
  Scenario,    \* bounds: ends of the app's process and ticks of the clock in a history
  Unreadable   \* whether the device may fail to read in a flow that was aborted

Record == [id : Intent, phase : {"verifying", "finalizing"}]

ASSUME FlowAssumption ==
  /\ MaxLate \in Nat /\ Unreadable \in BOOLEAN
  /\ Target # {} /\ User # {} /\ File # {} /\ Size # {}
  /\ Intent \subseteq Request \intersect Key   \* an attempt's number stands for all its ids
  /\ None \notin Record
  /\ Scenario \subseteq [crashes : Nat, ticks : Nat]

VARIABLES
  disk,     \* the account's resume record: [id, phase] or None
  screen,   \* [Screen -> the flow it runs]
  line,     \* screens whose operation waits in the record's queue, in order
  late,     \* requests the app has given up and that may still take effect
  stored,   \* intents whose object is in the blob store
  used,     \* attempts begun
  left,     \* what of the scenario is left
  known,    \* attempts whose acceptance a flow was told
  out,      \* attempts whose cancellation a flow reported
  dropped   \* attempts whose record the user discarded

server == <<status, owner, members, enrolled, intents, ledger, submissions>>
report == <<known, out, dropped>>
flowVars == <<now, server, disk, screen, line, late, stored, used, left, report>>

The(S) == CHOOSE x \in S : TRUE
target == The(Target)
user == The(User)
file == The(File)

Pc == {"idle", "read", "create", "save", "undo", "token", "put", "verify", "refused",
       "erase", "mark", "final", "clear", "cancel", "wipe", "tidy", "reset", "forget"}

Idle == [pc |-> "idle", cmd |-> "new", rec |-> None, id |-> None, aborted |-> FALSE,
         last |-> FALSE, void |-> FALSE]

FlowInit ==
  /\ LedgerInit
  /\ disk = None
  /\ screen = [s \in Screen |-> Idle]
  /\ line = <<>>
  /\ late = {}
  /\ stored = {}
  /\ used = {}
  /\ left \in Scenario
  /\ known = {} /\ out = {} /\ dropped = {}

Spend(kind) == left[kind] > 0 /\ left' = [left EXCEPT ![kind] = @ - 1]

-----------------------------------------------------------------------------
\* The server.  An operation that is refused changes nothing.

Accepted == {x.intent : x \in submissions}

Create(i) == IssueNew(i, target, user, The(Size), i)
Retire(i) == CancelUpload(i, user)
Verify(i) == i \in stored /\ VerifyUpload(i, user, file)

\* A finalization verifies again, which leaves a verified upload as it is.
Submit(i) ==
  \/ Replay(target, user, i, i) /\ UNCHANGED <<now, server>>
  \/ i \in stored /\ Authorized(i, user) /\ Complete(target, user, i, i)

Effect(m) ==
  CASE m[1] = "create" -> Create(m[2])
    [] m[1] = "cancel" -> Retire(m[2])
    [] m[1] = "verify" -> Verify(m[2])
    [] m[1] = "final"  -> Submit(m[2])

Unchanged == UNCHANGED <<now, server>>

\* A request the app no longer waits for arrives, or is lost.
Arrive ==
  \E m \in late :
    /\ late' = late \ {m}
    /\ \/ /\ m[1] # "put" /\ Effect(m)
          /\ UNCHANGED stored
       \/ /\ m[1] = "put" /\ Unchanged
          /\ stored' = stored \union {m[2]}
       \/ Unchanged /\ UNCHANGED stored
    /\ UNCHANGED <<disk, screen, line, used, left, report>>

Clock ==
  /\ Tick /\ Spend("ticks")
  /\ UNCHANGED <<disk, screen, line, late, stored, used, report>>

-----------------------------------------------------------------------------
\* How a flow goes on.

\* Awaits of the record store, which runs its operations in order.  A clear voids
\* the writes asked for before it (serialized-resume-store.ts).
Writes == {"save", "mark"}
Clears == {"erase", "clear", "wipe", "tidy", "forget"}
OfStore == {"read"} \union Writes \union Clears

Set(s, r) ==
  /\ screen' = [x \in Screen |-> IF x = s THEN [r EXCEPT !.void = FALSE]
                  ELSE IF r.pc \in Clears /\ screen[x].pc \in Writes THEN [screen[x] EXCEPT !.void = TRUE]
                  ELSE screen[x]]
  /\ line' = (IF screen[s].pc \in OfStore THEN Tail(line) ELSE line)
                \o (IF r.pc \in OfStore THEN <<s>> ELSE <<>>)

First(s, pc) == screen[s].pc = pc /\ Head(line) = s
MoveTo(s, pc) == Set(s, [screen[s] EXCEPT !.pc = pc])

\* cancel(): the server first, if there is something to cancel.
Cancelling(r) == [r EXCEPT !.pc = IF r.rec = None THEN "wipe" ELSE "cancel"]

\* After an await: go on, unless the flow was aborted meanwhile.
GoOn(r, pc) == IF r.aborted THEN Cancelling(r) ELSE [r EXCEPT !.pc = pc]

Finalizing(r) == r.rec # None /\ r.rec.phase = "finalizing"

\* Mutant: a cancellation that failed is tried again, without end.
Thrown_Again(r) == IF r.aborted /\ ~Finalizing(r) THEN Cancelling(r) ELSE Idle

\* The catch: an aborted flow cancels, once, unless it may have been accepted.
Thrown(r) ==
  IF r.aborted /\ ~Finalizing(r) /\ ~r.last THEN Cancelling([r EXCEPT !.last = TRUE]) ELSE Idle

Throw(s) == Set(s, Thrown(screen[s]))

\* The call m is answered: it took effect.
Answered(s, pc, m) == screen[s].pc = pc /\ Effect(m)

\* Those of M that fit the bound may still arrive, the others are lost.
Lingering(M) == IF Cardinality(late \union M) <= MaxLate THEN late \union M ELSE late

\* The call m is not answered; it may still take effect.
Unanswered(s, pc, m) ==
  /\ screen[s].pc = pc
  /\ Unchanged
  /\ late' = Lingering({m})

\* The call is refused, or answered with an error.
Refused(s, pc) == screen[s].pc = pc /\ Unchanged /\ UNCHANGED late

Calls == UNCHANGED <<disk, used, left>>
Silent == UNCHANGED report

\* The device stores x, or reports a failure.
Stores(s, pc, x) ==
  /\ First(s, pc) /\ ~screen[s].void
  /\ disk' = x
  /\ Unchanged /\ UNCHANGED <<late, stored, used, left>>

Fails(s, pc, x) ==
  /\ First(s, pc)
  /\ disk' \in {disk, x} \union (IF screen[s].void THEN {None} ELSE {})
  /\ Unchanged /\ UNCHANGED <<late, stored, used, left>>

-----------------------------------------------------------------------------
\* runSubmitFlow.

\* One screen is shown; leaving a screen aborts its flow.
Shown(s) == \A x \in Screen \ {s} : screen[x].pc = "idle" \/ screen[x].aborted

Command(s) ==
  /\ screen[s].pc = "idle" /\ Shown(s)
  /\ \E cmd \in {"new", "resume", "cancel"} : Set(s, [Idle EXCEPT !.pc = "read", !.cmd = cmd])
  /\ Unchanged /\ UNCHANGED <<disk, late, stored, used, left, report>>

\* The screen is left, or the user asks to cancel.
Abort(s) ==
  /\ screen[s].pc \notin {"idle", "reset", "forget"}
  /\ ~screen[s].aborted
  /\ screen' = [screen EXCEPT ![s].aborted = TRUE]
  /\ Unchanged /\ UNCHANGED <<disk, line, late, stored, used, left, report>>

\* Mutant: a resumed flow always goes on with the finalization.
Resumed_Straight(r) == GoOn(r, "final")

\* Where a record takes its flow.
Resumed(r) ==
  IF r.rec.phase = "verifying" THEN [r EXCEPT !.pc = "verify"] ELSE GoOn(r, "final")

Read(s) ==
  LET r == [screen[s] EXCEPT !.rec = disk] IN
  /\ First(s, "read")
  /\ \/ r.cmd = "cancel" /\ Set(s, Cancelling(r)) /\ UNCHANGED used
     \/ r.cmd = "resume" /\ disk # None /\ Set(s, Resumed(r)) /\ UNCHANGED used
     \/ r.cmd = "resume" /\ disk = None /\ Set(s, Thrown(r)) /\ UNCHANGED used
     \/ r.cmd = "new" /\ r.aborted /\ Set(s, Cancelling(r)) /\ UNCHANGED used
     \/ r.cmd = "new" /\ ~r.aborted /\ disk # None /\ Set(s, Thrown(r)) /\ UNCHANGED used
     \/ /\ r.cmd = "new" /\ ~r.aborted /\ disk = None
        /\ \E i \in Intent \ used :
             /\ \A j \in Intent \ used : i <= j
             /\ used' = used \union {i}
             /\ Set(s, [r EXCEPT !.pc = "create", !.id = i])
     \/ (Unreadable \/ ~r.aborted) /\ Throw(s) /\ UNCHANGED used   \* the device, or an invalid file
  /\ Unchanged /\ UNCHANGED <<disk, late, stored, left, report>>

\* The intent: not abortable, so that an issued one can be cancelled.
RequestIntent(s) ==
  LET r == screen[s] m == <<"create", r.id>> IN
  /\ \/ /\ Answered(s, "create", m) /\ UNCHANGED late
        /\ Set(s, [r EXCEPT !.pc = "save", !.rec = [id |-> r.id, phase |-> "verifying"]])
     \/ Unanswered(s, "create", m) /\ Throw(s)
     \/ Refused(s, "create") /\ Throw(s)
  /\ Calls /\ Silent /\ UNCHANGED stored

Save(s) ==
  LET r == screen[s] IN
  /\ \/ Stores(s, "save", r.rec) /\ Set(s, GoOn(r, "token"))
     \/ Fails(s, "save", r.rec) /\ MoveTo(s, "undo")
  /\ Silent

\* A record that could not be saved: its intent is cancelled.
UndoIntent(s) ==
  LET r == screen[s] m == <<"cancel", r.id>> IN
  /\ \/ Answered(s, "undo", m) /\ UNCHANGED late /\ Set(s, Thrown([r EXCEPT !.rec = None]))
     \/ Unanswered(s, "undo", m) /\ Throw(s)
     \/ Refused(s, "undo") /\ Throw(s)
  /\ Calls /\ Silent /\ UNCHANGED stored

GetToken(s) ==
  LET r == screen[s] IN
  /\ \/ /\ Refused(s, "token")
        /\ Authorized(r.id, user) /\ intents[r.id].state = "INTENDED"
        /\ Set(s, GoOn(r, "put"))
     \/ Refused(s, "token") /\ Throw(s)
  /\ Calls /\ Silent /\ UNCHANGED stored

\* The upload's outcome is for the verification to find out.
Upload(s) ==
  LET r == screen[s] IN
  /\ r.pc = "put"
  /\ MoveTo(s, "verify")
  /\ \/ Unexpired(r.id) /\ stored' = stored \union {r.id} /\ UNCHANGED late
     \/ Unexpired(r.id) /\ late' = Lingering({<<"put", r.id>>}) /\ UNCHANGED stored
     \/ UNCHANGED <<late, stored>>
  /\ Unchanged /\ Calls /\ Silent

\* Mutant: the phase moves before the server has verified.
UploadVerified_Early(s) ==
  LET r == screen[s] IN
  /\ Refused(s, "verify")
  /\ Set(s, GoOn([r EXCEPT !.rec.phase = "finalizing"], "mark"))

UploadVerified(s) ==
  LET r == screen[s] IN
  /\ Answered(s, "verify", <<"verify", r.rec.id>>) /\ UNCHANGED late
  /\ Set(s, IF r.aborted THEN Cancelling(r) ELSE [r EXCEPT !.pc = "mark", !.rec.phase = "finalizing"])

\* A refusal is a 404 or 409 when the ledger refuses the upload, its object is
\* gone between head and get, or uploads are switched off; or it is another error.
VerifyUploaded(s) ==
  LET r == screen[s] IN
  /\ \/ UploadVerified(s)
     \/ Unanswered(s, "verify", <<"verify", r.rec.id>>) /\ Throw(s)
     \/ Refused(s, "verify") /\ MoveTo(s, "refused")
     \/ Refused(s, "verify") /\ Throw(s)
  /\ Calls /\ Silent /\ UNCHANGED stored

\* 404 or 409: the intent is cancelled and the record erased.
DropRefused(s) ==
  LET r == screen[s] m == <<"cancel", r.rec.id>> IN
  /\ \/ Answered(s, "refused", m) /\ UNCHANGED late /\ MoveTo(s, "erase")
     \/ Unanswered(s, "refused", m) /\ Throw(s)
     \/ Refused(s, "refused") /\ Throw(s)
  /\ Calls /\ Silent /\ UNCHANGED stored

EraseRefused(s) ==
  LET r == screen[s] IN
  /\ \/ Stores(s, "erase", None) /\ Set(s, Thrown([r EXCEPT !.rec = None]))
     \/ Fails(s, "erase", None) /\ Throw(s)
  /\ Silent

\* Mutant: finalization does not wait for the record.
MarkRecord_Skipped(s) ==
  /\ Stores(s, "mark", disk)
  /\ Set(s, GoOn(screen[s], "final"))
  /\ Silent

\* The record says "finalizing" before the server is asked to.
MarkRecord(s) ==
  LET r == screen[s] IN
  /\ \/ Stores(s, "mark", r.rec) /\ Set(s, GoOn(r, "final"))
     \/ Fails(s, "mark", r.rec) /\ Throw(s)
  /\ Silent

FinalizeRecord(s) ==
  LET r == screen[s] m == <<"final", r.rec.id>> IN
  /\ \/ /\ Answered(s, "final", m) /\ UNCHANGED late /\ MoveTo(s, "clear")
        /\ known' = known \union {r.rec.id}
     \/ Unanswered(s, "final", m) /\ Throw(s) /\ UNCHANGED known
     \/ Refused(s, "final") /\ Throw(s) /\ UNCHANGED known
  /\ Calls /\ UNCHANGED <<stored, out, dropped>>

\* Success: the record is erased, and once more by the screen.
ClearRecord(s) ==
  /\ \/ Stores(s, "clear", None) /\ Set(s, [Idle EXCEPT !.pc = "tidy"])
     \/ Fails(s, "clear", None) /\ Throw(s)
  /\ Silent

\* Mutant: the server's refusal of a cancellation is ignored.
CancelFails_Ignored(s) ==
  LET m == <<"cancel", screen[s].rec.id>> IN
  \/ Unanswered(s, "cancel", m) /\ MoveTo(s, "wipe")
  \/ Refused(s, "cancel") /\ MoveTo(s, "wipe")

CancelFails(s) ==
  LET m == <<"cancel", screen[s].rec.id>> IN
  \/ Unanswered(s, "cancel", m) /\ Throw(s)
  \/ Refused(s, "cancel") /\ Throw(s)

CancelIntent(s) ==
  /\ \/ Answered(s, "cancel", <<"cancel", screen[s].rec.id>>) /\ UNCHANGED late /\ MoveTo(s, "wipe")
     \/ screen[s].pc = "cancel" /\ CancelFails(s)
  /\ Calls /\ Silent /\ UNCHANGED stored

Named(r) == {r.id} \union (IF r.rec = None THEN {} ELSE {r.rec.id})

Wipe(s) ==
  LET r == screen[s] IN
  /\ \/ /\ Stores(s, "wipe", None) /\ Set(s, [Idle EXCEPT !.pc = "tidy"])
        /\ out' = out \union (Named(r) \ {None})
     \/ Fails(s, "wipe", None) /\ Throw(s) /\ UNCHANGED out
  /\ UNCHANGED <<known, dropped>>

\* The screen erases the record after a success or a cancellation (executeCommand).
Tidy(s) ==
  /\ Stores(s, "tidy", None) \/ Fails(s, "tidy", None)
  /\ Set(s, Idle)
  /\ Silent

\* The detail screen discards the record it shows: the server is asked to cancel,
\* whatever it answers, and the record is erased.
Reset(s) ==
  /\ screen[s].pc = "idle" /\ Shown(s) /\ disk # None
  /\ Set(s, [Idle EXCEPT !.pc = "reset", !.rec = disk])
  /\ Unchanged /\ UNCHANGED <<disk, late, stored, used, left, report>>

ResetCancel(s) ==
  LET m == <<"cancel", screen[s].rec.id>> IN
  /\ MoveTo(s, "forget")
  /\ \/ Answered(s, "reset", m) /\ UNCHANGED late
     \/ Unanswered(s, "reset", m)
     \/ Refused(s, "reset")
  /\ Calls /\ Silent /\ UNCHANGED stored

ResetForget(s) ==
  /\ Stores(s, "forget", None) \/ Fails(s, "forget", None)
  /\ Set(s, Idle)
  /\ dropped' = dropped \union {screen[s].rec.id}
  /\ UNCHANGED <<known, out>>

\* The process ends.  Requests under way may still arrive.
Awaited(r) ==
  CASE r.pc = "create" -> {<<"create", r.id>>}
    [] r.pc = "undo" -> {<<"cancel", r.id>>}
    [] r.pc \in {"cancel", "refused", "reset"} -> {<<"cancel", r.rec.id>>}
    [] r.pc \in {"verify", "final"} -> {<<r.pc, r.rec.id>>}
    [] OTHER -> {}

Crash ==
  /\ Spend("crashes")
  /\ screen' = [s \in Screen |-> Idle]
  /\ line' = <<>>
  /\ late' = Lingering(UNION {Awaited(screen[s]) : s \in Screen})
  /\ Unchanged /\ UNCHANGED <<disk, stored, used, report>>

-----------------------------------------------------------------------------

Run(s) ==
  \/ Read(s) \/ RequestIntent(s) \/ Save(s) \/ UndoIntent(s) \/ GetToken(s) \/ Upload(s)
  \/ VerifyUploaded(s) \/ DropRefused(s) \/ EraseRefused(s) \/ MarkRecord(s) \/ FinalizeRecord(s)
  \/ ClearRecord(s) \/ CancelIntent(s) \/ Wipe(s) \/ Tidy(s) \/ ResetCancel(s) \/ ResetForget(s)

FlowNext ==
  \/ Clock
  \/ Arrive
  \/ Crash
  \/ \E s \in Screen : Command(s) \/ Abort(s) \/ Reset(s) \/ Run(s)

FlowSpec == FlowInit /\ [][FlowNext]_flowVars

\* Every call has a timeout, so every await ends.
FairFlow == FlowSpec /\ \A s \in Screen : WF_flowVars(Run(s))

-----------------------------------------------------------------------------
\* Properties.

\* What a screen holds in memory and the device on disk (submit-flow.ts, resume-store.ts).
FlowTypeOK ==
  /\ LedgerTypeOK
  /\ disk \in Record \union {None}
  /\ stored \subseteq used
  /\ late \subseteq {"create", "cancel", "verify", "final", "put"} \X used
  /\ \A s \in Screen :
       /\ screen[s].pc \in Pc
       /\ screen[s].pc \in OfStore <=> \E i \in DOMAIN line : line[i] = s
       /\ screen[s].rec \in Record \union {None}
       /\ screen[s].id \in used \union {None}
       /\ screen[s].pc \in {"mark", "final"} => Finalizing(screen[s])

\* What the server accepted is never lost to the app: it was told, or the record
\* that repeats the finalization is on disk, through lost answers, failing
\* storage, aborts and crashes (resume-store.ts, line 3).
AcceptedIsKnown ==
  \A i \in Accepted : i \in known \union dropped \/ disk = [id |-> i, phase |-> "finalizing"]

\* A record says "finalizing" only when the server has verified the upload, so
\* that a resumed flow may skip the verification (submit-flow.ts, lines 73-86).
PhaseIsVerified ==
  disk # None /\ disk.phase = "finalizing" => intents[disk.id].state \in {"VERIFIED", "CONSUMED"}

\* An attempt reported as cancelled is never accepted, not even by a request that
\* arrives late (submit-flow.ts, lines 25-32).
CancelledStaysOut == out \intersect Accepted = {}

\* The record on the device, the flows' copies of it and what flows reported.
RecordSound == FlowTypeOK /\ PhaseIsVerified /\ CancelledStaysOut

\* A command ends with a result, whatever is lost or refused (submit-runner.ts).
EveryCommandEnds == \A s \in Screen : screen[s].pc # "idle" ~> screen[s].pc = "idle"
=============================================================================
