--------------------------- MODULE ApplicationForms ---------------------------
(***************************************************************************)
(* One application form: administrators edit its questions, open and close *)
(* it and decide on applications, applicants apply, and an application may *)
(* be deleted on request (src/features/applications/actions).              *)
(*                                                                         *)
(* An applicant's request reads the form, validates against what it read,  *)
(* reserves its rate limits (RateLimit, whose calls the applicants are),   *)
(* sends one batch to the database and, when the batch's answer does not   *)
(* come, looks whether it was committed.  A batch is a transaction of its  *)
(* own: it may still run, and commit, after the request gave it up.        *)
(* Everything an administrator does is a single statement.                 *)
(***************************************************************************)
EXTENDS RateLimit, SequencesExt

CONSTANTS
  Admin,        \* administrators
  Email,        \* addresses of applicants
  AxesOf,       \* [Email -> the axes an application with the address reserves]
  Meaning,      \* what a question asks: its title, description, type and options
  Scenario,     \* bounds: how much is left to do, by kind; whether anything fails or is released
  MaxQuestions  \* bound on the questions of a form

ASSUME FormAssumption ==
  /\ AxesOf \in [Email -> Asked]
  /\ \A e \in Email : AxesOf[e] \notin Forgivable
  /\ Meaning # {}
  /\ None \notin Meaning \union Nat
  /\ Scenario \subseteq [applications : Nat, logins : Nat, saves : Nat, openings : Nat,
                         switches : Nat, decisions : Nat, ticks : Nat, disturbed : BOOLEAN]

VARIABLES
  form,     \* application_forms and its questions: [there, open, rev, list]
  lastId,   \* question ids given so far
  subs,     \* application_submissions with their answers: [id, email, answers, status]
  attached, \* reservations whose events name their submission
  batch,    \* batches the database runs: [id, email, rev, answers, pc]
  app,      \* [Call -> the applicant's request]
  page,     \* [Admin -> the question editor on the administrator's screen]
  desk,     \* [Admin -> the decision or deletion under way]
  outcome,  \* history: what applicants were told, [id, how]
  stored,   \* history: applications that were committed
  erased,   \* history: applications whose deletion was confirmed
  audit,    \* the decisions logged: [id, old, new]
  taken,    \* history: the decisions made, [id, old, new]
  left      \* what of the scenario is left

results == <<outcome, stored>>
review == <<desk, erased, audit, taken>>
allVars == <<vars, form, lastId, subs, attached, batch, app, page, review, results, left>>

NoApp == [pc |-> "idle", email |-> None, rev |-> 0, answers |-> <<>>]
NoTask == [pc |-> "idle", id |-> None, old |-> None, new |-> None]
FirstQuestions == << [id |-> 1, says |-> CHOOSE m \in Meaning : TRUE, needs |-> TRUE] >>

Opened(rev, list) == [pc |-> "shown", rev |-> rev, list |-> list, base |-> list]

\* A form with one question is published and open in every editor, nobody has
\* applied yet.
FormInit ==
  /\ form = [there |-> TRUE, open |-> TRUE, rev |-> 1, list |-> FirstQuestions]
  /\ lastId = 1
  /\ subs = {} /\ attached = {} /\ batch = {}
  /\ app = [p \in Call |-> NoApp]
  /\ page = [a \in Admin |-> Opened(1, FirstQuestions)]
  /\ desk = [a \in Admin |-> NoTask]
  /\ outcome = {} /\ stored = {} /\ erased = {} /\ audit = {} /\ taken = {}
  /\ left \in Scenario

Spend(kind) == left[kind] > 0 /\ left' = [left EXCEPT ![kind] = @ - 1]

\* Calls of the limits may fail, and reservations be released, in this scenario.
Disturbed == left.disturbed

Questions == ToSet(form.list)
Ids(list) == {q.id : q \in ToSet(list)} \ {None}
Asks(list, id) == CHOOSE q \in ToSet(list) : q.id = id

\* Rows of the form are locked FOR SHARE from the assertion to the commit;
\* whoever updates or deletes the form's row waits for them.
\* Mutant: the assertion does not lock.
Unshared_Unlocked == TRUE

Unshared == \A b \in batch : b.pc = "begun"

-----------------------------------------------------------------------------
\* The applicant's request: submitApplicationForm.

\* One query returns the form with its questions.  A closed form or an answer
\* that does not validate ends the request here, without a trace.
Answered(list, S) ==
  [i \in {q.id : q \in S} |-> Asks(list, i).says]

\* Mutant: required questions are not enforced.
Valid_Any(S) == TRUE

Valid(S) == \A q \in Questions : q.needs => q \in S

Apply(p) ==
  /\ app[p].pc = "idle"
  /\ form.there /\ form.open
  /\ \E e \in Email, S \in SUBSET Questions :
       /\ Valid(S)
       /\ Start(p)
       /\ call'[p].axes = AxesOf[e]
       /\ app' = [app EXCEPT ![p] = [pc |-> "reserve", email |-> e, rev |-> form.rev,
                                     answers |-> Answered(form.list, S)]]
  /\ Spend("applications")
  /\ UNCHANGED <<form, lastId, subs, attached, batch, page, review, results>>

\* The reservation's id serves as the submission's, which is fresh as well.
This(p) == <<p, made[p]>>

Granted(p) ==
  /\ app[p].pc = "reserve"
  /\ Allow(p)
  /\ app' = [app EXCEPT ![p].pc = "batch"]
  /\ batch' = batch \union
       {[id |-> This(p), email |-> app[p].email, rev |-> app[p].rev,
         answers |-> app[p].answers, pc |-> "begun"]}
  /\ UNCHANGED <<form, lastId, subs, attached, page, review, results, left>>

Blocked(p) ==
  /\ app[p].pc = "reserve"
  /\ Refuse(p) \/ (Disturbed /\ Break(p))
  /\ app' = [app EXCEPT ![p] = NoApp]
  /\ UNCHANGED <<form, lastId, subs, attached, batch, page, review, results, left>>

\* The connection to the database breaks before the batch's answer.
Lose(p) ==
  /\ app[p].pc = "batch"
  /\ app' = [app EXCEPT ![p].pc = "verify"]
  /\ UNCHANGED <<vars, form, lastId, subs, attached, batch, page, review, results, left>>

\* Mutant: an unknown outcome is taken for success.
Seen_Optimistic(p) == TRUE

Seen(p) == \E s \in subs : s.id = This(p)

Told(id, how) == outcome' = outcome \union {[id |-> id, how |-> how]}

\* The request asks for its own submission id; this query may fail, too.
Verify(p) ==
  /\ app[p].pc = "verify"
  /\ app' = [app EXCEPT ![p] = NoApp]
  /\ \/ Seen(p) /\ Told(This(p), "ok")
     \/ Told(This(p), "error")
  /\ UNCHANGED <<vars, form, lastId, subs, attached, batch, page, review, stored, left>>

-----------------------------------------------------------------------------
\* The batch: assertion, submission, answers and reservation in one transaction.

\* The transaction ends; its answer reaches the request if that still waits.
Ends(b, how) ==
  LET p == b.id[1] IN
  /\ batch' = batch \ {b}
  /\ IF app[p].pc = "batch" /\ This(p) = b.id
       THEN /\ app' = [app EXCEPT ![p] = IF how = "failed" THEN [@ EXCEPT !.pc = "verify"] ELSE NoApp]
            /\ IF how = "failed" THEN UNCHANGED outcome ELSE Told(b.id, how)
       ELSE UNCHANGED <<app, outcome>>

Moves(b, pc) ==
  /\ batch' = (batch \ {b}) \union {[b EXCEPT !.pc = pc]}
  /\ UNCHANGED <<app, outcome>>

\* Mutant: the assertion does not compare the revision.
Current_AnyRevision(b) == form.there /\ form.open

\* Mutant: a form that was closed meanwhile is not noticed.
Current_Closed(b) == form.there /\ form.rev = b.rev

Current(b) == form.there /\ form.open /\ form.rev = b.rev

AssertRevision(b) ==
  /\ b.pc = "begun"
  /\ IF Current(b) THEN Moves(b, "asserted") ELSE Ends(b, "changed")
  /\ UNCHANGED <<vars, form, lastId, subs, attached, page, review, stored, left>>

\* UNIQUE (form_id, applicant_email): an insertion waits for another one that
\* has not ended, and fails when the address is there.
Insert(b) ==
  /\ b.pc = "asserted"
  /\ \A c \in batch : c.email = b.email => c.pc # "inserted"
  /\ IF \E s \in subs : s.email = b.email THEN Ends(b, "duplicate") ELSE Moves(b, "inserted")
  /\ UNCHANGED <<vars, form, lastId, subs, attached, page, review, stored, left>>

\* Mutant: the reservation is not attached.
Attached_Nothing(b) == attached

Attached(b) == attached \union {b.id}

\* The answers refer to questions that exist, or the commit fails.
Store(b) ==
  /\ b.pc = "inserted"
  /\ DOMAIN b.answers \subseteq Ids(form.list)
  /\ subs' = subs \union {[id |-> b.id, email |-> b.email, answers |-> b.answers, status |-> "PENDING"]}
  /\ attached' = Attached(b)
  /\ stored' = stored \union {b.id}
  /\ Ends(b, "ok")
  /\ UNCHANGED <<vars, form, lastId, page, review, left>>

Fail(b) ==
  /\ Ends(b, "failed")
  /\ UNCHANGED <<vars, form, lastId, subs, attached, page, review, stored, left>>

-----------------------------------------------------------------------------
\* The question editor.

\* The page, opened or loaded again, reads the form and then its questions.
OpenPage(a) ==
  /\ page[a].pc = "shown"
  /\ form.there
  /\ Spend("openings")
  /\ page' = [page EXCEPT ![a] = [pc |-> "loading", rev |-> form.rev, list |-> <<>>, base |-> <<>>]]
  /\ UNCHANGED <<vars, form, lastId, subs, attached, batch, app, review, results>>

LoadPage(a) ==
  /\ page[a].pc = "loading"
  /\ page' = [page EXCEPT ![a] = Opened(@.rev, form.list)]
  /\ UNCHANGED <<vars, form, lastId, subs, attached, batch, app, review, results, left>>

Swapped(list, i) == [list EXCEPT ![i] = list[i + 1], ![i + 1] = list[i]]

\* What one removal or exchange of neighbours makes of a list, and what one
\* change of the editor does.
Moved(list) ==
  {list}
  \union {RemoveAt(list, i) : i \in DOMAIN list}
  \union {Swapped(list, i) : i \in 1..(Len(list) - 1)}

Reworded(list) == {[list EXCEPT ![i].says = m] : i \in DOMAIN list, m \in Meaning}
Required(list) == {[list EXCEPT ![i].needs = ~@] : i \in DOMAIN list}
Extended(list) ==
  {Append(list, [id |-> None, says |-> m, needs |-> FALSE]) :
     m \in IF Len(list) < MaxQuestions THEN Meaning ELSE {}}

Edits(list) == Moved(list) \union Reworded(list) \union Required(list) \union Extended(list)

\* No two questions of a request have the same id (saveQuestionsSchema).
DistinctIds(list) ==
  \A i, j \in DOMAIN list : list[i].id = list[j].id /\ list[i].id # None => i = j

Save(a) ==
  /\ page[a].pc = "shown"
  /\ Spend("saves")
  /\ \E list \in Edits(page[a].list) :
       /\ list # <<>>
       /\ DistinctIds(list)
       /\ page' = [page EXCEPT ![a].pc = "saving", ![a].list = list]
  /\ UNCHANGED <<vars, form, lastId, subs, attached, batch, app, review, results>>

AnsweredIds == UNION {DOMAIN s.answers : s \in subs}

\* Mutant: an answered question may be reworded.
Preserved_Ids(list) == AnsweredIds \subseteq Ids(list)

\* An answered question stays, with its meaning; its place and whether it is
\* required may change.
Preserved(list) ==
  \A i \in AnsweredIds \intersect Ids(form.list) :
    i \in Ids(list) /\ Asks(list, i).says = Asks(form.list, i).says

\* Mutant: the revision is not compared.
Fresh_Always(a) == TRUE

Fresh(a) == page[a].rev = form.rev

Accepts(a) ==
  form.there /\ Fresh(a) /\ Ids(page[a].list) \subseteq Ids(form.list) /\ Preserved(page[a].list)

\* New questions get fresh ids.
Numbered(list) ==
  [i \in DOMAIN list |->
    IF list[i].id # None THEN list[i]
    ELSE [list[i] EXCEPT !.id = lastId + Cardinality({j \in 1..i : list[j].id = None})]]

\* The screen keeps taking changes while it saves, and gives the list it then
\* has the ids of the saved one, place by place.
Merged(list, saved) ==
  [i \in DOMAIN list |-> IF i \in DOMAIN saved THEN [list[i] EXCEPT !.id = saved[i].id] ELSE list[i]]

\* save_application_form_questions, and its answer, which may be lost: then
\* the editor shows an error and keeps its list, ids and revision.
SaveRuns(a) ==
  LET saved == Numbered(page[a].list)
      fail == [page EXCEPT ![a].pc = "shown"]
  IN
  /\ page[a].pc = "saving"
  /\ Unshared
  /\ IF Accepts(a)
       THEN /\ form' = [form EXCEPT !.list = saved, !.rev = @ + 1]
            /\ lastId' = lastId + Cardinality({i \in DOMAIN saved : page[a].list[i].id = None})
            /\ \/ page' = fail
               \/ \E list \in Moved(page[a].list) :
                    page' = [page EXCEPT ![a] = [Opened(form.rev + 1, saved) EXCEPT !.list = Merged(list, saved)]]
       ELSE page' = fail /\ UNCHANGED <<form, lastId>>
  /\ UNCHANGED <<vars, subs, attached, batch, app, review, results, left>>

\* updateForm and toggleFormPublishStatus: the last writer wins.
Publish ==
  /\ form.there /\ Unshared
  /\ Spend("switches")
  /\ \E open \in BOOLEAN : form' = [form EXCEPT !.open = open]
  /\ UNCHANGED <<vars, lastId, subs, attached, batch, app, page, review, results>>

\* Mutant: the foreign key of the submissions cascades.
Deletable_Cascade == TRUE

Deletable == subs = {}

DeleteForm ==
  /\ form.there /\ Unshared
  /\ Deletable
  /\ Spend("switches")
  /\ form' = [form EXCEPT !.there = FALSE, !.list = <<>>]
  /\ subs' = {}
  /\ UNCHANGED <<vars, lastId, attached, batch, app, page, review, results>>

-----------------------------------------------------------------------------
\* Decisions on applications.

Status == {"PENDING", "ACCEPTED", "REJECTED"}

\* An administrator acts on an application the screen shows.  The statement's
\* snapshot sees the row as it is now.
Begin(a) ==
  /\ desk[a].pc = "idle"
  /\ Spend("decisions")
  /\ \E s \in subs, new \in Status, pc \in {"decide", "erase"} :
       desk' = [desk EXCEPT ![a] = [pc |-> pc, id |-> s.id, old |-> s.status, new |-> new]]
  /\ UNCHANGED <<vars, form, lastId, subs, attached, batch, app, page, erased, audit, taken, results>>

\* Mutant: the old status is the snapshot's.
OldStatus_Snapshot(a, s) == desk[a].old

\* FOR UPDATE follows the row to its newest version.
OldStatus(a, s) == s.status

\* updateSubmissionStatus: the row is locked, changed and the change logged;
\* the log is lost with the statement's answer.
Decide(a) ==
  /\ desk[a].pc = "decide"
  /\ desk' = [desk EXCEPT ![a] = NoTask]
  /\ \/ \E s \in subs :
          /\ s.id = desk[a].id
          /\ subs' = (subs \ {s}) \union {[s EXCEPT !.status = desk[a].new]}
          /\ taken' = taken \union {<<s.id, s.status, desk[a].new>>}
          /\ audit' \in {audit, audit \union {<<s.id, OldStatus(a, s), desk[a].new>>}}
     \/ /\ \A s \in subs : s.id # desk[a].id
        /\ UNCHANGED <<subs, audit, taken>>
  /\ UNCHANGED <<vars, form, lastId, attached, batch, app, page, erased, results, left>>

\* deleteApplicationSubmission: the row goes, and with it its answers and the
\* reservation attached to it.
Erase(a) ==
  /\ desk[a].pc = "erase"
  /\ desk' = [desk EXCEPT ![a] = NoTask]
  /\ \/ \E s \in subs :
          /\ s.id = desk[a].id
          /\ subs' = subs \ {s}
          /\ erased' = erased \union {s.id}
          /\ attached' = attached \ {s.id}
          /\ IF s.id \in attached THEN Released(s.id) ELSE UNCHANGED <<events, standing>>
     \/ /\ \A s \in subs : s.id # desk[a].id
        /\ UNCHANGED <<subs, erased, attached, events, standing>>
  /\ UNCHANGED <<now, locks, call, told, made, form, lastId, batch, app, page, audit, taken, results, left>>

-----------------------------------------------------------------------------
\* Other requests that reserve, the clock and the jobs of RateLimit.

formVars == <<form, lastId, subs, attached, batch, app, page, review, results>>

OtherRequest(p) ==
  /\ app[p].pc = "idle"
  /\ \/ Start(p) /\ Spend("logins")
     \/ (Refuse(p) \/ Allow(p) \/ (Disturbed /\ Break(p))) /\ UNCHANGED left
  /\ UNCHANGED formVars

Reserving(p) == (Lock(p) \/ ReadClock(p) \/ Count(p)) /\ UNCHANGED <<formVars, left>>

Around ==
  /\ \/ Disturbed /\ Forgive /\ UNCHANGED left
     \/ Cleanup /\ UNCHANGED left
     \/ Tick /\ Spend("ticks")
  /\ UNCHANGED formVars

AppInit == Init /\ FormInit

AppNext ==
  \/ \E p \in Call : \/ Apply(p) \/ Granted(p) \/ Blocked(p) \/ Lose(p) \/ Verify(p)
                     \/ OtherRequest(p) \/ Reserving(p)
  \/ \E b \in batch : AssertRevision(b) \/ Insert(b) \/ Store(b) \/ Fail(b)
  \/ \E a \in Admin : \/ OpenPage(a) \/ LoadPage(a) \/ Save(a) \/ SaveRuns(a)
                      \/ Begin(a) \/ Decide(a) \/ Erase(a)
  \/ Publish \/ DeleteForm
  \/ Around

AppSpec == AppInit /\ [][AppNext]_allVars

\* Statements that are not blocked run, and so does a request that has its answer.
Serve(p) ==
  \/ Reserving(p) \/ Granted(p) \/ Verify(p)
  \/ Refuse(p) /\ Blocked(p)
  \/ (Refuse(p) \/ Allow(p)) /\ OtherRequest(p)

Run(id) == \E b \in batch : b.id = id /\ (AssertRevision(b) \/ Insert(b) \/ Store(b))

AppFairness ==
  \A p \in Call : WF_allVars(Serve(p)) /\ \A n \in 1..MaxCalls : WF_allVars(Run(<<p, n>>))

FairAppSpec == AppSpec /\ AppFairness

-----------------------------------------------------------------------------
\* Properties.

Answers == UNION {[I -> Meaning] : I \in SUBSET (1..lastId)}
Question == [id : 1..lastId, says : Meaning, needs : BOOLEAN]

\* The shape of the tables, the batches and the screens
\* (src/lib/db/schema.ts, features/applications/actions).
FormTypeOK ==
  /\ form \in [there : BOOLEAN, open : BOOLEAN, rev : Nat, list : Seq(Question)]
  /\ DistinctIds(form.list)
  /\ \A s \in subs : s.id \in Id /\ s.email \in Email /\ s.answers \in Answers /\ s.status \in Status
  /\ \A b \in batch : b.id \in Id /\ b.answers \in Answers /\ b.pc \in {"begun", "asserted", "inserted"}
  /\ \A p \in Call : app[p].pc \in {"idle", "reserve", "batch", "verify"}
  /\ \A a \in Admin :
       /\ page[a].pc \in {"loading", "shown", "saving"}
       /\ desk[a].pc \in {"idle", "decide", "erase"}
  /\ attached \subseteq stored

\* However editing, applying and answers that get lost overlap, every stored
\* answer belongs to a question of the form that still asks what the answer
\* was validated against (docs/application-form-concurrency.md, "Questions
\* that have answers").
MeaningKept ==
  \A s \in subs : \A i \in DOMAIN s.answers :
    i \in Ids(form.list) /\ Asks(form.list, i).says = s.answers[i]

\* An address has applied at most once, however often a request whose answer
\* was lost is sent again and however late a given-up batch commits.
OncePerEmail == \A s, t \in subs : s.email = t.email => s = t

\* What the applicant is told is true: "submitted" means the application was
\* committed, "changed, reload" and "already submitted" that it never will be.
ToldTruly ==
  \A o \in outcome :
    /\ o.how = "ok" => o.id \in stored
    /\ o.how \in {"changed", "duplicate"} => o.id \notin stored

\* A deleted application leaves nothing that leads to the applicant, not even
\* the reservations of its rate limits.
ErasedWholly ==
  \A id \in erased :
    /\ \A s \in subs : s.id # id
    /\ \A e \in events : e.id # id

\* An application that was committed is there until it is deleted on request.
StoredKept == stored = erased \union {s.id : s \in subs}

\* The log of decisions names transitions that were made, however decisions
\* overlap (the comment above updateSubmissionStatus).
AuditTrue == audit \subseteq taken

\* However answers are lost, batches commit late and decisions overlap with
\* deletions: the form's tables agree with each other, with the log and with
\* what applicants and administrators were told.
FormSound ==
  /\ FormTypeOK
  /\ MeaningKept
  /\ OncePerEmail
  /\ ToldTruly
  /\ StoredKept
  /\ ErasedWholly
  /\ AuditTrue

\* An application is accepted only while the form is published and complete
\* for the questions of that moment, whatever changed since it was read.
AcceptedAsOpen ==
  [][\A s \in subs' : s.id \notin stored =>
       /\ form.open
       /\ \A q \in Questions : q.needs => q.id \in DOMAIN s.answers]_allVars

\* A save is accepted only on top of the questions its editor had been shown,
\* so no administrator's change is overwritten unseen.
EditsBuild ==
  [][form'.there /\ form'.list # form.list =>
       \E a \in Admin : page[a].pc = "saving" /\ page'[a].pc = "shown" /\ page[a].base = form.list]_allVars

\* Applications and saves take effect on the form their sender was judged by.
AsShown == AcceptedAsOpen /\ EditsBuild

\* Whatever is asked of the limits or of the form is answered in the end.
EveryRequestAnswered ==
  /\ EveryCallAnswered
  /\ \A p \in Call : app[p].pc # "idle" ~> app[p].pc = "idle"
=============================================================================
