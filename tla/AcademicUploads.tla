-------------------------- MODULE AcademicUploads --------------------------
(***************************************************************************)
(* The running upload and submission feature: the ledger in PostgreSQL,    *)
(* the private blob store the browser writes to directly, the server's     *)
(* request handlers, which hold nothing but their local variables between  *)
(* two awaited calls, and the cron workers that delete orphaned objects.   *)
(***************************************************************************)
EXTENDS UploadLedger, Sequences

CONSTANTS
  Handler,   \* server invocations that may be in flight together
  Worker,    \* cleanup invocations that may be in flight together
  Batch      \* candidates one cleanup run takes (LIMIT)

ASSUME BatchAssumption == Batch \in Nat \ {0}

VARIABLES
  blob,     \* the object stored at an intent's path, or None
  tokens,   \* intents whose client upload token has been handed out
  puts,     \* uploads started with a valid token and not yet settled
  job,      \* local state of each request handler
  sweep,    \* local state of each cleanup worker
  swept     \* intents with a deleted_at, the oldest deleted_at first

requestVars == <<blob, tokens, puts>>
vars == <<now, roster, tables, requestVars, job, sweep, swept>>

\* Where a handler stands: the next awaited call it will make.
JobPc == {"idle", "replay", "authorize", "head", "get", "persist", "recheck", "complete"}

Job == [pc : JobPc, kind : {"verify", "finalize"}, target : Target \cup {None},
        user : User \cup {None}, intent : Intent \cup {None}, key : Key \cup {None},
        etag : File \cup {None}]

NoJob == [pc |-> "idle", kind |-> "verify", target |-> None, user |-> None,
          intent |-> None, key |-> None, etag |-> None]

Sweep == [pc : {"idle", "claim", "head", "del", "mark"}, batch : SUBSET Intent,
          cur : Intent \cup {None}, etag : File \cup {None}]

NoSweep == [pc |-> "idle", batch |-> {}, cur |-> None, etag |-> None]

TypeOK ==
  /\ LedgerTypeOK
  /\ blob \in [Intent -> File \cup {None}]
  /\ tokens \subseteq Intent
  /\ puts \subseteq Intent \X File
  /\ job \in [Handler -> Job]
  /\ sweep \in [Worker -> Sweep]
  /\ swept \in Seq(Intent)

Init ==
  /\ LedgerInit
  /\ blob = [i \in Intent |-> None]
  /\ tokens = {}
  /\ puts = {}
  /\ job = [h \in Handler |-> NoJob]
  /\ sweep = [w \in Worker |-> NoSweep]
  /\ swept = << >>

-----------------------------------------------------------------------------
(* The browser and the blob store *)

\* POST .../intents.  Only the first of several equal requests writes.
CreateIntent(r, t, u, d, i) ==
  /\ IssueNew(r, t, u, d, i)
  /\ UNCHANGED <<requestVars, job, sweep, swept>>

\* The token request: authorizeAssignmentUploadToken refuses any state but INTENDED.
GrantToken(i, u) ==
  /\ Authorized(i, u)
  /\ intents[i].state = "INTENDED"
  /\ tokens' = tokens \cup {i}
  /\ UNCHANGED <<now, roster, tables, blob, puts, job, sweep, swept>>

\* A PUT starts while the token is valid (validUntil = expires_at).  Cancelling or
\* claiming the intent does not take the token back.
StartPut(i, f) ==
  /\ i \in tokens
  /\ Unexpired(i)
  /\ puts' = puts \cup {<<i, f>>}
  /\ UNCHANGED <<now, roster, tables, blob, tokens, job, sweep, swept>>

\* allowOverwrite = false keeps what is there.
Stored_Overwritten(i, f) == f
Stored(i, f) == IF blob[i] = None THEN f ELSE blob[i]

\* The PUT completes, however late.
LandPut(i, f) ==
  /\ <<i, f>> \in puts
  /\ puts' = puts \ {<<i, f>>}
  /\ blob' = [blob EXCEPT ![i] = Stored(i, f)]
  /\ UNCHANGED <<now, roster, tables, tokens, job, sweep, swept>>

\* The PUT is aborted or lost on the way.
LosePut(i, f) ==
  /\ <<i, f>> \in puts
  /\ puts' = puts \ {<<i, f>>}
  /\ UNCHANGED <<now, roster, tables, blob, tokens, job, sweep, swept>>

\* The store's signed callback, possibly delivered more than once.
Receipt(i) ==
  /\ blob[i] # None
  /\ ReceiveUpload(i)
  /\ UNCHANGED <<requestVars, job, sweep, swept>>

\* DELETE .../intents/{id}
Cancel(i, u) ==
  /\ CancelUpload(i, u)
  /\ UNCHANGED <<requestVars, job, sweep, swept>>

-----------------------------------------------------------------------------
(* verifyAssignmentUploadIntent and finalizeAssignmentSubmission *)

Goto(h, pc) == job' = [job EXCEPT ![h].pc = pc]
Finish(h) == job' = [job EXCEPT ![h] = NoJob]
LocalStep == UNCHANGED <<now, roster, tables, requestVars, sweep, swept>>

\* requireAssignmentTarget found the caller's own target.
StartVerify(h, t, u, i) ==
  /\ job[h].pc = "idle"
  /\ OwnerOK(t, u)
  /\ Issued(i)
  /\ job' = [job EXCEPT ![h] = [NoJob EXCEPT !.pc = "authorize", !.kind = "verify",
                                  !.target = t, !.user = u, !.intent = i]]
  /\ LocalStep

StartFinalize(h, t, u, i, k) ==
  /\ job[h].pc = "idle"
  /\ OwnerOK(t, u)
  /\ Issued(i)
  /\ job' = [job EXCEPT ![h] = [NoJob EXCEPT !.pc = "replay", !.kind = "finalize",
                                  !.target = t, !.user = u, !.intent = i, !.key = k]]
  /\ LocalStep

\* completeSubmission(..., false): an earlier success is answered at once, a
\* request nobody has answered goes on to the verification.
TryReplay(h) ==
  LET j == job[h] IN
  /\ j.pc = "replay"
  /\ \/ Replay(j.target, j.user, j.intent, j.key) /\ Finish(h)
     \/ Vacant(j.target, j.user, j.key) /\ Goto(h, "authorize")
  /\ LocalStep

\* assertOpen, authorizeUploadRecord and the record's target.
Authorize(h) ==
  LET j == job[h] IN
  /\ j.pc = "authorize"
  /\ Authorized(j.intent, j.user)
  /\ intents[j.intent].target = j.target
  /\ Goto(h, "head")
  /\ LocalStep

\* head(): the object exists with the declared size and type.
HeadBlob(h) ==
  LET j == job[h] IN
  /\ j.pc = "head"
  /\ blob[j.intent] # None
  /\ job' = [job EXCEPT ![h] = [@ EXCEPT !.pc = "get", !.etag = blob[j.intent]]]
  /\ LocalStep

\* get() and the hash of its stream: same etag as head(), right length, a PDF.
GetBlob(h) ==
  LET j == job[h] IN
  /\ j.pc = "get"
  /\ blob[j.intent] = j.etag
  /\ SizeOf[j.etag] = ledger[j.intent].declared
  /\ Goto(h, "persist")
  /\ LocalStep

\* persistUploadVerification: rights and time are read again by the database.
Persist(h) ==
  LET j == job[h] IN
  /\ j.pc = "persist"
  /\ VerifyUpload(j.intent, j.user, j.etag)
  /\ IF j.kind = "verify" THEN Finish(h) ELSE Goto(h, "recheck")
  /\ UNCHANGED <<requestVars, sweep, swept>>

\* requireAssignmentTarget again: nothing read before the long download is reused.
Recheck(h) ==
  LET j == job[h] IN
  /\ j.pc = "recheck"
  /\ OwnerOK(j.target, j.user)
  /\ Goto(h, "complete")
  /\ LocalStep

\* completeSubmission(..., true)
Finalize(h) ==
  LET j == job[h] IN
  /\ j.pc = "complete"
  /\ \/ Complete(j.target, j.user, j.intent, j.key)
     \/ Replay(j.target, j.user, j.intent, j.key) /\ UNCHANGED <<now, roster, tables>>
  /\ Finish(h)
  /\ UNCHANGED <<requestVars, sweep, swept>>

\* A refusal at any step above, a storage error, a spent budget, a timeout, or the
\* end of the process: the handler leaves nothing behind and deletes nothing.
Abandon(h) ==
  /\ job[h].pc # "idle"
  /\ Finish(h)
  /\ LocalStep

-----------------------------------------------------------------------------
(* cleanupAcademicUploads with deletion enabled *)

IsSwept(i) == \E n \in DOMAIN swept : swept[n] = i
SweptAt(i) == CHOOSE n \in DOMAIN swept : swept[n] = i

\* ORDER BY coalesce(deleted_at, epoch), expires_at
Before_ByExpiryOnly(i, j) == intents[i].expires < intents[j].expires

Before(i, j) ==
  IF IsSwept(i) THEN IsSwept(j) /\ SweptAt(i) < SweptAt(j)
  ELSE IsSwept(j) \/ intents[i].expires < intents[j].expires

Candidates == {i \in Intent : Claimable(i)}

\* i becomes the most recently deleted.
MarkDeleted(i) ==
  LET n == SweptAt(i)
      others == IF IsSwept(i) THEN SubSeq(swept, 1, n - 1) \o SubSeq(swept, n + 1, Len(swept))
                ELSE swept
  IN  Append(others, i)

CleanStep == UNCHANGED <<now, roster, requestVars, job>>

\* Take the first Batch candidates of the query.
Select(w) ==
  /\ sweep[w].pc = "idle"
  /\ \E b \in SUBSET Candidates :
       /\ b # {}
       /\ Cardinality(b) = Batch \/ (b = Candidates /\ Cardinality(b) < Batch)
       /\ \A i \in b, j \in Candidates \ b : ~Before(j, i)
       /\ sweep' = [sweep EXCEPT ![w] = [NoSweep EXCEPT !.pc = "claim", !.batch = b]]
  /\ UNCHANGED <<tables, swept>> /\ CleanStep

\* The next row of the batch: claim it, or skip it when the claim is refused.
Claim(w, i) ==
  /\ sweep[w].pc = "claim"
  /\ i \in sweep[w].batch
  /\ \/ /\ ClaimCleanup(i)
        /\ sweep' = [sweep EXCEPT ![w] = [pc |-> "head", batch |-> sweep[w].batch \ {i},
                                           cur |-> i, etag |-> None]]
     \/ /\ ~Claimable(i)
        /\ sweep' = [sweep EXCEPT ![w].batch = @ \ {i}]
        /\ UNCHANGED tables
  /\ UNCHANGED swept /\ CleanStep

\* head(): remember the etag, or learn that there is nothing to delete.
Inspect(w) ==
  LET i == sweep[w].cur IN
  /\ sweep[w].pc = "head"
  /\ sweep' = [sweep EXCEPT ![w] = [@ EXCEPT !.pc = IF blob[i] = None THEN "mark" ELSE "del",
                                             !.etag = blob[i]]]
  /\ UNCHANGED <<tables, swept>> /\ CleanStep

\* del(ifMatch): deletes exactly the object that was inspected.
Delete(w) ==
  LET i == sweep[w].cur IN
  /\ sweep[w].pc = "del"
  /\ blob[i] \in {sweep[w].etag, None}
  /\ blob' = [blob EXCEPT ![i] = None]
  /\ sweep' = [sweep EXCEPT ![w].pc = "mark"]
  /\ UNCHANGED <<now, roster, tables, tokens, puts, job, swept>>

\* UPDATE ... SET deleted_at, then on to the next row.
Mark(w) ==
  /\ sweep[w].pc = "mark"
  /\ swept' = MarkDeleted(sweep[w].cur)
  /\ sweep' = [sweep EXCEPT ![w] = [@ EXCEPT !.pc = "claim", !.cur = None, !.etag = None]]
  /\ UNCHANGED tables /\ CleanStep

\* head() or del() fails, del() failing before or after it took effect: the row
\* counts as failed and the loop goes on.
SkipRow(w) ==
  LET i == sweep[w].cur IN
  /\ sweep[w].pc \in {"head", "del"}
  /\ sweep' = [sweep EXCEPT ![w] = [@ EXCEPT !.pc = "claim", !.cur = None, !.etag = None]]
  /\ \/ blob' = blob
     \/ /\ sweep[w].pc = "del"
        /\ blob[i] = sweep[w].etag
        /\ blob' = [blob EXCEPT ![i] = None]
  /\ UNCHANGED <<now, roster, tables, tokens, puts, job, swept>>

\* The batch is done, or the invocation is killed at any point.
EndSweep(w) ==
  /\ sweep[w].pc # "idle"
  /\ sweep' = [sweep EXCEPT ![w] = NoSweep]
  /\ UNCHANGED <<tables, swept>> /\ CleanStep

-----------------------------------------------------------------------------

Browser ==
  \/ \E r \in Request, t \in Target, u \in User, d \in Size, i \in Intent :
       CreateIntent(r, t, u, d, i)
  \/ \E i \in Intent, u \in User : GrantToken(i, u) \/ Cancel(i, u)
  \/ \E i \in Intent, f \in File : StartPut(i, f) \/ LandPut(i, f) \/ LosePut(i, f)
  \/ \E i \in Intent : Receipt(i)

Server ==
  \E h \in Handler :
    \/ \E t \in Target, u \in User, i \in Intent :
         \/ StartVerify(h, t, u, i)
         \/ \E k \in Key : StartFinalize(h, t, u, i, k)
    \/ TryReplay(h) \/ Authorize(h) \/ HeadBlob(h) \/ GetBlob(h)
    \/ Persist(h) \/ Recheck(h) \/ Finalize(h) \/ Abandon(h)

Cleaner ==
  \E w \in Worker :
    \/ Select(w) \/ Inspect(w) \/ Delete(w) \/ Mark(w) \/ SkipRow(w) \/ EndSweep(w)
    \/ \E i \in Intent : Claim(w, i)

World ==
  /\ \/ Tick
     \/ \E t \in Target : CloseAssignment(t) \/ EndEnrollment(t)
     \/ \E u \in User : ChangeRole(u)
     \/ \E t \in Target, u \in User \cup {None} : Rebind(t, u)
  /\ UNCHANGED <<requestVars, job, sweep, swept>>

Next == Browser \/ Server \/ Cleaner \/ World

Spec == Init /\ [][Next]_vars
-----------------------------------------------------------------------------
(* Properties *)

\* The file of every final submission is in the store, with the content the
\* server hashed: no cleanup run, late upload or retried request removes or
\* replaces it (claim_academic_upload_cleanup against the finalization).
SubmittedFileKept ==
  \A s \in submissions : blob[s.intent] = s.file /\ intents[s.intent].file = s.file

\* CONSUMED, the submission and the owner it was checked for stand and fall
\* together, and no target and no key ever has two submissions
\* (assert_academic_submission_complete and the replay by key).
SubmittedOnce ==
  /\ \A i \in Intent : intents[i].state = "CONSUMED" <=> \E s \in submissions : s.intent = i
  /\ \A s \in submissions : /\ intents[s.intent].target = s.target
                            /\ intents[s.intent].user = s.user
  /\ \A s1, s2 \in submissions :
       (s1.target = s2.target \/ s1.key = s2.key \/ s1.intent = s2.intent) => s1 = s2

\* A target's upload slot has one holder and a request id one intent, although
\* issuing, expiry and cancelling interleave (academic_upload_authorizations_active_target_idx
\* and the unique request_id, derived here rather than assumed).
OneSlotPerTarget ==
  \A i, j \in Intent :
    i # j /\ Issued(i) /\ Issued(j) =>
      /\ ledger[i].request # ledger[j].request
      /\ \A t \in Target : ~(Active(i, t) /\ Active(j, t))

\* An upload that was cancelled, displaced or claimed for cleanup before it was
\* submitted is never submitted afterwards, even by a finalization that had
\* verified it before (guard_authorized_academic_submission).
RetiredNeverSubmitted ==
  \A s \in submissions : ~ledger[s.intent].retired /\ ~ledger[s.intent].claimed

\* A submission is accepted within the life of its upload, which ends no later
\* than the deadline, however long its verification took.
AcceptedInTime ==
  \A s \in submissions : s.at < intents[s.intent].expires /\ intents[s.intent].expires <= Due

\* Whoever uploaded for a target still is the student's account: the roster
\* cannot be rebound under an upload (guard_academic_submission_binding), nor
\* an upload be issued to a stale binding.
UploaderIsOwner ==
  \A i \in Intent : Issued(i) => owner[intents[i].target] = intents[i].user

\* The invariants of the tables and of what they say of the store.
SubmissionsSound == TypeOK /\ SubmittedFileKept /\ SubmittedOnce /\ AcceptedInTime /\ UploaderIsOwner

\* The only way an object disappears: its intent was claimed, after expiry and grace.
DeleteOnlyClaimed ==
  [][\A i \in Intent : blob[i] # None /\ blob'[i] = None =>
       ledger[i].claimed /\ intents[i].expires + Grace <= now]_vars

\* What was verified for a usable upload is what is stored, up to the moment the
\* upload is claimed, whatever other uploads to the same path are under way.
VerifiedIsStored ==
  \A i \in Intent :
    intents[i].state \in {"VERIFIED", "CONSUMED"} /\ ~ledger[i].claimed =>
      blob[i] # None /\ blob[i] = intents[i].file /\ SizeOf[blob[i]] = ledger[i].declared

\* The feature implements its promise: seen through the submissions table and the
\* store, every step accepts once, or touches only what was never accepted.
Contract == INSTANCE SubmissionContract WITH
  Place <- Intent, Content <- File, Acceptance <- SubmissionRow, Absent <- None,
  accepted <- submissions, vault <- blob

ImplementsContract == Contract!Spec

-----------------------------------------------------------------------------
(* Liveness of the cleanup *)

\* The cleanup endpoint is called again and again with deletion enabled, which an
\* operator sets up, some of its invocations finish, and a storage call tried
\* again and again is not refused for ever.  Nothing is assumed of the browser,
\* of the request handlers or of time.
Fairness ==
  \A w \in Worker :
    /\ WF_vars(Select(w))
    /\ SF_vars(\E i \in Intent : Claim(w, i))
    /\ WF_vars(sweep[w].pc = "claim" /\ sweep[w].batch = {} /\ EndSweep(w))
    /\ SF_vars(Inspect(w) /\ blob[sweep[w].cur] # None)
    /\ SF_vars(Inspect(w) /\ blob[sweep[w].cur] = None)
    /\ SF_vars(Delete(w) /\ blob[sweep[w].cur] # None)
    /\ SF_vars(Mark(w))

FairSpec == Spec /\ Fairness

Orphan(i) == blob[i] # None /\ Claimable(i)

\* An object no submission refers to, past expiry and grace, is deleted in the
\* end, even one whose upload completed after an earlier run had found its path
\* empty, and however few rows a run takes (the ORDER BY of the candidate query).
OrphanDeleted == \A i \in Intent : Orphan(i) ~> ~Orphan(i)
=============================================================================
