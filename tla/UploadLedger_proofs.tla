------------------------- MODULE UploadLedger_proofs -------------------------
(***************************************************************************)
(* The two programs that use the ledger of uploads: the server's handlers  *)
(* and cleanup worker (AcademicUploads), and the app's submit flow         *)
(* (SubmitFlow).                                                           *)
(*                                                                         *)
(* The safety properties of AcademicUploads hold for every number of       *)
(* targets, accounts, uploads, request handlers and cleanup workers, for   *)
(* every deadline, lifetime and grace period, and for an unbounded clock   *)
(* (MaxTime is any natural number).                                        *)
(*                                                                         *)
(* None of them is inductive alone: that a submitted file is kept rests on *)
(* what a handler still holds of a file it has read (JobOK), on the claim  *)
(* every deletion follows (SweepOK) and on what a claim excludes           *)
(* (IntentOK).  IInv collects them; one lemma per action shows that it     *)
(* is preserved.                                                           *)
(*                                                                         *)
(* RecordSound of SubmitFlow holds for every number of screens and         *)
(* attempts, for every loss of calls and answers, every failure of the     *)
(* device, abort and end of the process.  It rests on what a flow has at   *)
(* hand at each await (PlaceOK) and on what is true of an attempt before   *)
(* its record is erased (WipeOK, OutOK): FlowInv.  AcceptedIsKnown holds   *)
(* of an app with one screen, by KnownInv: where each of the flow's awaits *)
(* finds the record on the device (DiskOK).                                *)
(***************************************************************************)
EXTENDS AcademicUploads, SubmitFlow, SequenceTheorems, TLAPS

\* What a handler may rely on between two awaited calls.
JobOK ==
  \A h \in Handler : job[h].pc # "idle" =>
    /\ job[h].target \in Target /\ job[h].user \in User
    /\ job[h].intent \in Intent /\ Issued(job[h].intent)
    /\ job[h].pc \in {"replay", "recheck", "complete"} => job[h].kind = "finalize"
    /\ job[h].kind = "finalize" => job[h].key \in Key
    /\ job[h].pc \in {"get", "persist"} => job[h].etag # None
    /\ job[h].pc = "persist" /\ ~ledger[job[h].intent].claimed =>
         /\ blob[job[h].intent] = job[h].etag
         /\ SizeOf[job[h].etag] = ledger[job[h].intent].declared

\* A worker touches the store only for an intent that is claimed.
SweepOK ==
  \A w \in Worker : sweep[w].pc \in {"head", "del", "mark"} =>
    sweep[w].cur \in Intent /\ ledger[sweep[w].cur].claimed

\* What the columns of an upload say together.
IntentOK ==
  \A i \in Intent :
    /\ ledger[i].claimed =>
         Issued(i) /\ ledger[i].retired /\ intents[i].expires + Grace <= now
    /\ intents[i].state = "CONSUMED" => ~ledger[i].retired
    /\ Issued(i) => /\ intents[i].target \in Target /\ intents[i].user \in User
                    /\ intents[i].expires <= Due

\* A submission and the upload it consumed.
SubmissionOK ==
  \A s \in submissions : intents[s.intent].file = s.file /\ s.at < intents[s.intent].expires

IInv ==
  /\ TypeOK
  /\ JobOK
  /\ SweepOK
  /\ IntentOK
  /\ SubmissionOK
  /\ VerifiedIsStored
  /\ SubmittedOnce
  /\ UploaderIsOwner
  /\ OneSlotPerTarget

USE TimeAssumption, NoneAssumption, SizeAssumption, BatchAssumption

-----------------------------------------------------------------------------
(* Browser *)

\* Issuing an upload: the new row is INTENDED and every older holder retired.
LEMMA CreateIntentStep ==
  ASSUME IInv, NEW r \in Request, NEW t \in Target, NEW u \in User, NEW d \in Size,
         NEW i \in Intent, CreateIntent(r, t, u, d, i)
  PROVE  IInv'
<1> USE DEF CreateIntent, IssueNew, Issued, Active, roster, requestVars
<1>1. TypeOK'
  <2>1. IntentExpiry \in Nat
    BY DEF IInv, TypeOK, LedgerTypeOK, IntentExpiry
  <2>2. intents' \in [Intent -> IntentRow]
    <3>1. [state |-> "INTENDED", target |-> t, user |-> u, expires |-> IntentExpiry,
           file |-> None] \in IntentRow
      BY <2>1 DEF IntentRow, UploadState
    <3> QED BY <3>1 DEF IInv, TypeOK, LedgerTypeOK
  <2>3. ledger' \in [Intent -> LedgerRow]
    <3>1. [NoLedgerRow EXCEPT !.request = r, !.declared = d] \in LedgerRow
      BY DEF NoLedgerRow, LedgerRow
    <3>2. ASSUME NEW j \in Intent PROVE [ledger[j] EXCEPT !.retired = TRUE] \in LedgerRow
      <4>1. ledger[j] \in LedgerRow
        BY DEF IInv, TypeOK, LedgerTypeOK
      <4> QED BY <4>1 DEF LedgerRow
    <3> QED BY <3>1, <3>2 DEF IInv, TypeOK, LedgerTypeOK, LedgerAfterIssue
  <2> QED BY <2>2, <2>3 DEF IInv, TypeOK, LedgerTypeOK
<1>2. JobOK'
  BY DEF IInv, TypeOK, LedgerTypeOK, LedgerAfterIssue, NoLedgerRow, IntentRow, LedgerRow, JobOK, Job
<1>3. SweepOK'
  BY DEF IInv, TypeOK, LedgerTypeOK, LedgerAfterIssue, NoLedgerRow, IntentRow, LedgerRow,
         SweepOK, IntentOK, Sweep
<1>4. IntentOK'
  BY DEF IInv, TypeOK, LedgerTypeOK, LedgerAfterIssue, NoLedgerRow, IntentExpiry, IntentRow,
         LedgerRow, IntentOK, Submitted, SubmittedOnce, SubmissionRow
<1>5. SubmissionOK'
  BY DEF IInv, TypeOK, LedgerTypeOK, SubmissionOK, SubmittedOnce, IntentRow, SubmissionRow
<1>6. VerifiedIsStored'
  BY DEF IInv, TypeOK, LedgerTypeOK, LedgerAfterIssue, NoLedgerRow, IntentRow, LedgerRow,
         VerifiedIsStored
<1>7. SubmittedOnce'
  BY DEF IInv, TypeOK, LedgerTypeOK, SubmittedOnce, IntentRow, SubmissionRow
<1>8. UploaderIsOwner'
  BY DEF IInv, TypeOK, LedgerTypeOK, IntentRow, UploaderIsOwner, OwnerOK
<1>9. OneSlotPerTarget'
  BY DEF IInv, TypeOK, LedgerTypeOK, LedgerAfterIssue, NoLedgerRow, IntentRow, LedgerRow,
         OneSlotPerTarget
<1> QED BY <1>1, <1>2, <1>3, <1>4, <1>5, <1>6, <1>7, <1>8, <1>9 DEF IInv

\* Steps that only hand out tokens or move uploads that have not landed.
LEMMA PendingPutStep ==
  ASSUME IInv, UNCHANGED <<now, roster, tables, blob, job, sweep, swept>>,
         tokens' \subseteq Intent, puts' \subseteq Intent \X File
  PROVE  IInv'
<1> USE DEF roster, tables, Issued
<1>1. TypeOK'
  BY DEF IInv, TypeOK, LedgerTypeOK
<1>2. JobOK' /\ SweepOK' /\ IntentOK' /\ SubmissionOK'
  BY DEF IInv, JobOK, SweepOK, IntentOK, SubmissionOK
<1>3. VerifiedIsStored' /\ SubmittedOnce' /\ UploaderIsOwner' /\ OneSlotPerTarget'
  BY DEF IInv, VerifiedIsStored, SubmittedOnce, UploaderIsOwner, OneSlotPerTarget, Active
<1> QED BY <1>1, <1>2, <1>3 DEF IInv

\* An upload that lands never replaces an object (allowOverwrite = false).
LEMMA LandPutStep ==
  ASSUME IInv, NEW i \in Intent, NEW f \in File, LandPut(i, f)
  PROVE  IInv'
<1> USE DEF LandPut, Stored, roster, tables, Issued
<1>1. TypeOK'
  BY DEF IInv, TypeOK, LedgerTypeOK
<1>2. \A j \in Intent : blob[j] # None => blob'[j] = blob[j]
  BY DEF IInv, TypeOK
<1>3. JobOK'
  BY <1>2 DEF IInv, JobOK
<1>4. VerifiedIsStored'
  BY <1>2 DEF IInv, VerifiedIsStored
<1>5. SweepOK' /\ IntentOK' /\ SubmissionOK'
  BY DEF IInv, SweepOK, IntentOK, SubmissionOK
<1>6. SubmittedOnce' /\ UploaderIsOwner' /\ OneSlotPerTarget'
  BY DEF IInv, SubmittedOnce, UploaderIsOwner, OneSlotPerTarget, Active
<1> QED BY <1>1, <1>3, <1>4, <1>5, <1>6 DEF IInv

\* The receipt callback writes a column nothing else reads.
LEMMA ReceiptStep ==
  ASSUME IInv, NEW i \in Intent, Receipt(i)
  PROVE  IInv'
<1> USE DEF Receipt, ReceiveUpload, roster, requestVars, Issued
<1>1. [ledger[i] EXCEPT !.received = TRUE] \in LedgerRow
  <2>1. ledger[i] \in LedgerRow
    BY DEF IInv, TypeOK, LedgerTypeOK
  <2> QED BY <2>1 DEF LedgerRow
<1>2. TypeOK'
  BY <1>1 DEF IInv, TypeOK, LedgerTypeOK
<1>3. \A j \in Intent : /\ ledger'[j].request = ledger[j].request
                        /\ ledger'[j].declared = ledger[j].declared
                        /\ ledger'[j].retired = ledger[j].retired
                        /\ ledger'[j].claimed = ledger[j].claimed
  BY DEF IInv, TypeOK, LedgerTypeOK, LedgerRow
<1>4. JobOK' /\ SweepOK' /\ IntentOK' /\ SubmissionOK'
  BY <1>3 DEF IInv, JobOK, SweepOK, IntentOK, SubmissionOK
<1>5. VerifiedIsStored' /\ SubmittedOnce' /\ UploaderIsOwner' /\ OneSlotPerTarget'
  BY <1>3 DEF IInv, VerifiedIsStored, SubmittedOnce, UploaderIsOwner, OneSlotPerTarget, Active
<1> QED BY <1>2, <1>4, <1>5 DEF IInv

\* Cancelling retires an upload no submission refers to.
LEMMA CancelStep ==
  ASSUME IInv, NEW i \in Intent, NEW u \in User, Cancel(i, u)
  PROVE  IInv'
<1> USE DEF Cancel, CancelUpload, roster, requestVars, Issued
<1>1. [ledger[i] EXCEPT !.retired = TRUE] \in LedgerRow
  <2>1. ledger[i] \in LedgerRow
    BY DEF IInv, TypeOK, LedgerTypeOK
  <2> QED BY <2>1 DEF LedgerRow
<1>2. TypeOK'
  BY <1>1 DEF IInv, TypeOK, LedgerTypeOK
<1>3. \A j \in Intent : /\ ledger'[j].request = ledger[j].request
                        /\ ledger'[j].declared = ledger[j].declared
                        /\ ledger'[j].retired <=> (ledger[j].retired \/ j = i)
                        /\ ledger'[j].claimed = ledger[j].claimed
  BY DEF IInv, TypeOK, LedgerTypeOK, LedgerRow
<1>4. JobOK' /\ SweepOK' /\ SubmissionOK'
  BY <1>3 DEF IInv, JobOK, SweepOK, SubmissionOK
<1>5. IntentOK'
  BY <1>3 DEF IInv, IntentOK, Unreferenced
<1>6. VerifiedIsStored' /\ SubmittedOnce' /\ UploaderIsOwner' /\ OneSlotPerTarget'
  BY <1>3 DEF IInv, VerifiedIsStored, SubmittedOnce, UploaderIsOwner, OneSlotPerTarget, Active
<1> QED BY <1>2, <1>4, <1>5, <1>6 DEF IInv

\* Every step of the browser and the blob store.
LEMMA BrowserStep == IInv /\ Browser => IInv'
<1> SUFFICES ASSUME IInv, Browser PROVE IInv'
  OBVIOUS
<1>1. ASSUME NEW i \in Intent, NEW u \in User, GrantToken(i, u) PROVE IInv'
  BY <1>1, PendingPutStep DEF GrantToken, IInv, TypeOK
<1>2. ASSUME NEW i \in Intent, NEW f \in File, StartPut(i, f) PROVE IInv'
  BY <1>2, PendingPutStep DEF StartPut, IInv, TypeOK
<1>3. ASSUME NEW i \in Intent, NEW f \in File, LosePut(i, f) PROVE IInv'
  BY <1>3, PendingPutStep DEF LosePut, IInv, TypeOK
<1> QED
  BY <1>1, <1>2, <1>3, CreateIntentStep, LandPutStep, ReceiptStep, CancelStep DEF Browser

-----------------------------------------------------------------------------
(* Request handlers *)

\* A handler that only moves on leaves everything but JobOK as it was.
LEMMA LocalJobStep ==
  ASSUME IInv, LocalStep, job' \in [Handler -> Job], JobOK'
  PROVE  IInv'
<1> USE DEF LocalStep, roster, tables, requestVars, Issued
<1>1. TypeOK'
  BY DEF IInv, TypeOK, LedgerTypeOK
<1>2. SweepOK' /\ IntentOK' /\ SubmissionOK'
  BY DEF IInv, SweepOK, IntentOK, SubmissionOK
<1>3. VerifiedIsStored' /\ SubmittedOnce' /\ UploaderIsOwner' /\ OneSlotPerTarget'
  BY DEF IInv, VerifiedIsStored, SubmittedOnce, UploaderIsOwner, OneSlotPerTarget, Active
<1> QED BY <1>1, <1>2, <1>3 DEF IInv

\* Starting a request fills the handler's local variables.
LEMMA StartStep ==
  ASSUME IInv, NEW h \in Handler, NEW t \in Target, NEW u \in User, NEW i \in Intent,
         \/ StartVerify(h, t, u, i)
         \/ \E k \in Key : StartFinalize(h, t, u, i, k)
  PROVE  IInv'
<1>1. PICK j \in Job :
        /\ j.pc \in {"authorize", "replay"} /\ (j.pc = "replay" => j.kind = "finalize")
        /\ j.target = t /\ j.user = u /\ j.intent = i /\ (j.kind = "finalize" => j.key \in Key)
        /\ job' = [job EXCEPT ![h] = j]
  <2>1. CASE StartVerify(h, t, u, i)
    <3>1. [NoJob EXCEPT !.pc = "authorize", !.kind = "verify",
                        !.target = t, !.user = u, !.intent = i] \in Job
      BY DEF NoJob, Job, JobPc
    <3> QED BY <2>1, <3>1 DEF StartVerify, NoJob
  <2>2. ASSUME NEW k \in Key, StartFinalize(h, t, u, i, k) PROVE \E j \in Job :
        /\ j.pc \in {"authorize", "replay"} /\ (j.pc = "replay" => j.kind = "finalize")
        /\ j.target = t /\ j.user = u /\ j.intent = i /\ (j.kind = "finalize" => j.key \in Key)
        /\ job' = [job EXCEPT ![h] = j]
    <3>1. [NoJob EXCEPT !.pc = "replay", !.kind = "finalize",
                        !.target = t, !.user = u, !.intent = i, !.key = k] \in Job
      BY DEF NoJob, Job, JobPc
    <3> QED BY <2>2, <3>1 DEF StartFinalize, NoJob
  <2> QED BY <2>1, <2>2
<1>2. LocalStep /\ Issued(i)
  BY DEF StartVerify, StartFinalize
<1>3. job' \in [Handler -> Job]
  BY <1>1 DEF IInv, TypeOK
<1>4. JobOK'
  BY <1>1, <1>2 DEF IInv, TypeOK, JobOK, LocalStep, tables, requestVars, Issued
<1> QED BY <1>2, <1>3, <1>4, LocalJobStep

\* Each awaited call of a handler that only reads: what it read is still in
\* JobOK, and a file that was read whole is the stored one.
LEMMA ReadingStep ==
  ASSUME IInv, NEW h \in Handler,
         TryReplay(h) \/ Authorize(h) \/ HeadBlob(h) \/ GetBlob(h) \/ Recheck(h) \/ Abandon(h)
  PROVE  IInv'
<1>1. LocalStep
  BY DEF TryReplay, Authorize, HeadBlob, GetBlob, Recheck, Abandon
<1>2. /\ job[h] \in Job /\ job[h].intent \in Intent /\ job[h].pc # "idle"
      /\ blob[job[h].intent] \in File \cup {None}
  BY DEF IInv, TypeOK, JobOK, TryReplay, Authorize, HeadBlob, GetBlob, Recheck, Abandon
<1>3. NoJob \in Job /\ NoJob.pc = "idle"
  BY DEF NoJob, Job, JobPc
<1>4. ASSUME NEW pc \in JobPc \ {"idle", "get"}, Goto(h, pc),
             pc \in {"recheck", "complete"} => job[h].kind = "finalize",
             pc # "replay",
             pc = "persist" => /\ job[h].etag # None /\ blob[job[h].intent] = job[h].etag
                               /\ SizeOf[job[h].etag] = ledger[job[h].intent].declared
      PROVE  IInv'
  <2>1. /\ [job[h] EXCEPT !.pc = pc] \in Job
        /\ job' = [job EXCEPT ![h] = [job[h] EXCEPT !.pc = pc]]
    BY <1>2, <1>4 DEF Goto, Job
  <2>2. job' \in [Handler -> Job]
    BY <2>1 DEF IInv, TypeOK
  <2>3. JobOK'
    BY <1>1, <1>2, <1>4, <2>1
       DEF IInv, TypeOK, JobOK, Job, LocalStep, tables, requestVars, Issued
  <2> QED BY <1>1, <2>2, <2>3, LocalJobStep
<1>5. ASSUME Finish(h) PROVE IInv'
  <2>1. job' \in [Handler -> Job] /\ JobOK'
    BY <1>1, <1>3, <1>5 DEF Finish, IInv, TypeOK, JobOK, LocalStep, tables, requestVars, Issued
  <2> QED BY <1>1, <2>1, LocalJobStep
<1>6. CASE HeadBlob(h)
  <2>1. PICK f \in File : f = blob[job[h].intent]
    BY <1>2, <1>6 DEF HeadBlob
  <2>2. job' = [job EXCEPT ![h] = [job[h] EXCEPT !.pc = "get", !.etag = f]]
    BY <1>6, <2>1 DEF HeadBlob
  <2>3. [job[h] EXCEPT !.pc = "get", !.etag = f] \in Job
    BY <1>2 DEF Job, JobPc
  <2>4. job' \in [Handler -> Job]
    BY <2>2, <2>3 DEF IInv, TypeOK
  <2>5. JobOK'
    BY <1>1, <1>2, <2>2 DEF IInv, TypeOK, JobOK, Job, LocalStep, tables, requestVars, Issued
  <2> QED BY <1>1, <2>4, <2>5, LocalJobStep
<1>7. CASE TryReplay(h)
  <2>1. job[h].kind = "finalize"
    BY <1>2, <1>7 DEF TryReplay, IInv, JobOK
  <2> QED BY <1>4, <1>5, <1>7, <2>1 DEF TryReplay, JobPc
<1>8. CASE Authorize(h)
  BY <1>4, <1>8 DEF Authorize, JobPc
<1>9. CASE GetBlob(h)
  BY <1>2, <1>4, <1>9 DEF GetBlob, JobPc, IInv, JobOK
<1>10. CASE Recheck(h)
  BY <1>2, <1>4, <1>10 DEF Recheck, JobPc, IInv, JobOK
<1>11. CASE Abandon(h)
  BY <1>5, <1>11 DEF Abandon
<1> QED BY <1>6, <1>7, <1>8, <1>9, <1>10, <1>11

\* A verification writes only what it has just read whole, and only to an
\* upload that is neither claimed nor consumed.
LEMMA PersistStep ==
  ASSUME IInv, NEW h \in Handler, Persist(h)
  PROVE  IInv'
<1>1. PICK i \in Intent, f \in File : i = job[h].intent /\ f = job[h].etag
  BY DEF IInv, TypeOK, JobOK, Job, Persist
<1>2. /\ intents[i] \in IntentRow /\ ledger[i] \in LedgerRow /\ job[h] \in Job
      /\ intents[i].state \in {"INTENDED", "VERIFIED"}
      /\ ~ledger[i].claimed /\ blob[i] = f /\ SizeOf[f] = ledger[i].declared
  BY <1>1 DEF IInv, TypeOK, LedgerTypeOK, JobOK, Persist, VerifyUpload, Authorized
<1>3. /\ intents' = [intents EXCEPT ![i] = [@ EXCEPT !.state = "VERIFIED", !.file = f]]
      /\ ledger' = [ledger EXCEPT ![i] = [@ EXCEPT !.etag = f]]
      /\ UNCHANGED <<now, roster, submissions, requestVars, sweep, swept>>
  BY <1>1 DEF Persist, VerifyUpload
<1>4. job' \in [Handler -> Job] /\ \A g \in Handler : g # h => job'[g] = job[g]
  <2>1. NoJob \in Job /\ [job[h] EXCEPT !.pc = "recheck"] \in Job
    BY <1>2 DEF NoJob, Job, JobPc
  <2> QED BY <2>1 DEF Persist, Goto, Finish, IInv, TypeOK
<1>5. \/ job'[h].pc = "idle"
      \/ job'[h].pc = "recheck" /\ job[h].kind = "finalize"
         /\ job'[h] = [job[h] EXCEPT !.pc = "recheck"]
  BY <1>2 DEF Persist, Goto, Finish, NoJob, IInv, TypeOK, Job
<1>6. TypeOK'
  <2>1. [intents[i] EXCEPT !.state = "VERIFIED", !.file = f] \in IntentRow
    BY <1>2 DEF IntentRow, UploadState
  <2>2. [ledger[i] EXCEPT !.etag = f] \in LedgerRow
    BY <1>2 DEF LedgerRow
  <2>3. intents' \in [Intent -> IntentRow] /\ ledger' \in [Intent -> LedgerRow]
    BY <1>3, <2>1, <2>2 DEF IInv, TypeOK, LedgerTypeOK
  <2> QED BY <1>3, <1>4, <2>3 DEF IInv, TypeOK, LedgerTypeOK, roster, requestVars
<1>7. \A j \in Intent : /\ ledger'[j].request = ledger[j].request
                        /\ ledger'[j].declared = ledger[j].declared
                        /\ ledger'[j].retired = ledger[j].retired
                        /\ ledger'[j].claimed = ledger[j].claimed
                        /\ intents'[j].target = intents[j].target
                        /\ intents'[j].user = intents[j].user
                        /\ intents'[j].expires = intents[j].expires
                        /\ j # i => intents'[j] = intents[j]
  BY <1>2, <1>3 DEF IInv, TypeOK, LedgerTypeOK, LedgerRow, IntentRow
<1>8. intents'[i].state = "VERIFIED" /\ intents'[i].file = f
  BY <1>2, <1>3 DEF IInv, TypeOK, LedgerTypeOK, IntentRow
<1> USE <1>2, <1>3, <1>7, <1>8 DEF IInv, Issued, roster, requestVars
<1>9. JobOK'
  BY <1>4, <1>5 DEF TypeOK, Job, JobOK, Persist
<1>10. SweepOK' /\ IntentOK'
  BY DEF SweepOK, IntentOK
<1>11. SubmissionOK' /\ SubmittedOnce'
  BY DEF TypeOK, LedgerTypeOK, SubmissionRow, SubmissionOK, SubmittedOnce
<1>12. VerifiedIsStored' /\ UploaderIsOwner' /\ OneSlotPerTarget'
  BY DEF VerifiedIsStored, UploaderIsOwner, OneSlotPerTarget, Active
<1> QED BY <1>6, <1>9, <1>10, <1>11, <1>12

\* What a finalization has established when its transaction commits: the
\* verified file is in the store and no submission is near.
Accepts(t, u, i, k) ==
  /\ intents[i] \in IntentRow /\ intents[i].file \in File /\ blob[i] = intents[i].file
  /\ intents[i].state = "VERIFIED" /\ intents[i].target = t /\ intents[i].user = u
  /\ ~ledger[i].claimed /\ ~ledger[i].retired /\ now < intents[i].expires
  /\ \A s \in submissions : s.target # t /\ s.key # k /\ s.intent # i
  /\ submissions' = submissions \cup {[target |-> t, user |-> u, intent |-> i, key |-> k,
                                       file |-> intents[i].file, at |-> now]}
  /\ intents' = [intents EXCEPT ![i] = [intents[i] EXCEPT !.state = "CONSUMED"]]
  /\ UNCHANGED <<now, roster, ledger>>

\* The invariant gives a finalization all of Accepts.
LEMMA CompleteAccepts ==
  ASSUME IInv, NEW t, NEW u, NEW i \in Intent, NEW k, Complete(t, u, i, k)
  PROVE  Accepts(t, u, i, k)
<1>1. /\ intents[i] \in IntentRow /\ intents[i].state = "VERIFIED"
      /\ ~ledger[i].claimed /\ ~ledger[i].retired
      /\ intents[i].target = t /\ intents[i].user = u /\ now < intents[i].expires
  BY DEF IInv, TypeOK, LedgerTypeOK, Complete, FinalGuard, Unexpired
<1>2. intents[i].file \in File /\ blob[i] = intents[i].file
  BY <1>1 DEF IInv, TypeOK, VerifiedIsStored
<1>3. \A s \in submissions : s.target # t /\ s.key # k /\ s.intent # i
  BY <1>1 DEF IInv, Complete, Vacant, Submitted, SubmittedOnce
<1> QED BY <1>1, <1>2, <1>3 DEF Complete, Accepts

\* The submission, its file and the CONSUMED state are written together.
LEMMA FinalizeStep ==
  ASSUME IInv, NEW h \in Handler, Finalize(h)
  PROVE  IInv'
<1>1. CASE Replay(job[h].target, job[h].user, job[h].intent, job[h].key)
           /\ UNCHANGED <<now, roster, tables>>
  BY <1>1, ReadingStep DEF Finalize, Abandon, LocalStep
<1>2. CASE Complete(job[h].target, job[h].user, job[h].intent, job[h].key)
  <2>1. PICK t \in Target, u \in User, i \in Intent, k \in Key :
          t = job[h].target /\ u = job[h].user /\ i = job[h].intent /\ k = job[h].key
    BY DEF IInv, JobOK, Finalize
  <2>2. Accepts(t, u, i, k)
    BY <1>2, <2>1, CompleteAccepts
  <2> DEFINE new == [target |-> t, user |-> u, intent |-> i, key |-> k,
                     file |-> intents[i].file, at |-> now]
  <2>3. UNCHANGED <<requestVars, sweep, swept>> /\ job' = [job EXCEPT ![h] = NoJob]
    BY DEF Finalize, Finish
  <2>4. now \in Nat /\ NoJob \in Job /\ NoJob.pc = "idle"
    BY DEF IInv, TypeOK, LedgerTypeOK, NoJob, Job, JobPc
  <2>5. TypeOK'
    <3>1. new \in SubmissionRow
      BY <2>2, <2>4 DEF Accepts, SubmissionRow
    <3>2. [intents[i] EXCEPT !.state = "CONSUMED"] \in IntentRow
      BY <2>2 DEF Accepts, IntentRow, UploadState
    <3> QED BY <2>2, <2>3, <2>4, <3>1, <3>2
            DEF Accepts, IInv, TypeOK, LedgerTypeOK, roster, requestVars
  <2>6. /\ intents'[i].state = "CONSUMED"
        /\ \A j \in Intent : /\ intents'[j].target = intents[j].target
                             /\ intents'[j].user = intents[j].user
                             /\ intents'[j].expires = intents[j].expires
                             /\ intents'[j].file = intents[j].file
                             /\ j # i => intents'[j] = intents[j]
    BY <2>2 DEF Accepts, IInv, TypeOK, LedgerTypeOK, IntentRow
  <2>7. JobOK' /\ SweepOK' /\ IntentOK'
    BY <2>2, <2>3, <2>4, <2>6
       DEF Accepts, IInv, TypeOK, JobOK, SweepOK, IntentOK, Issued, requestVars
  <2>8. /\ submissions' = submissions \cup {new}
        /\ new.target = t /\ new.user = u /\ new.intent = i /\ new.key = k
        /\ new.file = intents[i].file /\ new.at = now
        /\ \A s \in submissions : s.intent \in Intent /\ s.intent # i
    BY <2>2 DEF Accepts, IInv, TypeOK, LedgerTypeOK, SubmissionRow
  <2> HIDE DEF new
  <2>9. SubmissionOK'
    BY <2>2, <2>6, <2>8 DEF Accepts, IInv, SubmissionOK
  <2>10. SubmittedOnce'
    <3>1. \A j \in Intent : intents'[j].state = "CONSUMED" <=> \E s \in submissions' : s.intent = j
      BY <2>6, <2>8 DEF IInv, SubmittedOnce
    <3>2. \A s \in submissions' : /\ intents'[s.intent].target = s.target
                                  /\ intents'[s.intent].user = s.user
      BY <2>2, <2>6, <2>8 DEF Accepts, IInv, SubmittedOnce
    <3>3. \A s1, s2 \in submissions' :
            (s1.target = s2.target \/ s1.key = s2.key \/ s1.intent = s2.intent) => s1 = s2
      BY <2>2, <2>8 DEF Accepts, IInv, SubmittedOnce
    <3> QED BY <3>1, <3>2, <3>3 DEF SubmittedOnce
  <2>11. VerifiedIsStored' /\ UploaderIsOwner' /\ OneSlotPerTarget'
    BY <2>2, <2>3, <2>6
       DEF Accepts, IInv, VerifiedIsStored, UploaderIsOwner, OneSlotPerTarget, Active, Issued,
           roster, requestVars
  <2> QED BY <2>5, <2>7, <2>9, <2>10, <2>11 DEF IInv
<1> QED BY <1>1, <1>2 DEF Finalize

\* Every step of a request handler.
LEMMA ServerStep == IInv /\ Server => IInv'
BY StartStep, ReadingStep, PersistStep, FinalizeStep DEF Server

-----------------------------------------------------------------------------
(* Cleanup workers *)

\* A worker that only moves on, or marks a row, leaves the ledger and the
\* store alone.
LEMMA LocalSweepStep ==
  ASSUME IInv, CleanStep, UNCHANGED tables, sweep' \in [Worker -> Sweep], SweepOK',
         swept' \in Seq(Intent)
  PROVE  IInv'
<1> USE DEF CleanStep, roster, tables, requestVars, Issued
<1>1. TypeOK'
  BY DEF IInv, TypeOK, LedgerTypeOK
<1>2. JobOK' /\ IntentOK' /\ SubmissionOK'
  BY DEF IInv, JobOK, IntentOK, SubmissionOK
<1>3. VerifiedIsStored' /\ SubmittedOnce' /\ UploaderIsOwner' /\ OneSlotPerTarget'
  BY DEF IInv, VerifiedIsStored, SubmittedOnce, UploaderIsOwner, OneSlotPerTarget, Active
<1> QED BY <1>1, <1>2, <1>3 DEF IInv

\* Selecting a batch, skipping a refused row, inspecting an object, marking a
\* row and ending a run are such steps.
LEMMA MovingOnStep ==
  ASSUME IInv, NEW w \in Worker,
         \/ Select(w) \/ Inspect(w) \/ Mark(w) \/ EndSweep(w)
         \/ \E i \in Intent : Claim(w, i) /\ ~Claimable(i)
  PROVE  IInv'
<1>1. sweep[w] \in Sweep /\ swept \in Seq(Intent)
  BY DEF IInv, TypeOK
<1>2. ASSUME NEW s \in Sweep, sweep' = [sweep EXCEPT ![w] = s],
             s.pc \in {"head", "del", "mark"} => s.cur \in Intent /\ ledger[s.cur].claimed,
             CleanStep, UNCHANGED tables, swept' \in Seq(Intent)
      PROVE  IInv'
  <2>1. sweep' \in [Worker -> Sweep]
    BY <1>2 DEF IInv, TypeOK
  <2>2. SweepOK'
    BY <1>2 DEF IInv, TypeOK, SweepOK, tables
  <2> QED BY <1>2, <2>1, <2>2, LocalSweepStep
<1>3. NoSweep \in Sweep /\ NoSweep.pc = "idle"
  BY DEF NoSweep, Sweep
<1>4. CASE Select(w)
  <2>1. PICK b \in SUBSET Intent :
          sweep' = [sweep EXCEPT ![w] = [NoSweep EXCEPT !.pc = "claim", !.batch = b]]
    BY <1>4 DEF Select, Candidates
  <2>2. [NoSweep EXCEPT !.pc = "claim", !.batch = b] \in Sweep
    BY DEF NoSweep, Sweep
  <2> QED BY <1>1, <1>2, <1>4, <2>1, <2>2 DEF Select, NoSweep
<1>5. ASSUME NEW i \in Intent, Claim(w, i), ~Claimable(i) PROVE IInv'
  <2>1. [sweep[w] EXCEPT !.batch = @ \ {i}] \in Sweep
    BY <1>1 DEF Sweep
  <2>2. /\ sweep[w].pc = "claim" /\ UNCHANGED <<tables, swept>> /\ CleanStep
        /\ sweep' = [sweep EXCEPT ![w] = [sweep[w] EXCEPT !.batch = @ \ {i}]]
    BY <1>5 DEF Claim, ClaimCleanup
  <2> QED BY <1>1, <1>2, <2>1, <2>2 DEF Sweep
<1>6. CASE Inspect(w)
  <2>1. sweep[w].cur \in Intent /\ ledger[sweep[w].cur].claimed
    BY <1>6 DEF Inspect, IInv, SweepOK
  <2>2. PICK pc \in {"mark", "del"}, e \in File \cup {None} :
          sweep' = [sweep EXCEPT ![w] = [sweep[w] EXCEPT !.pc = pc, !.etag = e]]
    BY <1>6, <2>1 DEF Inspect, IInv, TypeOK
  <2>3. [sweep[w] EXCEPT !.pc = pc, !.etag = e] \in Sweep
    BY <1>1 DEF Sweep
  <2> QED BY <1>1, <1>2, <1>6, <2>1, <2>2, <2>3 DEF Inspect, Sweep
<1>7. CASE Mark(w)
  <2>1. sweep[w].cur \in Intent
    BY <1>7 DEF Mark, IInv, SweepOK
  <2>2. MarkDeleted(sweep[w].cur) \in Seq(Intent)
    <3> DEFINE n == SweptAt(sweep[w].cur)
    <3>1. IsSwept(sweep[w].cur) => n \in 1 .. Len(swept)
      BY <1>1 DEF IsSwept, SweptAt
    <3>2. IsSwept(sweep[w].cur) => SubSeq(swept, 1, n - 1) \in Seq(Intent)
                                   /\ SubSeq(swept, n + 1, Len(swept)) \in Seq(Intent)
      BY <1>1, <3>1, SubSeqProperties
    <3> QED BY <1>1, <2>1, <3>2, ConcatProperties, AppendProperties DEF MarkDeleted
  <2>3. [sweep[w] EXCEPT !.pc = "claim", !.cur = None, !.etag = None] \in Sweep
    BY <1>1 DEF Sweep
  <2> QED BY <1>1, <1>2, <1>7, <2>2, <2>3 DEF Mark, Sweep
<1>8. CASE EndSweep(w)
  BY <1>1, <1>2, <1>3, <1>8 DEF EndSweep
<1> QED BY <1>4, <1>5, <1>6, <1>7, <1>8

\* A claim takes an upload no submission refers to out of use for good.
LEMMA ClaimStep ==
  ASSUME IInv, NEW w \in Worker, NEW i \in Intent, Claim(w, i), ClaimCleanup(i)
  PROVE  IInv'
<1>1. /\ intents[i] \in IntentRow /\ ledger[i] \in LedgerRow /\ sweep[w] \in Sweep
      /\ Issued(i) /\ intents[i].expires + Grace <= now /\ intents[i].state # "CONSUMED"
      /\ \A s \in submissions : s.intent # i
  BY DEF IInv, TypeOK, LedgerTypeOK, ClaimCleanup, Claimable, Unreferenced
<1>2. PICK st \in {"VERIFIED", "EXPIRED"} :
        intents' = [intents EXCEPT ![i] = [intents[i] EXCEPT !.state = st]]
  BY <1>1 DEF ClaimCleanup, IntentRow, UploadState, Issued
<1>3. ledger' = [ledger EXCEPT ![i] = [ledger[i] EXCEPT !.retired = TRUE, !.claimed = TRUE]]
  BY DEF ClaimCleanup
<1>4. UNCHANGED <<now, roster, submissions, requestVars, job, swept>>
  BY DEF Claim, ClaimCleanup, CleanStep
<1>4a. sweep' = [sweep EXCEPT ![w] = 
             [pc |-> "head", batch |-> sweep[w].batch \ {i}, cur |-> i, etag |-> None]]
  BY DEF Claim, ClaimCleanup
<1>5. TypeOK'
  <2>1. [intents[i] EXCEPT !.state = st] \in IntentRow
    BY <1>1 DEF IntentRow, UploadState
  <2>2. [ledger[i] EXCEPT !.retired = TRUE, !.claimed = TRUE] \in LedgerRow
    BY <1>1 DEF LedgerRow
  <2>3. [pc |-> "head", batch |-> sweep[w].batch \ {i}, cur |-> i, etag |-> None] \in Sweep
    BY <1>1 DEF Sweep
  <2> QED BY <1>2, <1>3, <1>4, <1>4a, <2>1, <2>2, <2>3
          DEF IInv, TypeOK, LedgerTypeOK, roster, requestVars
<1>6. /\ intents'[i].state = st /\ ledger'[i].retired /\ ledger'[i].claimed
      /\ \A j \in Intent : /\ ledger'[j].request = ledger[j].request
                           /\ ledger'[j].declared = ledger[j].declared
                           /\ j # i => ledger'[j] = ledger[j] /\ intents'[j] = intents[j]
                           /\ intents'[j].target = intents[j].target
                           /\ intents'[j].user = intents[j].user
                           /\ intents'[j].expires = intents[j].expires
                           /\ intents'[j].file = intents[j].file
  BY <1>1, <1>2, <1>3 DEF IInv, TypeOK, LedgerTypeOK, LedgerRow, IntentRow
<1> USE <1>1, <1>4, <1>4a, <1>6 DEF IInv, Issued, roster, requestVars
<1>7. JobOK'
  BY DEF JobOK
<1>8. SweepOK'
  <2>1. sweep'[w].cur = i /\ \A v \in Worker : v # w => sweep'[v] = sweep[v]
    BY DEF TypeOK, Sweep
  <2> QED BY <2>1 DEF SweepOK
<1>9. IntentOK'
  BY DEF IntentOK
<1>10. SubmissionOK' /\ SubmittedOnce'
  BY DEF TypeOK, LedgerTypeOK, SubmissionRow, SubmissionOK, SubmittedOnce
<1>11. VerifiedIsStored' /\ UploaderIsOwner' /\ OneSlotPerTarget'
  BY DEF VerifiedIsStored, UploaderIsOwner, OneSlotPerTarget, Active
<1> QED BY <1>5, <1>7, <1>8, <1>9, <1>10, <1>11

\* What a worker deletes belongs to a claimed upload.
LEMMA DeleteStep ==
  ASSUME IInv, NEW w \in Worker, Delete(w) \/ SkipRow(w)
  PROVE  IInv'
<1>1. PICK i \in Intent : i = sweep[w].cur /\ ledger[i].claimed /\ sweep[w] \in Sweep
  BY DEF IInv, TypeOK, SweepOK, Delete, SkipRow
<1>2. /\ blob' = blob \/ blob' = [blob EXCEPT ![i] = None]
      /\ UNCHANGED <<now, roster, tables, tokens, puts, job, swept>>
  BY <1>1 DEF Delete, SkipRow
<1>3. \A j \in Intent : ~ledger[j].claimed => blob'[j] = blob[j]
  BY <1>1, <1>2 DEF IInv, TypeOK
<1>4. PICK s \in Sweep : sweep' = [sweep EXCEPT ![w] = s] /\ s.pc \in {"mark", "claim"}
                         /\ (s.pc = "mark" => s.cur = i)
  <2>1. [sweep[w] EXCEPT !.pc = "mark"] \in Sweep
    BY <1>1 DEF Sweep
  <2>2. [sweep[w] EXCEPT !.pc = "claim", !.cur = None, !.etag = None] \in Sweep
    BY <1>1 DEF Sweep
  <2> QED BY <1>1, <2>1, <2>2 DEF Delete, SkipRow, Sweep
<1> USE <1>2, <1>3 DEF IInv, Issued, roster, tables
<1>5. TypeOK'
  BY <1>4 DEF TypeOK, LedgerTypeOK
<1>6. JobOK' /\ IntentOK' /\ SubmissionOK'
  BY DEF JobOK, IntentOK, SubmissionOK
<1>7. SweepOK'
  BY <1>1, <1>4 DEF TypeOK, SweepOK
<1>8. VerifiedIsStored' /\ SubmittedOnce' /\ UploaderIsOwner' /\ OneSlotPerTarget'
  BY DEF VerifiedIsStored, SubmittedOnce, UploaderIsOwner, OneSlotPerTarget, Active
<1> QED BY <1>5, <1>6, <1>7, <1>8

\* Every step of a cleanup worker.
LEMMA CleanerStep == IInv /\ Cleaner => IInv'
BY MovingOnStep, ClaimStep, DeleteStep DEF Cleaner, Claim

-----------------------------------------------------------------------------
(* The world *)

\* Time, staff and roster: only a rebinding could break anything, and
\* MayRebind refuses it once another account's upload exists.
LEMMA WorldStep == IInv /\ World => IInv'
<1> SUFFICES ASSUME IInv, World PROVE IInv'
  OBVIOUS
<1> USE DEF World, Tick, CloseAssignment, EndEnrollment, ChangeRole, Rebind, roster, tables,
            requestVars, IInv, Issued
<1>1. /\ UNCHANGED <<intents, ledger, submissions, blob, tokens, puts, job, sweep, swept>>
      /\ now' \in {now, now + 1}
  OBVIOUS
<1>2. TypeOK'
  <2>1. now' \in Nat /\ status' \in [Target -> {"PUBLISHED", "CLOSED"}]
    BY DEF TypeOK, LedgerTypeOK
  <2>2. owner' \in [Target -> User \cup {None}] /\ members' \subseteq User /\ enrolled' \subseteq Target
    BY DEF TypeOK, LedgerTypeOK
  <2> QED BY <1>1, <2>1, <2>2 DEF TypeOK, LedgerTypeOK
<1>3. JobOK' /\ SweepOK' /\ SubmissionOK'
  BY <1>1 DEF JobOK, SweepOK, SubmissionOK
<1>4. IntentOK'
  BY <1>1 DEF TypeOK, LedgerTypeOK, IntentRow, IntentOK
<1>5. UploaderIsOwner'
  BY <1>1 DEF TypeOK, LedgerTypeOK, IntentOK, UploaderIsOwner, MayRebind
<1>6. VerifiedIsStored' /\ SubmittedOnce' /\ OneSlotPerTarget'
  BY <1>1 DEF VerifiedIsStored, SubmittedOnce, OneSlotPerTarget, Active
<1> QED BY <1>2, <1>3, <1>4, <1>5, <1>6

-----------------------------------------------------------------------------

\* The initial state satisfies the invariant.
LEMMA InitInvariant == Init => IInv
<1> SUFFICES ASSUME Init PROVE IInv
  OBVIOUS
<1> USE DEF Init, LedgerInit, NoIntentRow, NoLedgerRow, NoJob, NoSweep, Issued
<1>1. TypeOK
  <2>1. NoIntentRow \in IntentRow /\ NoLedgerRow \in LedgerRow
    BY DEF IntentRow, UploadState, LedgerRow
  <2>2. NoJob \in Job /\ NoSweep \in Sweep
    BY DEF Job, JobPc, Sweep
  <2> QED BY <2>1, <2>2 DEF TypeOK, LedgerTypeOK
<1>2. JobOK /\ SweepOK /\ IntentOK /\ SubmissionOK
  BY DEF JobOK, SweepOK, IntentOK, SubmissionOK
<1>3. VerifiedIsStored /\ SubmittedOnce /\ UploaderIsOwner /\ OneSlotPerTarget
  BY DEF VerifiedIsStored, SubmittedOnce, UploaderIsOwner, OneSlotPerTarget
<1> QED BY <1>1, <1>2, <1>3 DEF IInv

\* The invariant is inductive.
LEMMA StepInvariant == IInv /\ [Next]_vars => IInv'
<1>1. IInv /\ UNCHANGED vars => IInv'
  BY DEF vars, roster, tables, requestVars, IInv, TypeOK, LedgerTypeOK, JobOK, SweepOK, IntentOK,
         SubmissionOK, VerifiedIsStored, SubmittedOnce, UploaderIsOwner, OneSlotPerTarget,
         Issued, Active
<1> QED BY <1>1, BrowserStep, ServerStep, CleanerStep, WorldStep DEF Next

\* Every reachable state of the feature satisfies the invariant.
THEOREM Invariance == Spec => []IInv
BY InitInvariant, StepInvariant, PTL DEF Spec

-----------------------------------------------------------------------------
(* The properties *)

\* Types: the rows, the store and the local variables stay within their domains.
THEOREM TypeCorrect == Spec => []TypeOK
BY Invariance, PTL DEF IInv

\* Every accepted file stays in the store, with the content that was hashed.
THEOREM FileKept == Spec => []SubmittedFileKept
<1>1. IInv => SubmittedFileKept
  BY DEF IInv, TypeOK, LedgerTypeOK, SubmissionRow, SubmittedFileKept, SubmissionOK, SubmittedOnce,
         VerifiedIsStored, IntentOK
<1> QED BY <1>1, Invariance, PTL

\* One submission per target, per key and per upload, all or nothing.
THEOREM Once == Spec => []SubmittedOnce
BY Invariance, PTL DEF IInv

\* What was cancelled, displaced or claimed is never submitted.
THEOREM RetiredStaysOut == Spec => []RetiredNeverSubmitted
<1>1. IInv => RetiredNeverSubmitted
  BY DEF IInv, TypeOK, LedgerTypeOK, SubmissionRow, RetiredNeverSubmitted, SubmittedOnce, IntentOK
<1> QED BY <1>1, Invariance, PTL

\* Nothing is accepted after its upload's expiry, or after the deadline.
THEOREM InTime == Spec => []AcceptedInTime
<1>1. IInv => AcceptedInTime
  BY DEF IInv, TypeOK, LedgerTypeOK, SubmissionRow, AcceptedInTime, SubmissionOK, SubmittedOnce,
         IntentOK, Issued
<1> QED BY <1>1, Invariance, PTL

\* A target has one upload slot, a request id one upload.
THEOREM OneSlot == Spec => []OneSlotPerTarget
BY Invariance, PTL DEF IInv

\* The uploader is the student's account as long as the upload exists.
THEOREM OwnerBound == Spec => []UploaderIsOwner
BY Invariance, PTL DEF IInv

\* The invariants of the tables, together (the ledger's and the submissions' functions).
THEOREM Invariants == Spec => []SubmissionsSound
BY TypeCorrect, FileKept, Once, InTime, OwnerBound, PTL DEF SubmissionsSound

\* What was verified is what is stored until a claim.
THEOREM Verified == Spec => []VerifiedIsStored
BY Invariance, PTL DEF IInv

\* Which steps change the store, and how.
LEMMA StoreStep ==
  ASSUME IInv, [Next]_vars
  PROVE  \/ blob' = blob
         \/ \E i \in Intent, f \in File : blob[i] = None /\ blob' = [blob EXCEPT ![i] = f]
                                          /\ UNCHANGED tables
         \/ \E i \in Intent : ledger[i].claimed /\ blob' = [blob EXCEPT ![i] = None]
                              /\ UNCHANGED tables
<1>1. ASSUME NEW i \in Intent, NEW f \in File, LandPut(i, f)
      PROVE  \/ blob' = blob
             \/ blob[i] = None /\ blob' = [blob EXCEPT ![i] = f] /\ UNCHANGED tables
  BY <1>1 DEF LandPut, Stored, IInv, TypeOK
<1>2. ASSUME NEW w \in Worker, Delete(w) \/ SkipRow(w)
      PROVE  \/ blob' = blob
             \/ \E i \in Intent : ledger[i].claimed /\ blob' = [blob EXCEPT ![i] = None]
                                  /\ UNCHANGED tables
  BY <1>2 DEF Delete, SkipRow, IInv, SweepOK
<1>3. ASSUME Browser PROVE blob' = blob \/ \E i \in Intent, f \in File : LandPut(i, f)
  BY <1>3 DEF Browser, CreateIntent, GrantToken, Cancel, StartPut, LosePut, Receipt, requestVars
<1>4. ASSUME Server PROVE blob' = blob
  BY <1>4 DEF Server, StartVerify, StartFinalize, TryReplay, Authorize, HeadBlob, GetBlob, Persist,
              Recheck, Finalize, Abandon, LocalStep, requestVars
<1>5. ASSUME Cleaner PROVE blob' = blob \/ \E w \in Worker : Delete(w) \/ SkipRow(w)
  BY <1>5 DEF Cleaner, Select, Claim, Inspect, Mark, EndSweep, CleanStep, requestVars
<1>6. ASSUME World PROVE blob' = blob
  BY <1>6 DEF World, requestVars
<1>7. ASSUME UNCHANGED vars PROVE blob' = blob
  BY <1>7 DEF vars, requestVars
<1> QED BY <1>1, <1>2, <1>3, <1>4, <1>5, <1>6, <1>7 DEF Next

\* An object disappears only after a claim, past expiry and grace.
THEOREM DeletionClaimed == Spec => DeleteOnlyClaimed
<1>1. ASSUME IInv, [Next]_vars, NEW i \in Intent, blob[i] # None, blob'[i] = None
      PROVE  ledger[i].claimed /\ intents[i].expires + Grace <= now
  <2>1. ledger[i].claimed
    BY <1>1, StoreStep DEF IInv, TypeOK
  <2> QED BY <2>1, <1>1 DEF IInv, IntentOK
<1>2. IInv /\ [Next]_vars =>
        [\A i \in Intent : blob[i] # None /\ blob'[i] = None =>
           ledger[i].claimed /\ intents[i].expires + Grace <= now]_vars
  BY <1>1
<1> QED BY <1>2, Invariance, PTL DEF Spec, DeleteOnlyClaimed

\* Which steps change the submissions: a finalization, alone.
LEMMA SubmissionStep ==
  ASSUME IInv, [Next]_vars
  PROVE  \/ submissions' = submissions
         \/ blob' = blob /\ \E t \in Target, u \in User, i \in Intent, k \in Key : Complete(t, u, i, k)
<1>1. ASSUME NEW h \in Handler, Finalize(h)
      PROVE  \/ submissions' = submissions
             \/ blob' = blob /\ \E t \in Target, u \in User, i \in Intent, k \in Key : Complete(t, u, i, k)
  <2>1. /\ job[h].target \in Target /\ job[h].user \in User
        /\ job[h].intent \in Intent /\ job[h].key \in Key
    BY <1>1 DEF Finalize, IInv, JobOK
  <2> QED BY <1>1, <2>1 DEF Finalize, tables, requestVars
<1>2. ASSUME Browser PROVE submissions' = submissions
  BY <1>2 DEF Browser, CreateIntent, IssueNew, GrantToken, Cancel, CancelUpload, StartPut, LandPut,
              LosePut, Receipt, ReceiveUpload, tables
<1>3. ASSUME Server PROVE submissions' = submissions \/ \E h \in Handler : Finalize(h)
  BY <1>3 DEF Server, StartVerify, StartFinalize, TryReplay, Authorize, HeadBlob, GetBlob, Persist,
              VerifyUpload, Recheck, Abandon, LocalStep, tables
<1>4. ASSUME Cleaner PROVE submissions' = submissions
  BY <1>4 DEF Cleaner, Select, Claim, ClaimCleanup, Inspect, Delete, Mark, SkipRow, EndSweep, tables
<1>5. ASSUME World PROVE submissions' = submissions
  BY <1>5 DEF World, Tick, CloseAssignment, EndEnrollment, ChangeRole, Rebind, tables
<1>6. ASSUME UNCHANGED vars PROVE submissions' = submissions
  BY <1>6 DEF vars, tables
<1> QED BY <1>1, <1>2, <1>3, <1>4, <1>5, <1>6 DEF Next

\* The feature implements its contract: a step accepts once, changes only what
\* was never accepted, or is invisible.
THEOREM Refinement == Spec => ImplementsContract
<1>1. Init => Contract!Init
  BY DEF Init, LedgerInit, Contract!Init
<1>2. ASSUME IInv, [Next]_vars PROVE [Contract!Next]_<<submissions, blob>>
  <2>1. CASE submissions' = submissions /\ blob' = blob
    BY <2>1
  <2>2. ASSUME NEW i \in Intent, NEW c \in File \cup {None}, blob' = [blob EXCEPT ![i] = c],
               UNCHANGED tables, blob[i] = None \/ ledger[i].claimed
        PROVE  Contract!Next
    <3>1. \A s \in submissions : s.intent # i
      BY <1>2, <2>2 DEF IInv, TypeOK, LedgerTypeOK, SubmissionRow, SubmittedOnce, IntentOK,
                       VerifiedIsStored
    <3>2. Contract!Change(i, c)
      BY <2>2, <3>1 DEF Contract!Change, tables
    <3> QED BY <3>2 DEF Contract!Next
  <2>3. ASSUME NEW t \in Target, NEW u \in User, NEW i \in Intent, NEW k \in Key,
               Complete(t, u, i, k), blob' = blob
        PROVE  Contract!Next
    <3> DEFINE new == [target |-> t, user |-> u, intent |-> i, key |-> k,
                       file |-> intents[i].file, at |-> now]
    <3>1. Accepts(t, u, i, k) /\ now \in Nat
      BY <1>2, <2>3, CompleteAccepts DEF IInv, TypeOK, LedgerTypeOK
    <3>2. new \in SubmissionRow /\ submissions' = submissions \cup {new}
      BY <3>1 DEF Accepts, SubmissionRow
    <3>3. /\ \A old \in submissions : ~Contract!ForSame(old, new)
          /\ blob[new.intent] = new.file
      BY <3>1 DEF Accepts, Contract!ForSame
    <3>4. Contract!Accept
      BY <2>3, <3>2, <3>3 DEF Contract!Accept
    <3> QED BY <3>4 DEF Contract!Next
  <2> QED BY <1>2, <2>1, <2>2, <2>3, StoreStep, SubmissionStep DEF tables
<1> QED BY <1>1, <1>2, Invariance, PTL DEF Spec, ImplementsContract, Contract!Spec


-----------------------------------------------------------------------------
(* Submit flows: the inductive invariants.                                 *)

\* Verified by the server, whatever came of it.
Verifieds == {"VERIFIED", "CONSUMED"}

Kinds == {"create", "cancel", "verify", "final", "put"}

ScreenRow == [pc : Pc, cmd : {"new", "resume", "cancel"}, rec : Record \union {None},
              id : Intent \union {None}, aborted : BOOLEAN, last : BOOLEAN, void : BOOLEAN]

FlowShape ==
  /\ LedgerTypeOK
  /\ used \subseteq Intent /\ stored \subseteq used
  /\ disk \in Record \union {None} /\ (disk # None => disk.id \in used)
  /\ late \subseteq Kinds \X used
  /\ left \in [crashes : Nat, ticks : Nat]
  /\ known \subseteq used /\ out \subseteq used /\ dropped \subseteq used
  /\ screen \in [Screen -> ScreenRow]

\* The queue of the record's store holds the screens that wait for it, once each.
Queue ==
  /\ line \in Seq(Screen)
  /\ \A s \in Screen : screen[s].pc \in OfStore <=> \E n \in DOMAIN line : line[n] = s
  /\ \A m, n \in DOMAIN line : line[m] = line[n] => m = n

\* What a flow has at hand at each of its awaits; its ids are among those used.
PlaceOK(r, ids) ==
  /\ r.id \in ids \union {None}
  /\ r.rec # None => r.rec.id \in ids
  /\ r.id # None /\ r.rec # None => r.rec.id = r.id
  /\ r.pc \in {"create", "save", "undo", "token", "put"} => r.id # None
  /\ r.pc \in {"idle", "read", "tidy", "reset", "forget"} => r.id = None
  /\ r.pc \in {"idle", "read", "tidy", "create"} => r.rec = None
  /\ r.pc \notin {"idle", "read", "tidy", "create", "wipe"} => r.rec # None
  /\ r.pc \in {"mark", "final", "clear"} => Finalizing(r)
  /\ r.pc \in {"save", "undo", "token", "put", "verify", "refused", "erase"} => ~Finalizing(r)

LedgerOK ==
  /\ \A i \in Intent : Issued(i) => i \in used
  /\ \A i \in Intent : ledger[i].retired => Issued(i)
  /\ \A i \in Intent : intents[i].state \in Verifieds => intents[i].file \in File
  /\ \A x \in submissions : /\ x.target = target
                             /\ intents[x.intent].state = "CONSUMED" /\ ~ledger[x.intent].retired

\* So much for a record in memory; PhaseIsVerified says it of the one on disk.
FinalOK ==
  \A s \in Screen : Finalizing(screen[s]) => intents[screen[s].rec.id].state \in Verifieds

\* A request about i that was given up may still have it verified or accepted.
Asked(i) == <<"verify", i>> \in late \/ <<"final", i>> \in late

\* Nobody can have attempt i verified or accepted any more, unless a flow still does not
\* know that it was issued.
Unrecorded(i) ==
  /\ intents[i].state \notin Verifieds
  /\ disk # None => disk.id # i
  /\ \A s \in Screen : screen[s].rec # None => screen[s].rec.id # i
  /\ ~Asked(i)

OutOK == \A i \in out : ledger[i].retired \/ (Unrecorded(i) /\ \A s \in Screen : screen[s].id # i)

\* A flow that is about to erase the record and report a cancellation.
WipeOK(r) ==
  /\ r.pc = "create" => Unrecorded(r.id)
  /\ r.pc = "erase" => ledger[r.rec.id].retired
  /\ r.pc = "wipe" /\ r.rec # None => ledger[r.rec.id].retired
  /\ r.pc = "wipe" /\ r.rec = None /\ r.id # None => ledger[r.id].retired \/ Unrecorded(r.id)

\* An attempt belongs to one flow.
OneId == \A s, x \in Screen : screen[s].id = screen[x].id /\ screen[s].id # None => s = x

FlowInv ==
  /\ FlowShape /\ Queue
  /\ \A s \in Screen : PlaceOK(screen[s], used) /\ WipeOK(screen[s])
  /\ LedgerOK /\ PhaseIsVerified /\ FinalOK /\ OutOK /\ OneId

USE FlowAssumption

-----------------------------------------------------------------------------
(* What a request does to the ledger.                                      *)

\* The requests D took effect.
Moved(D) ==
  /\ LedgerTypeOK' /\ LedgerOK'
  /\ \A i \in Intent :
       /\ ledger[i].retired => ledger'[i].retired
       /\ intents[i].state \in Verifieds => intents'[i].state \in Verifieds
       /\ intents[i].state \notin Verifieds => intents'[i].state \notin Verifieds \/ <<"verify", i>> \in D
  /\ \A i \in Accepted' : i \in Accepted \/ <<"final", i>> \in D
  /\ \A m \in D : /\ m[1] = "cancel" => ledger'[m[2]].retired
                  /\ m[1] = "verify" => intents'[m[2]].state \in Verifieds

\* The one target, student, file and size of the flow are among the server's.
LEMMA Chosen ==
  target \in Target /\ user \in User /\ file \in File /\ The(Size) \in Size
  BY DEF target, user, file, The

\* The ledger's row of an attempt changes, or its row of the authorizations does.
LEMMA CreateMoves ==
  ASSUME FlowShape, LedgerOK, used' = used, NEW i \in used, Create(i)
  PROVE  Moved({<<"create", i>>})
<1>1. i \in Intent /\ i \in Request BY DEF FlowShape
<1>2. IssueNew(i, target, user, The(Size), i) BY DEF Create
<1>3. IntentExpiry \in Nat BY DEF FlowShape, LedgerTypeOK, IntentExpiry
<1>4. [state |-> "INTENDED", target |-> target, user |-> user, expires |-> IntentExpiry, file |-> None] \in IntentRow
  BY <1>3, Chosen DEF IntentRow, UploadState
<1>5. [NoLedgerRow EXCEPT !.request = i, !.declared = The(Size)] \in LedgerRow
  BY <1>1, Chosen DEF NoLedgerRow, LedgerRow
<1>6. ASSUME NEW j \in Intent PROVE /\ [ledger[j] EXCEPT !.retired = TRUE] \in LedgerRow
                                    /\ [ledger[j] EXCEPT !.retired = TRUE].retired
  <2>1. ledger[j] \in LedgerRow BY DEF FlowShape, LedgerTypeOK
  <2> QED BY <2>1 DEF LedgerRow
<1>7. ledger' \in [Intent -> LedgerRow]
  BY <1>2, <1>5, <1>6 DEF IssueNew, LedgerAfterIssue, FlowShape, LedgerTypeOK
<1>8. intents' \in [Intent -> IntentRow] BY <1>2, <1>4 DEF IssueNew, FlowShape, LedgerTypeOK
<1>9. LedgerTypeOK' BY <1>2, <1>7, <1>8 DEF IssueNew, FlowShape, LedgerTypeOK, roster
<1>10. \A j \in Intent : /\ j # i => intents'[j] = intents[j]
                         /\ intents'[i].state = "INTENDED" /\ intents[i].state = "NONE"
  BY <1>1, <1>2 DEF IssueNew, FlowShape, LedgerTypeOK, Issued
<1>11. \A j \in Intent : /\ ledger[j].retired => ledger'[j].retired
                         /\ ledger'[j].retired => ledger[j].retired \/ (Issued(j) /\ j # i)
  <2>1. ~ledger[i].retired BY <1>1, <1>10 DEF LedgerOK, Issued
  <2>2. ~ledger'[i].retired BY <1>1, <1>2, <1>5 DEF IssueNew, LedgerAfterIssue, NoLedgerRow
  <2>3. ASSUME NEW j \in Intent, j # i
        PROVE  ledger'[j] = IF Active(j, target) THEN [ledger[j] EXCEPT !.retired = TRUE] ELSE ledger[j]
    BY <1>2, <2>3 DEF IssueNew, LedgerAfterIssue
  <2> QED BY <1>1, <1>6, <2>1, <2>2, <2>3 DEF Active
<1>12. submissions' = submissions /\ submissions = {}
  <2>1. submissions' = submissions BY <1>2 DEF IssueNew
  <2>2. submissions = {} BY <1>2 DEF IssueNew, Submitted, LedgerOK
  <2> QED BY <2>1, <2>2
<1>13. LedgerOK' BY <1>1, <1>10, <1>11, <1>12 DEF LedgerOK, Issued, Verifieds
<1> QED BY <1>1, <1>9, <1>10, <1>11, <1>12, <1>13 DEF Moved, Accepted, Verifieds

\* CancelUpload retires the ledger row, and leaves what was submitted.
LEMMA RetireMoves ==
  ASSUME FlowShape, LedgerOK, used' = used, NEW i \in used, Retire(i)
  PROVE  Moved({<<"cancel", i>>})
<1>1. i \in Intent BY DEF FlowShape
<1>2. CancelUpload(i, user) BY DEF Retire
<1>3. ledger[i] \in LedgerRow /\ ledger' = [ledger EXCEPT ![i].retired = TRUE]
  BY <1>1, <1>2 DEF CancelUpload, FlowShape, LedgerTypeOK
<1>4. [ledger[i] EXCEPT !.retired = TRUE] \in LedgerRow BY <1>3 DEF LedgerRow
<1>5. LedgerTypeOK' BY <1>1, <1>2, <1>3, <1>4 DEF CancelUpload, FlowShape, LedgerTypeOK, roster
<1>6. \A j \in Intent : ledger'[j].retired <=> ledger[j].retired \/ j = i
  BY <1>1, <1>3 DEF FlowShape, LedgerTypeOK, LedgerRow
<1>7. UNCHANGED <<intents, submissions>> /\ Issued(i) /\ ~ \E x \in submissions : x.intent = i
  BY <1>2 DEF CancelUpload, Unreferenced
<1>8. \A x \in submissions : x.intent \in Intent BY DEF FlowShape, LedgerTypeOK, SubmissionRow
<1>9. LedgerOK' BY <1>6, <1>7, <1>8 DEF LedgerOK, Issued
<1> QED BY <1>1, <1>5, <1>6, <1>7, <1>9 DEF Moved, Accepted

\* VerifyUpload has the state and the file of the row it names.
LEMMA VerifyMoves ==
  ASSUME FlowShape, LedgerOK, used' = used, NEW i \in used, Verify(i)
  PROVE  Moved({<<"verify", i>>})
<1>1. i \in Intent BY DEF FlowShape
<1>2. VerifyUpload(i, user, file) BY DEF Verify
<1>3. /\ ledger[i] \in LedgerRow /\ ledger' = [ledger EXCEPT ![i].etag = file]
      /\ intents[i] \in IntentRow
      /\ intents' = [intents EXCEPT ![i] = [@ EXCEPT !.state = "VERIFIED", !.file = file]]
      /\ Issued(i) /\ intents[i].state # "CONSUMED"
  BY <1>1, <1>2 DEF VerifyUpload, Authorized, FlowShape, LedgerTypeOK
<1>4. [ledger[i] EXCEPT !.etag = file] \in LedgerRow BY <1>3, Chosen DEF LedgerRow
<1>5. [intents[i] EXCEPT !.state = "VERIFIED", !.file = file] \in IntentRow BY <1>3, Chosen DEF IntentRow, UploadState
<1>6. LedgerTypeOK' BY <1>1, <1>2, <1>3, <1>4, <1>5 DEF VerifyUpload, FlowShape, LedgerTypeOK, roster
<1>7. \A j \in Intent : ledger'[j].retired <=> ledger[j].retired
  BY <1>1, <1>3 DEF FlowShape, LedgerTypeOK, LedgerRow
<1>8. /\ \A j \in Intent : j # i => intents'[j] = intents[j]
      /\ intents'[i].state = "VERIFIED" /\ intents'[i].file = file
  BY <1>1, <1>3 DEF FlowShape, LedgerTypeOK, IntentRow
<1>9. submissions' = submissions BY <1>2 DEF VerifyUpload
<1>10. \A x \in submissions : x.intent \in Intent BY DEF FlowShape, LedgerTypeOK, SubmissionRow
<1>11. LedgerOK' BY <1>1, <1>3, <1>7, <1>8, <1>9, <1>10, Chosen DEF LedgerOK, Issued
<1> QED BY <1>1, <1>6, <1>7, <1>8, <1>9, <1>11 DEF Moved, Accepted, Verifieds

\* A request that changes nothing.
LEMMA StillMoves ==
  ASSUME FlowShape, LedgerOK, used \subseteq used', Unchanged
  PROVE  Moved({}) /\ \A i : Moved({<<"final", i>>})
<1>1. UNCHANGED <<now, status, owner, members, enrolled, intents, ledger, submissions>> BY DEF Unchanged, server
<1>2. LedgerTypeOK' BY <1>1 DEF FlowShape, LedgerTypeOK
<1>3. LedgerOK' BY <1>1 DEF LedgerOK, Issued
<1>4. ASSUME NEW D, \A m \in D : m[1] = "final" PROVE Moved(D) BY <1>1, <1>2, <1>3, <1>4 DEF Moved, Accepted
<1>5. ASSUME NEW i PROVE Moved({<<"final", i>>})
  <2>1. \A m \in {<<"final", i>>} : m[1] = "final" OBVIOUS
  <2> QED BY <1>4, <2>1
<1> QED BY <1>4, <1>5

\* A finalization: replayed, or committed of a verified upload that is not retired.
LEMMA SubmitMoves ==
  ASSUME FlowShape, LedgerOK, used' = used, NEW i \in used, Submit(i)
  PROVE  Moved({<<"final", i>>})
<1>1. i \in Intent /\ i \in Key BY DEF FlowShape
<1>2. CASE UNCHANGED <<now, server>>
  <2>1. Unchanged BY <1>2 DEF Unchanged
  <2> QED BY <2>1, StillMoves
<1>3. CASE Authorized(i, user) /\ Complete(target, user, i, i)
  <2>1. /\ intents[i].state = "VERIFIED" /\ ~ledger[i].retired
        /\ submissions' = submissions \cup {[target |-> target, user |-> user, intent |-> i, key |-> i,
                                             file |-> intents[i].file, at |-> now]}
        /\ intents' = [intents EXCEPT ![i].state = "CONSUMED"]
        /\ UNCHANGED <<now, roster, ledger>>
    BY <1>3 DEF Complete, FinalGuard
  <2>2. intents[i] \in IntentRow /\ intents[i].file \in File /\ now \in Nat
    BY <1>1, <2>1 DEF FlowShape, LedgerTypeOK, LedgerOK, Verifieds
  <2>3. [intents[i] EXCEPT !.state = "CONSUMED"] \in IntentRow BY <2>2 DEF IntentRow, UploadState
  <2>4. PICK new \in SubmissionRow : /\ submissions' = submissions \cup {new}
                                     /\ new.target = target /\ new.intent = i
    <3>1. [target |-> target, user |-> user, intent |-> i, key |-> i, file |-> intents[i].file, at |-> now]
            \in SubmissionRow
      BY <1>1, <2>2, Chosen DEF SubmissionRow
    <3> QED BY <2>1, <3>1
  <2>5. LedgerTypeOK' BY <1>1, <2>1, <2>3, <2>4 DEF FlowShape, LedgerTypeOK, roster
  <2>6. /\ \A j \in Intent : j # i => intents'[j] = intents[j]
        /\ intents'[i].state = "CONSUMED" /\ intents'[i].file = intents[i].file
    BY <1>1, <2>1, <2>2 DEF FlowShape, LedgerTypeOK, IntentRow
  <2>7. \A x \in submissions : x.intent \in Intent BY DEF FlowShape, LedgerTypeOK, SubmissionRow
  <2>8. LedgerOK' BY <1>1, <2>1, <2>2, <2>4, <2>6, <2>7 DEF LedgerOK, Issued
  <2> QED BY <1>1, <2>1, <2>4, <2>5, <2>6, <2>8 DEF Moved, Accepted, Verifieds
<1> QED BY <1>2, <1>3 DEF Submit

\* Every request, when it takes effect.
LEMMA EffectMoves ==
  ASSUME FlowShape, LedgerOK, used' = used, NEW m \in {"create", "cancel", "verify", "final"} \X used, Effect(m)
  PROVE  Moved({m})
<1>1. m = <<m[1], m[2]>> /\ m[2] \in used /\ m[1] \in {"create", "cancel", "verify", "final"} OBVIOUS
<1>2. CASE m[1] = "create" BY <1>1, <1>2, CreateMoves DEF Effect
<1>3. CASE m[1] = "cancel" BY <1>1, <1>3, RetireMoves DEF Effect
<1>4. CASE m[1] = "verify" BY <1>1, <1>4, VerifyMoves DEF Effect
<1>5. CASE m[1] = "final" BY <1>1, <1>5, SubmitMoves DEF Effect
<1> QED BY <1>1, <1>2, <1>3, <1>4, <1>5

-----------------------------------------------------------------------------
(* What a step of a screen does to the screens and to the queue.           *)

\* The same flow at the same place; a write of it may have become void.
SameFlow(q, r) ==
  /\ q.pc = r.pc /\ q.rec = r.rec /\ q.id = r.id /\ q.aborted = r.aborted
  /\ q.cmd = r.cmd /\ q.last = r.last

\* Set changes the row of its own screen, and of the others at most whether a write is void.
LEMMA SetFields ==
  ASSUME screen \in [Screen -> ScreenRow], NEW s \in Screen, NEW r \in ScreenRow, Set(s, r)
  PROVE  /\ screen' \in [Screen -> ScreenRow]
         /\ SameFlow(screen'[s], r) /\ screen'[s].void = FALSE
         /\ \A x \in Screen \ {s} : SameFlow(screen'[x], screen[x])
<1>1. PICK q \in ScreenRow : q = [r EXCEPT !.void = FALSE] /\ SameFlow(q, r) /\ q.void = FALSE
  <2>1. /\ [r EXCEPT !.void = FALSE] \in ScreenRow /\ [r EXCEPT !.void = FALSE].void = FALSE
        /\ SameFlow([r EXCEPT !.void = FALSE], r)
    BY DEF ScreenRow, SameFlow
  <2> QED BY <2>1
<1>2. screen'[s] = q BY <1>1 DEF Set
<1>3. ASSUME NEW x \in Screen \ {s}
      PROVE  screen'[x] \in ScreenRow /\ SameFlow(screen'[x], screen[x])
  <2>1. screen[x] \in ScreenRow OBVIOUS
  <2>2. [screen[x] EXCEPT !.void = TRUE] \in ScreenRow /\ SameFlow([screen[x] EXCEPT !.void = TRUE], screen[x])
    BY <2>1 DEF ScreenRow, SameFlow
  <2>3. screen'[x] = screen[x] \/ screen'[x] = [screen[x] EXCEPT !.void = TRUE] BY DEF Set
  <2>4. SameFlow(screen[x], screen[x]) BY DEF SameFlow
  <2> QED BY <2>1, <2>2, <2>3, <2>4
<1>4. screen' = [x \in Screen |-> screen'[x]] BY DEF Set
<1>5. \A x \in Screen : screen'[x] \in ScreenRow BY <1>1, <1>2, <1>3
<1>6. screen' \in [Screen -> ScreenRow] BY <1>4, <1>5
<1> QED BY <1>1, <1>2, <1>3, <1>6

\* Sequences without repetition.
NoRepeat(q) == \A m, n \in DOMAIN q : q[m] = q[n] => m = n
In(x, q) == \E n \in DOMAIN q : q[n] = x

\* The head leaves a sequence without repetition.
LEMMA HeadLeaves ==
  ASSUME NEW S, NEW q \in Seq(S), q # <<>>, NoRepeat(q)
  PROVE  /\ Tail(q) \in Seq(S) /\ NoRepeat(Tail(q))
         /\ \A x : In(x, Tail(q)) <=> In(x, q) /\ x # Head(q)
<1>1. /\ Tail(q) \in Seq(S) /\ Len(Tail(q)) = Len(q) - 1 /\ Len(q) \in Nat \ {0}
      /\ \A n \in 1..Len(Tail(q)) : Tail(q)[n] = q[n + 1]
  BY HeadTailProperties
<1>2. DOMAIN q = 1..Len(q) /\ DOMAIN Tail(q) = 1..(Len(q) - 1) /\ Head(q) = q[1] BY <1>1
<1>3. NoRepeat(Tail(q)) BY <1>1, <1>2 DEF NoRepeat
<1>4. ASSUME NEW x, In(x, Tail(q)) PROVE In(x, q) /\ x # Head(q)
  <2>1. PICK n \in 1..(Len(q) - 1) : q[n + 1] = x BY <1>1, <1>2, <1>4 DEF In
  <2>2. n + 1 \in DOMAIN q /\ 1 \in DOMAIN q /\ n + 1 # 1 BY <1>1, <1>2
  <2> QED BY <1>2, <2>1, <2>2 DEF In, NoRepeat
<1>5. ASSUME NEW x, In(x, q), x # Head(q) PROVE In(x, Tail(q))
  <2>1. PICK n \in DOMAIN q : q[n] = x BY <1>5 DEF In
  <2>2. n - 1 \in 1..Len(Tail(q)) /\ (n - 1) + 1 = n BY <1>1, <1>2, <1>5, <2>1
  <2> QED BY <1>1, <1>2, <2>1, <2>2 DEF In
<1> QED BY <1>1, <1>3, <1>4, <1>5

\* One that is not in it joins at its end.
LEMMA LastJoins ==
  ASSUME NEW S, NEW q \in Seq(S), NEW x \in S, NoRepeat(q), ~In(x, q)
  PROVE  /\ q \o <<x>> \in Seq(S) /\ NoRepeat(q \o <<x>>)
         /\ \A y : In(y, q \o <<x>>) <=> In(y, q) \/ y = x
<1>1. PICK p \in Seq(S) : p = q \o <<x>> /\ p = Append(q, x)
  <2>1. Append(q, x) = q \o <<x>> /\ Append(q, x) \in Seq(S) BY AppendIsConcat, AppendProperties
  <2> QED BY <2>1
<1>2. Len(p) = Len(q) + 1 /\ (\A n \in 1..Len(q) : p[n] = q[n]) /\ p[Len(q) + 1] = x
  BY <1>1, AppendProperties
<1>3. Len(q) \in Nat /\ DOMAIN q = 1..Len(q) /\ DOMAIN p = 1..(Len(q) + 1) BY <1>2
<1>4. \A n \in DOMAIN p : n \in DOMAIN q \/ n = Len(q) + 1 BY <1>3
<1>5. NoRepeat(p)
  <2>1. \A n \in DOMAIN q : p[n] = q[n] /\ q[n] # x BY <1>2, <1>3 DEF In
  <2>2. \A m, n \in DOMAIN q : p[m] = p[n] => m = n BY <2>1 DEF NoRepeat
  <2> QED BY <1>2, <1>4, <2>1, <2>2 DEF NoRepeat
<1>6. \A y : In(y, p) <=> In(y, q) \/ y = x BY <1>2, <1>3, <1>4 DEF In
<1> QED BY <1>1, <1>5, <1>6

\* An operation leaves the queue at its head; the next one joins it at its end.
LEMMA SetQueue ==
  ASSUME screen \in [Screen -> ScreenRow], Queue, NEW s \in Screen, NEW r \in ScreenRow, Set(s, r),
         screen[s].pc \in OfStore => Head(line) = s
  PROVE  Queue'
<1>1. PICK rest \in Seq(Screen) :
        /\ line' = rest \o (IF r.pc \in OfStore THEN <<s>> ELSE <<>>)
        /\ NoRepeat(rest) /\ ~In(s, rest)
        /\ \A x \in Screen \ {s} : In(x, rest) <=> In(x, line)
  <2>1. line \in Seq(Screen) /\ NoRepeat(line) /\ \A x \in Screen : screen[x].pc \in OfStore <=> In(x, line)
    BY DEF Queue, NoRepeat, In
  <2>2. CASE screen[s].pc \notin OfStore BY <2>1, <2>2 DEF Set
  <2>3. CASE screen[s].pc \in OfStore
    <3>1. line # <<>> BY <2>1, <2>3 DEF In
    <3>2. Tail(line) \in Seq(Screen) /\ NoRepeat(Tail(line)) /\ \A x : In(x, Tail(line)) <=> In(x, line) /\ x # s
      BY <2>1, <2>3, <3>1, HeadLeaves
    <3>3. line' = Tail(line) \o (IF r.pc \in OfStore THEN <<s>> ELSE <<>>) BY <2>3 DEF Set
    <3> QED BY <3>2, <3>3
  <2> QED BY <2>2, <2>3
<1>2. /\ screen'[s].pc = r.pc /\ \A x \in Screen \ {s} : screen'[x].pc = screen[x].pc
  BY SetFields DEF SameFlow
<1>3. \A x \in Screen : screen[x].pc \in OfStore <=> In(x, line) BY DEF Queue, In
<1>4. line' \in Seq(Screen) /\ NoRepeat(line') /\ \A x \in Screen : screen'[x].pc \in OfStore <=> In(x, line')
  <2>1. CASE r.pc \notin OfStore
    <3>1. line' = rest BY <1>1, <2>1
    <3> QED BY <1>1, <1>2, <1>3, <2>1, <3>1
  <2>2. CASE r.pc \in OfStore
    <3>1. line' = rest \o <<s>> BY <1>1, <2>2
    <3>2. line' \in Seq(Screen) /\ NoRepeat(line') /\ \A y : In(y, line') <=> In(y, rest) \/ y = s
      BY <1>1, <3>1, LastJoins
    <3> QED BY <1>1, <1>2, <1>3, <2>2, <3>2
  <2> QED BY <2>1, <2>2
<1> QED BY <1>4 DEF Queue, NoRepeat, In

-----------------------------------------------------------------------------
(* What a step of a screen may do.                                         *)

\* A step of the flow on screen s in which the requests D take effect.
Does(s, D) ==
  /\ Moved(D)
  /\ \A i : <<"verify", i>> \in D \/ <<"final", i>> \in D => screen[s].rec # None /\ screen[s].rec.id = i
  /\ disk' \in {disk, None, screen[s].rec}
  /\ late' \subseteq Kinds \X used'
  /\ \A i : Asked(i)' => Asked(i) \/ (screen[s].rec # None /\ screen[s].rec.id = i)
  /\ used \subseteq used' /\ used' \subseteq Intent /\ stored' \subseteq used' /\ left' = left
  /\ known' \subseteq used' /\ out' \subseteq used' /\ dropped' \subseteq used'

\* The flow goes on with row q: its ids are its own, or those of the record it found or a
\* new one, and an attempt it reports as cancelled is one it names.
Follows(s, q) ==
  /\ q.id = None \/ q.id = screen[s].id \/ q.id \notin used
  /\ \/ q.rec \in {None, screen[s].rec, disk}
     \/ /\ screen[s].rec # None /\ q.rec = [screen[s].rec EXCEPT !.phase = "finalizing"]
        /\ intents'[screen[s].rec.id].state \in Verifieds
     \/ screen[s].pc = "create" /\ q.rec = [id |-> screen[s].id, phase |-> "verifying"]
  /\ \A i \in out' \ out : screen[s].pc = "wipe" /\ i \in Named(screen[s]) \ {None} /\ q.id = None

Acting(s, D) ==
  /\ Does(s, D) /\ Follows(s, screen'[s])
  /\ screen' \in [Screen -> ScreenRow] /\ Queue'
  /\ \A x \in Screen \ {s} : SameFlow(screen'[x], screen[x])

\* What such a step may leave on disk and in the memory of the screens.
Records(s) ==
  /\ disk' # None => disk' = disk \/ (screen[s].rec # None /\ disk' = screen[s].rec)
  /\ screen'[s].rec # None =>
       \/ screen'[s].rec = disk /\ disk # None
       \/ screen[s].rec # None /\ screen'[s].rec.id = screen[s].rec.id
            /\ (screen'[s].rec = screen[s].rec \/ intents'[screen[s].rec.id].state \in Verifieds)
       \/ /\ screen[s].pc = "create"
          /\ screen'[s].rec.id = screen[s].id /\ screen'[s].rec.phase = "verifying"
  /\ \A x \in Screen \ {s} : /\ screen'[x].rec = screen[x].rec /\ screen'[x].id = screen[x].id
                              /\ screen'[x].pc = screen[x].pc

\* A record on disk or in memory is an old one, or has the id of an old one.
LEMMA ActingRecords ==
  ASSUME FlowInv, NEW s \in Screen, NEW D, Acting(s, D)
  PROVE  Records(s)
<1>1. screen[s] \in ScreenRow BY DEF FlowInv, FlowShape
<1>2. screen[s].rec # None => screen[s].rec \in Record BY <1>1 DEF ScreenRow
<1>3. screen[s].rec # None => [screen[s].rec EXCEPT !.phase = "finalizing"].id = screen[s].rec.id
  BY <1>2 DEF Record
<1>4. [id |-> screen[s].id, phase |-> "verifying"].id = screen[s].id
      /\ [id |-> screen[s].id, phase |-> "verifying"].phase = "verifying"
  OBVIOUS
<1>5. disk' # None => disk' = disk \/ (screen[s].rec # None /\ disk' = screen[s].rec)
  BY DEF Acting, Does, Follows
<1>6. \A x \in Screen \ {s} : /\ screen'[x].rec = screen[x].rec /\ screen'[x].id = screen[x].id
                              /\ screen'[x].pc = screen[x].pc
  BY DEF Acting, Does, Follows, SameFlow
<1>7. \/ screen'[s].rec \in {None, screen[s].rec, disk}
      \/ /\ screen[s].rec # None /\ screen'[s].rec = [screen[s].rec EXCEPT !.phase = "finalizing"]
         /\ intents'[screen[s].rec.id].state \in Verifieds
      \/ screen[s].pc = "create" /\ screen'[s].rec = [id |-> screen[s].id, phase |-> "verifying"]
  BY DEF Acting, Does, Follows
<1> QED BY <1>3, <1>4, <1>5, <1>6, <1>7 DEF Records

\* What nobody can have verified or accepted stays so, if the step names it no more.
LEMMA ActingUnrecorded ==
  ASSUME FlowInv, NEW s \in Screen, NEW D, Acting(s, D), NEW i \in Intent, Unrecorded(i),
         screen'[s].rec # None => screen'[s].rec.id # i
  PROVE  Unrecorded(i)'
<1>1. screen[s].rec # None => screen[s].rec.id # i BY DEF Unrecorded
<1>7. Records(s) BY ActingRecords
<1>2. intents'[i].state \notin Verifieds BY <1>1 DEF Unrecorded, Acting, Does, Follows, Moved
<1>3. disk' # None => disk'.id # i BY <1>1, <1>7 DEF Records, Unrecorded
<1>5. \A x \in Screen : screen'[x].rec # None => screen'[x].rec.id # i
  BY <1>7 DEF Records, Unrecorded
<1>6. ~Asked(i)' BY <1>1 DEF Unrecorded, Acting, Does, Follows
<1> QED BY <1>2, <1>3, <1>5, <1>6 DEF Unrecorded

\* Such a step keeps the invariant, if its own flow has at hand what its next place needs.
LEMMA ActingInv ==
  ASSUME FlowInv, NEW s \in Screen, NEW D, Acting(s, D), PlaceOK(screen'[s], used'), WipeOK(screen[s])'
  PROVE  FlowInv'
<1>13. Records(s) BY ActingRecords
<1>1. /\ FlowShape /\ LedgerOK /\ PhaseIsVerified /\ FinalOK /\ OutOK /\ OneId
      /\ \A x \in Screen : PlaceOK(screen[x], used) /\ WipeOK(screen[x])
  BY DEF FlowInv
<1>2. \A x \in Screen : screen[x] \in ScreenRow /\ screen[x].id \in used \union {None}
  BY <1>1 DEF FlowShape, PlaceOK
<1>3. None \notin Intent /\ used \subseteq Intent BY <1>1 DEF FlowShape
<1>4. Moved(D) /\ used \subseteq used' /\ used' \subseteq Intent BY DEF Acting, Does, Follows
<1>5. screen[s].rec # None => screen[s].rec \in Record /\ screen[s].rec.id \in used
  BY <1>1, <1>2 DEF ScreenRow, PlaceOK
<1>6. FlowShape'
  <2>1. disk' \in Record \union {None} /\ (disk' # None => disk'.id \in used')
    BY <1>1, <1>4, <1>5, <1>13 DEF Records, FlowShape
  <2>2. late' \subseteq Kinds \X used' BY <1>4 DEF Acting, Does, Follows
  <2>3. left' \in [crashes : Nat, ticks : Nat] BY <1>1 DEF Acting, Does, Follows, FlowShape
  <2> QED BY <1>4, <2>1, <2>2, <2>3 DEF Acting, Does, Follows, FlowShape, Moved
<1>7. PhaseIsVerified'
  <2>1. \A i \in Intent : intents[i].state \in Verifieds => intents'[i].state \in Verifieds BY <1>4 DEF Moved
  <2>2. disk # None => disk.id \in Intent BY <1>1, <1>3 DEF FlowShape
  <2>3. screen[s].rec # None => screen[s].rec.id \in Intent BY <1>3, <1>5
  <2> QED BY <1>1, <2>1, <2>2, <2>3, <1>13 DEF Records, PhaseIsVerified, FinalOK, Finalizing, Verifieds
<1>8. FinalOK'
  <2>1. \A i \in Intent : intents[i].state \in Verifieds => intents'[i].state \in Verifieds BY <1>4 DEF Moved
  <2>2. disk # None => disk.id \in Intent BY <1>1, <1>3 DEF FlowShape
  <2>3. \A x \in Screen : screen[x].rec # None => screen[x].rec.id \in Intent BY <1>1, <1>3 DEF PlaceOK
  <2>4. ASSUME NEW x \in Screen \ {s}, Finalizing(screen[x])' PROVE intents'[screen'[x].rec.id].state \in Verifieds
    BY <1>1, <2>1, <2>3, <2>4, <1>13 DEF Records, FinalOK, Finalizing
  <2>5. ASSUME Finalizing(screen[s])' PROVE intents'[screen'[s].rec.id].state \in Verifieds
    BY <1>1, <2>1, <2>2, <2>3, <2>5, <1>13 DEF Records, FinalOK, Finalizing, PhaseIsVerified, Verifieds
  <2> QED BY <2>4, <2>5 DEF FinalOK
<1>9. OneId'
  <2>1. screen'[s].id = None \/ screen'[s].id = screen[s].id \/ screen'[s].id \notin used BY DEF Acting, Does, Follows
  <2>2. \A x \in Screen \ {s} : screen'[x].id = screen[x].id BY <1>13 DEF Records
  <2> QED BY <1>1, <1>2, <2>1, <2>2 DEF OneId
<1>10. \A x \in Screen : PlaceOK(screen'[x], used')
  <2>1. ASSUME NEW x \in Screen \ {s} PROVE PlaceOK(screen'[x], used')
    BY <1>1, <1>4, <1>13 DEF Records, PlaceOK, Finalizing
  <2> QED BY <2>1
<1>11. \A x \in Screen : WipeOK(screen[x])'
  <2>1. ASSUME NEW x \in Screen \ {s} PROVE WipeOK(screen[x])'
    <3>1. /\ screen'[x].rec = screen[x].rec /\ screen'[x].id = screen[x].id /\ screen'[x].pc = screen[x].pc
      BY <1>13 DEF Records
    <3>2. \A i \in Intent : ledger[i].retired => ledger'[i].retired BY <1>4 DEF Moved
    <3>3. ASSUME screen[x].id # None, Unrecorded(screen[x].id) PROVE Unrecorded(screen[x].id)'
      <4>1. PICK i \in Intent : i = screen[x].id BY <1>2, <1>3, <3>3
      <4>2. i # screen[s].id BY <1>1, <3>3, <4>1 DEF OneId
      <4>4. screen'[s].rec # None => screen'[s].rec.id # i BY <1>13, <3>3, <4>1, <4>2 DEF Records, Unrecorded
      <4>3. Unrecorded(i)' BY <3>3, <4>1, <4>4, ActingUnrecorded
      <4> QED BY <3>1, <4>1, <4>3
    <3>4. screen[x].pc = "create" => screen[x].id # None BY <1>1 DEF PlaceOK
    <3>5. /\ screen[x].rec # None => screen[x].rec.id \in Intent
          /\ screen[x].id # None => screen[x].id \in Intent
          /\ screen[x].pc = "erase" => screen[x].rec # None
      BY <1>1, <1>2, <1>3 DEF PlaceOK
    <3> QED BY <1>1, <3>1, <3>2, <3>3, <3>4, <3>5 DEF WipeOK
  <2> QED BY <2>1
<1>12. OutOK'
  <2>1. ASSUME NEW i \in out', ~ledger'[i].retired
        PROVE  Unrecorded(i)' /\ \A x \in Screen : screen'[x].id # i
    <3>1. i \in Intent /\ (ledger[i].retired => ledger'[i].retired)
      BY <1>4 DEF Acting, Does, Follows, Moved
    <3>2. CASE i \in out
      <4>1. Unrecorded(i) /\ (\A x \in Screen : screen[x].id # i) /\ i \in used
        BY <1>1, <2>1, <3>1, <3>2 DEF OutOK, FlowShape
      <4>4. screen'[s].rec # None => screen'[s].rec.id # i BY <1>13, <4>1 DEF Records, Unrecorded
      <4>2. Unrecorded(i)' BY <3>1, <4>1, <4>4, ActingUnrecorded
      <4>3. screen'[s].id # i BY <1>3, <4>1 DEF Acting, Does, Follows
      <4> QED BY <4>1, <4>2, <4>3, <1>13 DEF Records
    <3>3. CASE i \notin out
      <4>1. screen[s].pc = "wipe" /\ i \in Named(screen[s]) /\ i # None /\ screen'[s].id = None
        BY <2>1, <3>3 DEF Acting, Does, Follows
      <4>2. screen[s].rec = None /\ i = screen[s].id
        BY <1>1, <2>1, <3>1, <4>1 DEF WipeOK, PlaceOK, Named
      <4>3. Unrecorded(i) BY <1>1, <2>1, <3>1, <4>1, <4>2 DEF WipeOK
      <4>6. screen'[s].rec # None => screen'[s].rec.id # i BY <1>13, <4>1, <4>3 DEF Records, Unrecorded
      <4>4. Unrecorded(i)' BY <3>1, <4>1, <4>3, <4>6, ActingUnrecorded
      <4>5. \A x \in Screen \ {s} : screen'[x].id # i BY <1>1, <4>1, <4>2, <1>13 DEF Records, OneId
      <4> QED BY <4>1, <4>4, <4>5
    <3> QED BY <3>2, <3>3
  <2> QED BY <2>1 DEF OutOK
<1> QED BY <1>4, <1>6, <1>7, <1>8, <1>9, <1>10, <1>11, <1>12 DEF FlowInv, Moved, Acting, Does, Follows

-----------------------------------------------------------------------------
(* The rows a flow goes on with.                                           *)

\* The next row of a flow has at hand what its place needs.
Placed(s, q) ==
  /\ q \in ScreenRow /\ Follows(s, q) /\ PlaceOK(q, used')
  /\ q.pc = "create" => q.id \notin used
  /\ q.pc = "erase" => ledger'[q.rec.id].retired
  /\ q.pc = "wipe" /\ q.rec # None => ledger'[q.rec.id].retired
  /\ q.pc = "wipe" /\ q.rec = None /\ q.id # None => ledger'[q.id].retired \/ Unrecorded(q.id)

\* A step of a screen, as Set describes it, keeps the invariant.
LEMMA FlowStep ==
  ASSUME FlowInv, NEW s \in Screen, NEW D, Does(s, D), NEW q, Placed(s, q), Set(s, q),
         screen[s].pc \in OfStore => Head(line) = s
  PROVE  FlowInv'
<1>1. screen \in [Screen -> ScreenRow] /\ Queue /\ q \in ScreenRow BY DEF FlowInv, FlowShape, Placed
<1>2. /\ screen' \in [Screen -> ScreenRow] /\ SameFlow(screen'[s], q)
      /\ \A x \in Screen \ {s} : SameFlow(screen'[x], screen[x])
  BY <1>1, SetFields
<1>3. Queue' BY <1>1, SetQueue
<1>4. Follows(s, screen'[s]) BY <1>2 DEF Placed, Follows, SameFlow
<1>5. Acting(s, D) BY <1>2, <1>3, <1>4 DEF Acting
<1>6. PlaceOK(screen'[s], used') BY <1>2 DEF Placed, PlaceOK, SameFlow, Finalizing
<1>7. ASSUME q.rec = None, q.id # None, Unrecorded(q.id) PROVE Unrecorded(q.id)'
  <2>1. PICK i \in Intent : i = q.id
    BY <1>7 DEF Placed, PlaceOK, Does
  <2>2. screen'[s].rec = None BY <1>2, <1>7 DEF SameFlow
  <2>3. Unrecorded(i)' BY <1>5, <1>7, <2>1, <2>2, ActingUnrecorded
  <2> QED BY <2>1, <2>3
<1>8. q.pc = "create" => q.rec = None /\ q.id # None /\ Unrecorded(q.id)
  <2>1. ASSUME q.pc = "create" PROVE q.id \in Intent \ used /\ q.rec = None /\ q.id # None
    BY <1>1, <2>1 DEF Placed, PlaceOK, Does
  <2>2. ASSUME NEW i \in Intent \ used PROVE Unrecorded(i)
    <3>1. ~Issued(i) BY DEF FlowInv, LedgerOK
    <3>2. \A x \in Screen : screen[x].rec # None => screen[x].rec.id \in used BY DEF FlowInv, PlaceOK
    <3> QED BY <3>1, <3>2 DEF FlowInv, FlowShape, Unrecorded, Issued, Verifieds, Asked
  <2> QED BY <2>1, <2>2
<1>9. WipeOK(screen[s])'
  BY <1>2, <1>7, <1>8 DEF Placed, WipeOK, SameFlow
<1> QED BY <1>5, <1>6, <1>9, ActingInv

\* A request took effect, and the flow was told.
LEMMA AnsweredDoes ==
  ASSUME FlowInv, NEW s \in Screen, NEW m \in {"create", "cancel", "verify", "final"} \X used, Effect(m),
         m[1] \in {"verify", "final"} => screen[s].rec # None /\ screen[s].rec.id = m[2],
         UNCHANGED <<disk, late, stored, used, left, out, dropped>>, known' \subseteq used
  PROVE  Does(s, {m})
<1>1. FlowShape /\ LedgerOK /\ used' = used BY DEF FlowInv
<1>2. Moved({m}) BY <1>1, EffectMoves
<1>3. \A i : <<"verify", i>> \in {m} \/ <<"final", i>> \in {m} => screen[s].rec # None /\ screen[s].rec.id = i
  OBVIOUS
<1> QED BY <1>1, <1>2, <1>3 DEF Does, FlowShape, Asked

\* Nothing took effect on the server; a request given up may still do so.
LEMMA StillDoes ==
  ASSUME FlowInv, NEW s \in Screen, NEW L, Unchanged,
         L \subseteq Kinds \X used,
         \A m \in L : m[1] \in {"verify", "final"} => screen[s].rec # None /\ screen[s].rec.id = m[2],
         late' \subseteq late \union L,
         disk' \in {disk, None, screen[s].rec}, left' = left, stored' \subseteq used,
         used \subseteq used', used' \subseteq Intent,
         known' \subseteq used, out' \subseteq used, dropped' \subseteq used
  PROVE  Does(s, {})
<1>1. FlowShape /\ LedgerOK BY DEF FlowInv
<1>2. Moved({}) BY <1>1, StillMoves
<1>3. late' \subseteq Kinds \X used' BY <1>1 DEF FlowShape
<1>4. \A i : Asked(i)' => Asked(i) \/ (screen[s].rec # None /\ screen[s].rec.id = i) BY DEF Asked
<1> QED BY <1>1, <1>2, <1>3, <1>4 DEF Does

\* What is true of the row of a flow, and stays so if the flow goes on with ids of its own.
LEMMA RowAt ==
  ASSUME FlowInv, NEW s \in Screen
  PROVE  /\ screen[s] \in ScreenRow /\ PlaceOK(screen[s], used) /\ WipeOK(screen[s])
         /\ screen[s].rec # None => screen[s].rec \in Record /\ screen[s].rec.id \in used
         /\ used \subseteq Intent /\ None \notin used
         /\ FlowShape /\ LedgerOK
  BY DEF FlowInv, FlowShape, ScreenRow, PlaceOK

\* A flow that ends.
LEMMA IdlePlaced ==
  ASSUME NEW s \in Screen, out' = out PROVE Placed(s, Idle)
  BY DEF Placed, Idle, ScreenRow, Pc, Follows, PlaceOK, Finalizing

\* A flow whose cancellation begins: row r is its own, or holds the record it found.
LEMMA CancellingPlaced ==
  ASSUME FlowInv, NEW s \in Screen, NEW r \in ScreenRow, used \subseteq used', out' = out,
         r.id = screen[s].id, r.rec \in {None, screen[s].rec, disk},
         r.id # None /\ r.rec # None => r.rec.id = r.id,
         r.rec = None /\ r.id # None => ledger'[r.id].retired \/ Unrecorded(r.id)
  PROVE  Placed(s, Cancelling(r))
<1>1. PICK q \in ScreenRow : /\ q = Cancelling(r) /\ q.rec = r.rec /\ q.id = r.id
                             /\ q.pc = IF r.rec = None THEN "wipe" ELSE "cancel"
  <2>1. \A pc \in Pc : /\ [r EXCEPT !.pc = pc] \in ScreenRow /\ [r EXCEPT !.pc = pc].rec = r.rec
                       /\ [r EXCEPT !.pc = pc].id = r.id /\ [r EXCEPT !.pc = pc].pc = pc
    BY DEF ScreenRow
  <2> QED BY <2>1 DEF Cancelling, Pc
<1>2. r.rec # None => r.rec.id \in used BY RowAt DEF FlowShape
<1>3. r.id \in used \union {None} BY RowAt DEF PlaceOK
<1>4. Follows(s, q) BY <1>1 DEF Follows
<1>5. PlaceOK(q, used') BY <1>1, <1>2, <1>3 DEF PlaceOK, Finalizing
<1> QED BY <1>1, <1>4, <1>5 DEF Placed

\* The catch.
LEMMA ThrownPlaced ==
  ASSUME FlowInv, NEW s \in Screen, NEW r \in ScreenRow, used \subseteq used', out' = out,
         r.id = screen[s].id, r.rec \in {None, screen[s].rec, disk},
         r.id # None /\ r.rec # None => r.rec.id = r.id,
         r.rec = None /\ r.id # None => ledger'[r.id].retired \/ Unrecorded(r.id)
  PROVE  Placed(s, Thrown(r))
<1>1. PICK x \in ScreenRow : x = [r EXCEPT !.last = TRUE] /\ x.rec = r.rec /\ x.id = r.id
  <2>1. /\ [r EXCEPT !.last = TRUE] \in ScreenRow /\ [r EXCEPT !.last = TRUE].rec = r.rec
        /\ [r EXCEPT !.last = TRUE].id = r.id
    BY DEF ScreenRow
  <2> QED BY <2>1
<1>2. Placed(s, Cancelling(x)) BY <1>1, CancellingPlaced
<1>3. Placed(s, Idle) BY IdlePlaced
<1> QED BY <1>1, <1>2, <1>3 DEF Thrown

\* The catch, with the row as it is.
LEMMA ThrowPlaced ==
  ASSUME FlowInv, NEW s \in Screen, used \subseteq used', out' = out,
         \A i \in Intent : ledger[i].retired => ledger'[i].retired,
         screen[s].rec = None => screen[s].pc \in {"idle", "read", "tidy", "create", "wipe"}
  PROVE  Placed(s, Thrown(screen[s]))
<1>1. screen[s].rec = None /\ screen[s].id # None => ledger'[screen[s].id].retired \/ Unrecorded(screen[s].id)
  BY RowAt DEF PlaceOK, WipeOK
<1> QED BY <1>1, RowAt, ThrownPlaced DEF PlaceOK

-----------------------------------------------------------------------------
(* The steps of a flow, one by one.                                        *)

\* A row moved to another place.
LEMMA RowMoves ==
  ASSUME NEW r \in ScreenRow, NEW pc \in Pc
  PROVE  /\ [r EXCEPT !.pc = pc] \in ScreenRow /\ [r EXCEPT !.pc = pc].pc = pc
         /\ [r EXCEPT !.pc = pc].rec = r.rec /\ [r EXCEPT !.pc = pc].id = r.id
         /\ [r EXCEPT !.pc = pc].aborted = r.aborted
  BY DEF ScreenRow

\* A call that was not answered, or refused, and the flow goes on with q.
LEMMA UnansweredKeeps ==
  ASSUME FlowInv, NEW s \in Screen, NEW pc, NEW m \in (Kinds \ {"put"}) \X used, NEW q,
         Unanswered(s, pc, m) \/ Refused(s, pc), pc \notin OfStore,
         m[1] \in {"verify", "final"} => screen[s].rec # None /\ screen[s].rec.id = m[2],
         Calls, Silent, UNCHANGED stored, Set(s, q), Placed(s, q)
  PROVE  FlowInv'
<1>1. late' \subseteq late \union {m} BY DEF Unanswered, Refused, Lingering
<1>2. Unchanged /\ screen[s].pc = pc BY DEF Unanswered, Refused
<1>3. PICK L \in SUBSET (Kinds \X used) :
        /\ late' \subseteq late \union L
        /\ \A n \in L : n[1] \in {"verify", "final"} => screen[s].rec # None /\ screen[s].rec.id = n[2]
  <2>1. {m} \in SUBSET (Kinds \X used) OBVIOUS
  <2> QED BY <1>1, <2>1
<1>5. Does(s, {})
  <2>1. UNCHANGED <<disk, used, left, stored, known, out, dropped>> BY DEF Calls, Silent, report
  <2>2. /\ stored' \subseteq used /\ used' \subseteq Intent /\ used \subseteq used'
        /\ known' \subseteq used /\ out' \subseteq used /\ dropped' \subseteq used
    BY <2>1, RowAt DEF FlowShape
  <2> QED BY <1>2, <1>3, <2>1, <2>2, StillDoes
<1> QED BY <1>2, <1>5, FlowStep

\* The same, and the catch takes it.
LEMMA UnansweredThrown ==
  ASSUME FlowInv, NEW s \in Screen, NEW pc, NEW m \in (Kinds \ {"put"}) \X used,
         Unanswered(s, pc, m) \/ Refused(s, pc), pc \notin OfStore,
         m[1] \in {"verify", "final"} => screen[s].rec # None /\ screen[s].rec.id = m[2],
         Calls, Silent, UNCHANGED stored, Throw(s)
  PROVE  FlowInv'
<1>1. Unchanged BY DEF Unanswered, Refused
<1>2. Placed(s, Thrown(screen[s]))
  BY <1>1, RowAt, ThrowPlaced DEF PlaceOK, Calls, Silent, report, Unchanged, server
<1> QED BY <1>2, UnansweredKeeps DEF Throw

\* An answered call, and the flow goes on with q.
LEMMA AnsweredKeeps ==
  ASSUME FlowInv, NEW s \in Screen, NEW m \in (Kinds \ {"put"}) \X used, NEW q,
         Effect(m), screen[s].pc \notin OfStore,
         m[1] \in {"verify", "final"} => screen[s].rec # None /\ screen[s].rec.id = m[2],
         Calls, UNCHANGED <<late, stored, out, dropped>>, known' \subseteq used, Set(s, q), Placed(s, q)
  PROVE  FlowInv'
<1>1. m \in {"create", "cancel", "verify", "final"} \X used BY DEF Kinds
<1>2. Does(s, {m}) BY <1>1, AnsweredDoes DEF Calls
<1> QED BY <1>2, FlowStep

\* An operation of the record's store, and the flow goes on with q.
LEMMA StoreKeeps ==
  ASSUME FlowInv, NEW s \in Screen, NEW pc, NEW x \in {None, screen[s].rec}, NEW q,
         Stores(s, pc, x) \/ Fails(s, pc, x),
         known' \subseteq used, out' \subseteq used, dropped' \subseteq used, Set(s, q), Placed(s, q)
  PROVE  FlowInv'
<1>1. Unchanged /\ Head(line) = s /\ UNCHANGED <<late, stored, used, left>> /\ disk' \in {disk, None, screen[s].rec}
  BY DEF Stores, Fails, First
<1>2. Does(s, {})
  <2>1. {} \subseteq Kinds \X used /\ late' \subseteq late \union {} BY <1>1
  <2>2. stored' \subseteq used /\ used' \subseteq Intent /\ used \subseteq used' BY <1>1, RowAt DEF FlowShape
  <2> QED BY <1>1, <2>1, <2>2, StillDoes
<1> QED BY <1>1, <1>2, FlowStep

\* A failure of the record's store, and the catch takes it.
LEMMA StoreThrown ==
  ASSUME FlowInv, NEW s \in Screen, NEW pc, NEW x \in {None, screen[s].rec},
         Fails(s, pc, x), Silent, Throw(s),
         screen[s].rec = None => screen[s].pc \in {"idle", "read", "tidy", "create", "wipe"}
  PROVE  FlowInv'
<1>1. UNCHANGED <<used, ledger, known, out, dropped>> BY DEF Fails, Unchanged, server, Silent, report
<1>2. Placed(s, Thrown(screen[s])) BY <1>1, ThrowPlaced
<1>3. known' \subseteq used /\ out' \subseteq used /\ dropped' \subseteq used BY <1>1, RowAt DEF FlowShape
<1> QED BY <1>2, <1>3, StoreKeeps DEF Throw

\* A step that leaves everything but the row and the queue, and the attempts begun.
LEMMA QuietKeeps ==
  ASSUME FlowInv, NEW s \in Screen, NEW q, Unchanged, UNCHANGED <<disk, late, stored, left, report>>,
         used \subseteq used', used' \subseteq Intent,
         screen[s].pc \in OfStore => Head(line) = s, Set(s, q), Placed(s, q)
  PROVE  FlowInv'
<1>1. Does(s, {})
  <2>1. {} \subseteq Kinds \X used /\ late' \subseteq late \union {} OBVIOUS
  <2>2. stored' \subseteq used /\ known' \subseteq used /\ out' \subseteq used /\ dropped' \subseteq used
    BY RowAt DEF FlowShape, report
  <2> QED BY <2>1, <2>2, StillDoes
<1> QED BY <1>1, FlowStep

\* A command: the flow starts with nothing at hand.
LEMMA CommandKeeps ==
  ASSUME FlowInv, NEW s \in Screen, Command(s) PROVE FlowInv'
<1>1. PICK cmd \in {"new", "resume", "cancel"} : Set(s, [Idle EXCEPT !.pc = "read", !.cmd = cmd])
  BY DEF Command
<1>2. Placed(s, [Idle EXCEPT !.pc = "read", !.cmd = cmd])
  BY DEF Command, report, Placed, Idle, ScreenRow, Pc, Follows, PlaceOK, Finalizing
<1> QED BY <1>1, <1>2, QuietKeeps, RowAt DEF Command, OfStore, Writes, Clears

\* An abort is seen by the flow at its next await.
LEMMA AbortKeeps ==
  ASSUME FlowInv, NEW s \in Screen, Abort(s) PROVE FlowInv'
<1>1. screen \in [Screen -> ScreenRow] /\ screen[s] \in ScreenRow BY RowAt DEF FlowShape
<1>2. PICK q \in ScreenRow : q = [screen[s] EXCEPT !.aborted = TRUE] /\ q.pc = screen[s].pc
                             /\ q.rec = screen[s].rec /\ q.id = screen[s].id
  <2>1. /\ [screen[s] EXCEPT !.aborted = TRUE] \in ScreenRow
        /\ [screen[s] EXCEPT !.aborted = TRUE].pc = screen[s].pc
        /\ [screen[s] EXCEPT !.aborted = TRUE].rec = screen[s].rec
        /\ [screen[s] EXCEPT !.aborted = TRUE].id = screen[s].id
    BY <1>1 DEF ScreenRow
  <2> QED BY <2>1
<1>3. screen' = [screen EXCEPT ![s] = q] BY <1>1, <1>2 DEF Abort
<1>4. screen' \in [Screen -> ScreenRow] BY <1>1, <1>2, <1>3
<1>5. \A x \in Screen : /\ screen'[x].pc = screen[x].pc /\ screen'[x].rec = screen[x].rec
                        /\ screen'[x].id = screen[x].id
  BY <1>1, <1>2, <1>3
<1>6. UNCHANGED <<now, status, owner, members, enrolled, intents, ledger, submissions, disk, line, late, stored,
                  used, left, known, out, dropped>>
  BY DEF Abort, Unchanged, server, report
<1>7. FlowShape' BY <1>4, <1>6, RowAt DEF FlowShape, LedgerTypeOK
<1>8. Queue' BY <1>5, <1>6 DEF FlowInv, Queue
<1>9. \A x \in Screen : PlaceOK(screen'[x], used') BY <1>5, <1>6 DEF FlowInv, PlaceOK, Finalizing
<1>10. \A i : Unrecorded(i) => Unrecorded(i)' BY <1>5, <1>6 DEF Unrecorded, Asked
<1>11. \A x \in Screen : WipeOK(screen[x])' BY <1>5, <1>6, <1>10 DEF FlowInv, WipeOK
<1>12. LedgerOK' /\ PhaseIsVerified' BY <1>6 DEF FlowInv, LedgerOK, PhaseIsVerified, Issued
<1>13. FinalOK' /\ OneId' BY <1>5, <1>6 DEF FlowInv, FinalOK, OneId, Finalizing
<1>14. OutOK' BY <1>5, <1>6, <1>10 DEF FlowInv, OutOK
<1> QED BY <1>6, <1>7, <1>8, <1>9, <1>11, <1>12, <1>13, <1>14 DEF FlowInv

\* A flow that goes on with its record in hand.
LEMMA MovePlaced ==
  ASSUME FlowInv, NEW s \in Screen, NEW r \in ScreenRow, NEW pc \in Pc \ {"idle", "read", "tidy", "create"},
         used \subseteq used', out' = out,
         r.id = screen[s].id, r.rec \in {screen[s].rec, disk}, r.rec # None,
         r.id # None => r.rec.id = r.id,
         pc \in {"save", "undo", "token", "put"} => r.id # None,
         pc \in {"reset", "forget"} => r.id = None,
         pc \in {"mark", "final", "clear"} => Finalizing(r),
         pc \in {"save", "undo", "token", "put", "verify", "refused", "erase"} => ~Finalizing(r),
         pc \in {"erase", "wipe"} => ledger'[r.rec.id].retired
  PROVE  Placed(s, [r EXCEPT !.pc = pc])
<1>1. PICK q \in ScreenRow : q = [r EXCEPT !.pc = pc] /\ q.pc = pc /\ q.rec = r.rec /\ q.id = r.id
  <2>1. /\ [r EXCEPT !.pc = pc] \in ScreenRow /\ [r EXCEPT !.pc = pc].pc = pc
        /\ [r EXCEPT !.pc = pc].rec = r.rec /\ [r EXCEPT !.pc = pc].id = r.id
    BY RowMoves
  <2> QED BY <2>1
<1>2. r.rec.id \in used /\ r.id \in used \union {None} BY RowAt DEF FlowShape, PlaceOK
<1>3. Follows(s, q) BY <1>1 DEF Follows
<1>4. PlaceOK(q, used') BY <1>1, <1>2 DEF PlaceOK, Finalizing
<1> QED BY <1>1, <1>3, <1>4 DEF Placed

\* GoOn: the flow goes on with its record, unless it was aborted.
LEMMA GoOnPlaced ==
  ASSUME FlowInv, NEW s \in Screen, NEW r \in ScreenRow,
         NEW pc \in {"token", "put", "verify", "final"},
         used \subseteq used', out' = out,
         r.id = screen[s].id, r.rec \in {screen[s].rec, disk}, r.rec # None,
         r.id # None => r.rec.id = r.id,
         pc \in {"token", "put"} => r.id # None,
         pc = "final" <=> Finalizing(r)
  PROVE  Placed(s, GoOn(r, pc))
<1>1. pc \in Pc \ {"idle", "read", "tidy", "create", "erase", "wipe", "save", "undo", "reset", "forget", "mark",
                   "clear", "refused"}
  BY DEF Pc
<1>2. Placed(s, [r EXCEPT !.pc = pc]) BY <1>1, MovePlaced
<1>3. Placed(s, Cancelling(r)) BY CancellingPlaced
<1> QED BY <1>2, <1>3 DEF GoOn

\* The record is read: the flow resumes it, cancels it, refuses to start, or begins an attempt.
LEMMA ReadKeeps ==
  ASSUME FlowInv, NEW s \in Screen, Read(s) PROVE FlowInv'
<1>1. /\ screen[s].pc = "read" /\ Head(line) = s /\ Unchanged
      /\ UNCHANGED <<disk, late, stored, left, report>> /\ out' = out
  BY DEF Read, First, report
<1>2. screen[s] \in ScreenRow /\ disk \in Record \union {None} /\ screen[s].id = None /\ screen[s].rec = None
  BY <1>1, RowAt DEF FlowShape, PlaceOK
<1>3. PICK r \in ScreenRow : /\ r = [screen[s] EXCEPT !.rec = disk] /\ r.rec = disk /\ r.id = None
                             /\ r.aborted = screen[s].aborted /\ r.cmd = screen[s].cmd
  <2>1. /\ [screen[s] EXCEPT !.rec = disk] \in ScreenRow /\ [screen[s] EXCEPT !.rec = disk].rec = disk
        /\ [screen[s] EXCEPT !.rec = disk].id = None
        /\ [screen[s] EXCEPT !.rec = disk].aborted = screen[s].aborted
        /\ [screen[s] EXCEPT !.rec = disk].cmd = screen[s].cmd
    BY <1>2 DEF ScreenRow
  <2> QED BY <2>1
<1>4. \/ Set(s, Cancelling(r)) /\ UNCHANGED used
      \/ disk # None /\ Set(s, Resumed(r)) /\ UNCHANGED used
      \/ Set(s, Thrown(r)) /\ UNCHANGED used
      \/ Throw(s) /\ UNCHANGED used
      \/ /\ disk = None
         /\ \E i \in Intent \ used : used' = used \union {i} /\ Set(s, [r EXCEPT !.pc = "create", !.id = i])
  BY <1>3 DEF Read
<1>5. ASSUME NEW q, used \subseteq used', used' \subseteq Intent, Set(s, q), Placed(s, q) PROVE FlowInv'
  BY <1>1, <1>5, QuietKeeps
<1>6. used \subseteq Intent BY RowAt
<1>7. CASE Set(s, Cancelling(r)) /\ UNCHANGED used
  <2>1. Placed(s, Cancelling(r)) BY <1>1, <1>2, <1>3, <1>7, CancellingPlaced
  <2> QED BY <1>5, <1>6, <1>7, <2>1
<1>8. CASE disk # None /\ Set(s, Resumed(r)) /\ UNCHANGED used
  <2>1. r.rec.phase \in {"verifying", "finalizing"} BY <1>2, <1>3, <1>8 DEF Record
  <2>2. CASE r.rec.phase = "verifying"
    <3>1. ~Finalizing(r) /\ "verify" \in Pc \ {"idle", "read", "tidy", "create"} BY <2>2 DEF Finalizing, Pc
    <3>2. Placed(s, [r EXCEPT !.pc = "verify"]) BY <1>1, <1>2, <1>3, <1>8, <3>1, MovePlaced
    <3> QED BY <1>5, <1>6, <1>8, <2>2, <3>2 DEF Resumed
  <2>3. CASE r.rec.phase = "finalizing"
    <3>1. Finalizing(r) BY <1>3, <1>8, <2>3 DEF Finalizing
    <3>2. Placed(s, GoOn(r, "final")) BY <1>1, <1>2, <1>3, <1>8, <3>1, GoOnPlaced
    <3> QED BY <1>5, <1>6, <1>8, <2>3, <3>2 DEF Resumed
  <2> QED BY <2>1, <2>2, <2>3
<1>9. CASE Set(s, Thrown(r)) /\ UNCHANGED used
  <2>1. Placed(s, Thrown(r)) BY <1>1, <1>2, <1>3, <1>9, ThrownPlaced
  <2> QED BY <1>5, <1>6, <1>9, <2>1
<1>10. CASE Throw(s) /\ UNCHANGED used
  <2>1. Placed(s, Thrown(screen[s])) BY <1>1, <1>2, <1>10, ThrownPlaced
  <2> QED BY <1>5, <1>6, <1>10, <2>1 DEF Throw
<1>11. ASSUME disk = None, NEW i \in Intent \ used, used' = used \union {i},
              Set(s, [r EXCEPT !.pc = "create", !.id = i])
       PROVE  FlowInv'
  <2>1. PICK q \in ScreenRow : /\ q = [r EXCEPT !.pc = "create", !.id = i]
                               /\ q.pc = "create" /\ q.id = i /\ q.rec = None
    <3>1. /\ [r EXCEPT !.pc = "create", !.id = i] \in ScreenRow
          /\ [r EXCEPT !.pc = "create", !.id = i].pc = "create"
          /\ [r EXCEPT !.pc = "create", !.id = i].id = i
          /\ [r EXCEPT !.pc = "create", !.id = i].rec = r.rec
      BY DEF ScreenRow, Pc
    <3> QED BY <1>3, <1>11, <3>1
  <2>2. Placed(s, q) BY <1>1, <1>11, <2>1 DEF Placed, Follows, PlaceOK, Finalizing
  <2>3. used \subseteq used' /\ used' \subseteq Intent BY <1>6, <1>11
  <2> QED BY <1>5, <1>11, <2>1, <2>2, <2>3
<1> QED BY <1>4, <1>7, <1>8, <1>9, <1>10, <1>11

\* The intent is issued, and the record is in memory only.
LEMMA RequestIntentKeeps ==
  ASSUME FlowInv, NEW s \in Screen, RequestIntent(s) PROVE FlowInv'
<1>1. screen[s].pc = "create" /\ screen[s].pc \notin OfStore /\ Calls /\ Silent /\ UNCHANGED stored
  BY DEF RequestIntent, Answered, Unanswered, Refused, OfStore, Writes, Clears
<1>2. PICK i \in used : i = screen[s].id BY <1>1, RowAt DEF PlaceOK
<1>3. <<"create", i>> \in (Kinds \ {"put"}) \X used BY DEF Kinds
<1>4. ASSUME Answered(s, "create", <<"create", i>>), UNCHANGED late,
             Set(s, [screen[s] EXCEPT !.pc = "save", !.rec = [id |-> i, phase |-> "verifying"]])
      PROVE  FlowInv'
  <2>1. PICK x \in Record : x = [id |-> i, phase |-> "verifying"] /\ x.id = i /\ x.phase = "verifying"
    <3>1. [id |-> i, phase |-> "verifying"] \in Record BY RowAt DEF Record
    <3> QED BY <3>1
  <2>2. PICK q \in ScreenRow : /\ q = [screen[s] EXCEPT !.pc = "save", !.rec = x]
                               /\ q.pc = "save" /\ q.id = i /\ q.rec = x
    <3>1. screen[s] \in ScreenRow BY RowAt
    <3>2. /\ [screen[s] EXCEPT !.pc = "save", !.rec = x] \in ScreenRow
          /\ [screen[s] EXCEPT !.pc = "save", !.rec = x].pc = "save"
          /\ [screen[s] EXCEPT !.pc = "save", !.rec = x].id = i
          /\ [screen[s] EXCEPT !.pc = "save", !.rec = x].rec = x
      BY <1>2, <3>1 DEF ScreenRow, Pc
    <3> QED BY <3>2
  <2>3. used' = used /\ out' = out BY <1>1 DEF Calls, Silent, report
  <2>4. Follows(s, q) BY <1>1, <1>2, <2>1, <2>2, <2>3 DEF Follows
  <2>5. PlaceOK(q, used') BY <1>2, <2>1, <2>2, <2>3, RowAt DEF PlaceOK, Finalizing
  <2>6. Placed(s, q) BY <2>2, <2>4, <2>5 DEF Placed
  <2>7. known' \subseteq used /\ UNCHANGED <<out, dropped>> BY <1>1, RowAt DEF Silent, report, FlowShape
  <2>8. Effect(<<"create", i>>) /\ <<"create", i>>[1] \notin {"verify", "final"} BY <1>4 DEF Answered
  <2> QED BY <1>1, <1>3, <1>4, <2>1, <2>2, <2>6, <2>7, <2>8, AnsweredKeeps
<1>5. ASSUME Unanswered(s, "create", <<"create", i>>) \/ Refused(s, "create"), Throw(s) PROVE FlowInv'
  <2>1. <<"create", i>>[1] \notin {"verify", "final"} OBVIOUS
  <2> QED BY <1>1, <1>3, <1>5, <2>1, UnansweredThrown
<1> QED BY <1>2, <1>4, <1>5 DEF RequestIntent

\* The record is stored, or the intent will be undone.
LEMMA SaveKeeps ==
  ASSUME FlowInv, NEW s \in Screen, Save(s) PROVE FlowInv'
<1>1. /\ screen[s].pc = "save" /\ UNCHANGED <<used, known, out, dropped>>
      /\ Stores(s, "save", screen[s].rec) \/ Fails(s, "save", screen[s].rec)
  BY DEF Save, Stores, Fails, First, Silent, report
<1>2. /\ screen[s] \in ScreenRow /\ screen[s].rec # None /\ screen[s].id # None /\ ~Finalizing(screen[s])
      /\ screen[s].rec.id = screen[s].id
  BY <1>1, RowAt DEF PlaceOK
<1>3. Placed(s, GoOn(screen[s], "token")) BY <1>1, <1>2, GoOnPlaced
<1>4. Placed(s, [screen[s] EXCEPT !.pc = "undo"])
  <2>1. "undo" \in Pc \ {"idle", "read", "tidy", "create"} BY DEF Pc
  <2> QED BY <1>1, <1>2, <2>1, MovePlaced
<1>5. known' \subseteq used /\ out' \subseteq used /\ dropped' \subseteq used BY <1>1, RowAt DEF FlowShape
<1> QED BY <1>1, <1>3, <1>4, <1>5, StoreKeeps DEF Save, MoveTo

\* What an answered call did.
LEMMA AnsweredMoves ==
  ASSUME FlowInv, NEW m \in (Kinds \ {"put"}) \X used, Effect(m), Calls
  PROVE  Moved({m})
<1>1. m \in {"create", "cancel", "verify", "final"} \X used BY DEF Kinds
<1>2. FlowShape /\ LedgerOK /\ used' = used BY DEF FlowInv, Calls
<1> QED BY <1>1, <1>2, EffectMoves

\* An answered cancellation has retired its attempt.
LEMMA Retired ==
  ASSUME FlowInv, NEW i \in used, Effect(<<"cancel", i>>), Calls PROVE ledger'[i].retired
<1>1. <<"cancel", i>> \in (Kinds \ {"put"}) \X used BY DEF Kinds
<1>2. Moved({<<"cancel", i>>}) BY <1>1, AnsweredMoves
<1>3. <<"cancel", i>>[1] = "cancel" /\ <<"cancel", i>>[2] = i OBVIOUS
<1> QED BY <1>2, <1>3 DEF Moved

\* The calls of a flow name attempts begun.
LEMMA CallNames ==
  ASSUME NEW i \in used, NEW k \in Kinds \ {"put"}
  PROVE  /\ <<k, i>> \in (Kinds \ {"put"}) \X used
         /\ <<k, i>>[1] = k /\ <<k, i>>[2] = i
  OBVIOUS

\* The intent of a record that could not be saved is cancelled.
LEMMA UndoIntentKeeps ==
  ASSUME FlowInv, NEW s \in Screen, UndoIntent(s) PROVE FlowInv'
<1>1. /\ screen[s].pc = "undo" /\ screen[s].pc \notin OfStore /\ Calls /\ Silent /\ UNCHANGED stored
      /\ UNCHANGED <<used, known, out, dropped>>
  BY DEF UndoIntent, Answered, Unanswered, Refused, OfStore, Writes, Clears, Calls, Silent, report
<1>2. PICK i \in used : i = screen[s].id /\ screen[s].id # None BY <1>1, RowAt DEF PlaceOK
<1>3. <<"cancel", i>> \in (Kinds \ {"put"}) \X used /\ <<"cancel", i>>[1] \notin {"verify", "final"}
  BY CallNames DEF Kinds
<1>4. ASSUME Effect(<<"cancel", i>>), UNCHANGED late, Set(s, Thrown([screen[s] EXCEPT !.rec = None])) PROVE FlowInv'
  <2>1. ledger'[i].retired BY <1>1, <1>4, Retired
  <2>2. PICK r \in ScreenRow : r = [screen[s] EXCEPT !.rec = None] /\ r.rec = None /\ r.id = i
    <3>1. screen[s] \in ScreenRow BY RowAt
    <3>2. /\ [screen[s] EXCEPT !.rec = None] \in ScreenRow /\ [screen[s] EXCEPT !.rec = None].rec = None
          /\ [screen[s] EXCEPT !.rec = None].id = i
      BY <1>2, <3>1 DEF ScreenRow
    <3> QED BY <3>2
  <2>3. Placed(s, Thrown(r)) BY <1>1, <1>2, <2>1, <2>2, ThrownPlaced
  <2>4. known' \subseteq used /\ UNCHANGED <<out, dropped>> BY <1>1, RowAt DEF FlowShape
  <2> QED BY <1>1, <1>3, <1>4, <2>2, <2>3, <2>4, AnsweredKeeps
<1>5. ASSUME Unanswered(s, "undo", <<"cancel", i>>) \/ Refused(s, "undo"), Throw(s) PROVE FlowInv'
  BY <1>1, <1>3, <1>5, UnansweredThrown
<1> QED BY <1>2, <1>4, <1>5 DEF UndoIntent, Answered

\* The upload token.
LEMMA GetTokenKeeps ==
  ASSUME FlowInv, NEW s \in Screen, GetToken(s) PROVE FlowInv'
<1>1. /\ screen[s].pc = "token" /\ screen[s].pc \notin OfStore /\ Calls /\ Silent /\ UNCHANGED stored
      /\ UNCHANGED <<used, known, out, dropped>> /\ Refused(s, "token")
  BY DEF GetToken, Refused, OfStore, Writes, Clears, Calls, Silent, report
<1>2. PICK i \in used : i = screen[s].id /\ screen[s].id # None BY <1>1, RowAt DEF PlaceOK
<1>3. <<"create", i>> \in (Kinds \ {"put"}) \X used /\ <<"create", i>>[1] \notin {"verify", "final"}
  BY CallNames DEF Kinds
<1>4. CASE Set(s, GoOn(screen[s], "put"))
  <2>1. Placed(s, GoOn(screen[s], "put"))
    BY <1>1, <1>2, RowAt, GoOnPlaced DEF PlaceOK
  <2> QED BY <1>1, <1>3, <1>4, <2>1, UnansweredKeeps
<1>5. CASE Throw(s) BY <1>1, <1>3, <1>5, UnansweredThrown
<1> QED BY <1>4, <1>5 DEF GetToken

\* The upload.
LEMMA UploadKeeps ==
  ASSUME FlowInv, NEW s \in Screen, Upload(s) PROVE FlowInv'
<1>1. /\ screen[s].pc = "put" /\ screen[s].pc \notin OfStore /\ Unchanged
      /\ UNCHANGED <<disk, used, left, known, out, dropped>>
      /\ Set(s, [screen[s] EXCEPT !.pc = "verify"])
  BY DEF Upload, OfStore, Writes, Clears, Calls, Silent, report, MoveTo
<1>2. PICK i \in used : i = screen[s].id /\ screen[s].id # None BY <1>1, RowAt DEF PlaceOK
<1>3. PICK L \in SUBSET (Kinds \X used) : late' \subseteq late \union L /\ \A n \in L : n[1] \notin {"verify", "final"}
  <2>1. {<<"put", i>>} \in SUBSET (Kinds \X used) /\ \A n \in {<<"put", i>>} : n[1] \notin {"verify", "final"}
    BY DEF Kinds
  <2>2. late' \subseteq late \union {<<"put", i>>} BY <1>2 DEF Upload, Lingering
  <2> QED BY <2>1, <2>2
<1>4. stored' \subseteq used BY <1>2, RowAt DEF Upload, FlowShape
<1>5. Does(s, {})
  <2>1. /\ used' \subseteq Intent /\ used \subseteq used'
        /\ known' \subseteq used /\ out' \subseteq used /\ dropped' \subseteq used
    BY <1>1, RowAt DEF FlowShape
  <2> QED BY <1>1, <1>3, <1>4, <2>1, StillDoes
<1>6. Placed(s, [screen[s] EXCEPT !.pc = "verify"])
  <2>1. "verify" \in Pc \ {"idle", "read", "tidy", "create"} BY DEF Pc
  <2> QED BY <1>1, <1>2, <2>1, RowAt, MovePlaced DEF PlaceOK
<1> QED BY <1>1, <1>5, <1>6, FlowStep

\* The server verifies, and the record in memory says so.
LEMMA VerifyUploadedKeeps ==
  ASSUME FlowInv, NEW s \in Screen, VerifyUploaded(s) PROVE FlowInv'
<1>1. /\ screen[s].pc = "verify" /\ screen[s].pc \notin OfStore /\ Calls /\ Silent /\ UNCHANGED stored
      /\ UNCHANGED <<used, known, out, dropped>>
  BY DEF VerifyUploaded, UploadVerified, Answered, Unanswered, Refused, OfStore, Writes, Clears, Calls, Silent, report
<1>2. PICK i \in used : i = screen[s].rec.id /\ screen[s].rec # None /\ screen[s].rec \in Record
  BY <1>1, RowAt DEF PlaceOK
<1>3. /\ <<"verify", i>> \in (Kinds \ {"put"}) \X used
      /\ <<"verify", i>>[1] \in {"verify", "final"} => screen[s].rec # None /\ screen[s].rec.id = <<"verify", i>>[2]
  BY <1>2, CallNames DEF Kinds
<1>4. ASSUME Effect(<<"verify", i>>), UNCHANGED late,
             Set(s, IF screen[s].aborted THEN Cancelling(screen[s])
                      ELSE [screen[s] EXCEPT !.pc = "mark", !.rec.phase = "finalizing"])
      PROVE  FlowInv'
  <2>1. known' \subseteq used /\ UNCHANGED <<out, dropped>> BY <1>1, RowAt DEF FlowShape
  <2>2. intents'[i].state \in Verifieds
    <3>1. Moved({<<"verify", i>>}) BY <1>1, <1>3, <1>4, AnsweredMoves
    <3>2. <<"verify", i>>[1] = "verify" /\ <<"verify", i>>[2] = i OBVIOUS
    <3> QED BY <3>1, <3>2 DEF Moved
  <2>3. PICK q \in ScreenRow : /\ q = [screen[s] EXCEPT !.pc = "mark", !.rec.phase = "finalizing"]
                               /\ q.pc = "mark" /\ q.rec = [screen[s].rec EXCEPT !.phase = "finalizing"]
                               /\ q.rec \in Record /\ q.rec.id = i /\ q.rec.phase = "finalizing"
                               /\ q.id = screen[s].id
    <3>1. PICK x \in Record : x = [screen[s].rec EXCEPT !.phase = "finalizing"] /\ x.id = i /\ x.phase = "finalizing"
      <4>1. /\ [screen[s].rec EXCEPT !.phase = "finalizing"] \in Record
            /\ [screen[s].rec EXCEPT !.phase = "finalizing"].id = i
            /\ [screen[s].rec EXCEPT !.phase = "finalizing"].phase = "finalizing"
        BY <1>2 DEF Record
      <4> QED BY <4>1
    <3>2. screen[s] \in ScreenRow BY RowAt
    <3>3. [screen[s] EXCEPT !.pc = "mark", !.rec.phase = "finalizing"] = [screen[s] EXCEPT !.pc = "mark", !.rec = x]
      BY <3>1, <3>2 DEF ScreenRow
    <3>4. /\ [screen[s] EXCEPT !.pc = "mark", !.rec = x] \in ScreenRow
          /\ [screen[s] EXCEPT !.pc = "mark", !.rec = x].pc = "mark"
          /\ [screen[s] EXCEPT !.pc = "mark", !.rec = x].rec = x
          /\ [screen[s] EXCEPT !.pc = "mark", !.rec = x].id = screen[s].id
      BY <3>2 DEF ScreenRow, Pc
    <3> QED BY <3>1, <3>3, <3>4
  <2>4. Placed(s, q)
    <3>1. q.rec # None /\ Finalizing(q) BY <2>3 DEF Finalizing
    <3>2. PlaceOK(q, used') BY <1>1, <1>2, <2>3, <3>1, RowAt DEF PlaceOK
    <3>3. Follows(s, q) BY <1>1, <1>2, <2>2, <2>3 DEF Follows
    <3> QED BY <2>3, <3>2, <3>3 DEF Placed
  <2>5. Placed(s, Cancelling(screen[s])) BY <1>1, <1>2, RowAt, CancellingPlaced DEF PlaceOK
  <2> QED BY <1>1, <1>3, <1>4, <2>1, <2>3, <2>4, <2>5, AnsweredKeeps
<1>5. ASSUME Unanswered(s, "verify", <<"verify", i>>) \/ Refused(s, "verify"), Throw(s) PROVE FlowInv'
  BY <1>1, <1>3, <1>5, UnansweredThrown
<1>6. ASSUME Refused(s, "verify"), MoveTo(s, "refused") PROVE FlowInv'
  <2>1. Placed(s, [screen[s] EXCEPT !.pc = "refused"])
    <3>1. "refused" \in Pc \ {"idle", "read", "tidy", "create"} BY DEF Pc
    <3> QED BY <1>1, <1>2, <3>1, RowAt, MovePlaced DEF PlaceOK
  <2> QED BY <1>1, <1>3, <1>6, <2>1, UnansweredKeeps DEF MoveTo
<1> QED BY <1>2, <1>4, <1>5, <1>6 DEF VerifyUploaded, UploadVerified, Answered

\* A refused upload: its intent is cancelled before the record goes.
LEMMA DropRefusedKeeps ==
  ASSUME FlowInv, NEW s \in Screen, DropRefused(s) PROVE FlowInv'
<1>1. /\ screen[s].pc = "refused" /\ screen[s].pc \notin OfStore /\ Calls /\ Silent /\ UNCHANGED stored
      /\ UNCHANGED <<used, known, out, dropped>>
  BY DEF DropRefused, Answered, Unanswered, Refused, OfStore, Writes, Clears, Calls, Silent, report
<1>2. PICK i \in used : i = screen[s].rec.id /\ screen[s].rec # None BY <1>1, RowAt DEF PlaceOK
<1>3. <<"cancel", i>> \in (Kinds \ {"put"}) \X used /\ <<"cancel", i>>[1] \notin {"verify", "final"}
  BY CallNames DEF Kinds
<1>4. ASSUME Effect(<<"cancel", i>>), UNCHANGED late, MoveTo(s, "erase") PROVE FlowInv'
  <2>1. ledger'[i].retired BY <1>1, <1>4, Retired
  <2>2. "erase" \in Pc \ {"idle", "read", "tidy", "create"} BY DEF Pc
  <2>3. Placed(s, [screen[s] EXCEPT !.pc = "erase"])
    BY <1>1, <1>2, <2>1, <2>2, RowAt, MovePlaced DEF PlaceOK
  <2>4. known' \subseteq used /\ UNCHANGED <<out, dropped>> BY <1>1, RowAt DEF FlowShape
  <2> QED BY <1>1, <1>3, <1>4, <2>3, <2>4, AnsweredKeeps DEF MoveTo
<1>5. ASSUME Unanswered(s, "refused", <<"cancel", i>>) \/ Refused(s, "refused"), Throw(s) PROVE FlowInv'
  BY <1>1, <1>3, <1>5, UnansweredThrown
<1> QED BY <1>2, <1>4, <1>5 DEF DropRefused, Answered

\* The record of a refused upload is erased.
LEMMA EraseRefusedKeeps ==
  ASSUME FlowInv, NEW s \in Screen, EraseRefused(s) PROVE FlowInv'
<1>1. /\ screen[s].pc = "erase" /\ Silent /\ UNCHANGED <<used, ledger, known, out, dropped>>
      /\ Stores(s, "erase", None) \/ Fails(s, "erase", None)
  BY DEF EraseRefused, Stores, Fails, First, Silent, report, Unchanged, server
<1>2. /\ screen[s].rec # None /\ ledger[screen[s].rec.id].retired
      /\ screen[s].id # None => screen[s].id = screen[s].rec.id
  BY <1>1, RowAt DEF PlaceOK, WipeOK
<1>3. ASSUME Stores(s, "erase", None), Set(s, Thrown([screen[s] EXCEPT !.rec = None])) PROVE FlowInv'
  <2>1. PICK r \in ScreenRow : r = [screen[s] EXCEPT !.rec = None] /\ r.rec = None /\ r.id = screen[s].id
    <3>1. screen[s] \in ScreenRow BY RowAt
    <3>2. /\ [screen[s] EXCEPT !.rec = None] \in ScreenRow /\ [screen[s] EXCEPT !.rec = None].rec = None
          /\ [screen[s] EXCEPT !.rec = None].id = screen[s].id
      BY <3>1 DEF ScreenRow
    <3> QED BY <3>2
  <2>2. Placed(s, Thrown(r)) BY <1>1, <1>2, <2>1, ThrownPlaced
  <2>3. known' \subseteq used /\ out' \subseteq used /\ dropped' \subseteq used BY <1>1, RowAt DEF FlowShape
  <2> QED BY <1>3, <2>1, <2>2, <2>3, StoreKeeps
<1>4. ASSUME Fails(s, "erase", None), Throw(s) PROVE FlowInv' BY <1>1, <1>2, <1>4, StoreThrown
<1> QED BY <1>3, <1>4 DEF EraseRefused

\* The record on disk says "finalizing" before the server is asked to.
LEMMA MarkRecordKeeps ==
  ASSUME FlowInv, NEW s \in Screen, MarkRecord(s) PROVE FlowInv'
<1>1. /\ screen[s].pc = "mark" /\ Silent /\ UNCHANGED <<used, known, out, dropped>>
      /\ Stores(s, "mark", screen[s].rec) \/ Fails(s, "mark", screen[s].rec)
  BY DEF MarkRecord, Stores, Fails, First, Silent, report
<1>2. screen[s] \in ScreenRow /\ screen[s].rec # None /\ Finalizing(screen[s])
      /\ (screen[s].id # None => screen[s].rec.id = screen[s].id)
  BY <1>1, RowAt DEF PlaceOK
<1>3. Placed(s, GoOn(screen[s], "final")) BY <1>1, <1>2, GoOnPlaced
<1>4. known' \subseteq used /\ out' \subseteq used /\ dropped' \subseteq used BY <1>1, RowAt DEF FlowShape
<1>5. ASSUME Fails(s, "mark", screen[s].rec), Throw(s) PROVE FlowInv' BY <1>1, <1>2, <1>5, StoreThrown
<1>6. ASSUME Stores(s, "mark", screen[s].rec), Set(s, GoOn(screen[s], "final")) PROVE FlowInv'
  BY <1>1, <1>3, <1>4, <1>6, StoreKeeps
<1> QED BY <1>5, <1>6 DEF MarkRecord

\* The finalization.
LEMMA FinalizeRecordKeeps ==
  ASSUME FlowInv, NEW s \in Screen, FinalizeRecord(s) PROVE FlowInv'
<1>1. /\ screen[s].pc = "final" /\ screen[s].pc \notin OfStore /\ Calls /\ UNCHANGED <<stored, out, dropped>>
      /\ UNCHANGED used
  BY DEF FinalizeRecord, Answered, Unanswered, Refused, OfStore, Writes, Clears, Calls
<1>2. PICK i \in used : i = screen[s].rec.id /\ screen[s].rec # None /\ Finalizing(screen[s])
  BY <1>1, RowAt DEF PlaceOK
<1>3. /\ <<"final", i>> \in (Kinds \ {"put"}) \X used
      /\ <<"final", i>>[1] \in {"verify", "final"} => screen[s].rec # None /\ screen[s].rec.id = <<"final", i>>[2]
  BY <1>2, CallNames DEF Kinds
<1>4. ASSUME Effect(<<"final", i>>), UNCHANGED late, MoveTo(s, "clear"), known' = known \union {i} PROVE FlowInv'
  <2>1. known' \subseteq used BY <1>4, RowAt DEF FlowShape
  <2>2. Placed(s, [screen[s] EXCEPT !.pc = "clear"])
    <3>1. "clear" \in Pc \ {"idle", "read", "tidy", "create"} BY DEF Pc
    <3> QED BY <1>1, <1>2, <3>1, RowAt, MovePlaced DEF PlaceOK
  <2> QED BY <1>1, <1>3, <1>4, <2>1, <2>2, AnsweredKeeps DEF MoveTo
<1>5. ASSUME Unanswered(s, "final", <<"final", i>>) \/ Refused(s, "final"), Throw(s), UNCHANGED known PROVE FlowInv'
  BY <1>1, <1>3, <1>5, UnansweredThrown DEF Silent, report
<1> QED BY <1>2, <1>4, <1>5 DEF FinalizeRecord, Answered

\* The screen erases the record once more.
LEMMA TidyPlaced ==
  ASSUME NEW s \in Screen, \A i \in out' \ out : screen[s].pc = "wipe" /\ i \in Named(screen[s]) \ {None}
  PROVE  Placed(s, [Idle EXCEPT !.pc = "tidy"])
  BY DEF Placed, Idle, ScreenRow, Pc, Follows, PlaceOK, Finalizing

\* After a success the record goes.
LEMMA ClearRecordKeeps ==
  ASSUME FlowInv, NEW s \in Screen, ClearRecord(s) PROVE FlowInv'
<1>1. /\ screen[s].pc = "clear" /\ Silent /\ UNCHANGED <<used, known, out, dropped>>
      /\ Stores(s, "clear", None) \/ Fails(s, "clear", None)
  BY DEF ClearRecord, Stores, Fails, First, Silent, report
<1>2. screen[s].rec # None BY <1>1, RowAt DEF PlaceOK
<1>3. Placed(s, [Idle EXCEPT !.pc = "tidy"]) BY <1>1, TidyPlaced
<1>4. known' \subseteq used /\ out' \subseteq used /\ dropped' \subseteq used BY <1>1, RowAt DEF FlowShape
<1>5. ASSUME Fails(s, "clear", None), Throw(s) PROVE FlowInv' BY <1>1, <1>2, <1>5, StoreThrown
<1>6. ASSUME Stores(s, "clear", None), Set(s, [Idle EXCEPT !.pc = "tidy"]) PROVE FlowInv'
  BY <1>3, <1>4, <1>6, StoreKeeps
<1> QED BY <1>5, <1>6 DEF ClearRecord

\* The server cancels first.
LEMMA CancelIntentKeeps ==
  ASSUME FlowInv, NEW s \in Screen, CancelIntent(s) PROVE FlowInv'
<1>1. /\ screen[s].pc = "cancel" /\ screen[s].pc \notin OfStore /\ Calls /\ Silent /\ UNCHANGED stored
      /\ UNCHANGED <<used, known, out, dropped>>
  BY DEF CancelIntent, Answered, OfStore, Writes, Clears, Calls, Silent, report
<1>2. PICK i \in used : i = screen[s].rec.id /\ screen[s].rec # None BY <1>1, RowAt DEF PlaceOK
<1>3. <<"cancel", i>> \in (Kinds \ {"put"}) \X used /\ <<"cancel", i>>[1] \notin {"verify", "final"}
  BY CallNames DEF Kinds
<1>4. ASSUME Effect(<<"cancel", i>>), UNCHANGED late, MoveTo(s, "wipe") PROVE FlowInv'
  <2>1. ledger'[i].retired BY <1>1, <1>4, Retired
  <2>2. "wipe" \in Pc \ {"idle", "read", "tidy", "create"} BY DEF Pc
  <2>3. Placed(s, [screen[s] EXCEPT !.pc = "wipe"])
    BY <1>1, <1>2, <2>1, <2>2, RowAt, MovePlaced DEF PlaceOK
  <2>4. known' \subseteq used /\ UNCHANGED <<out, dropped>> BY <1>1, RowAt DEF FlowShape
  <2> QED BY <1>1, <1>3, <1>4, <2>3, <2>4, AnsweredKeeps DEF MoveTo
<1>5. ASSUME Unanswered(s, "cancel", <<"cancel", i>>) \/ Refused(s, "cancel"), Throw(s) PROVE FlowInv'
  BY <1>1, <1>3, <1>5, UnansweredThrown
<1> QED BY <1>2, <1>4, <1>5 DEF CancelIntent, CancelFails, Answered

\* The record goes, and the cancellation is reported.
LEMMA WipeKeeps ==
  ASSUME FlowInv, NEW s \in Screen, Wipe(s) PROVE FlowInv'
<1>1. /\ screen[s].pc = "wipe" /\ UNCHANGED <<used, known, dropped>>
      /\ Stores(s, "wipe", None) \/ Fails(s, "wipe", None)
  BY DEF Wipe, Stores, Fails, First
<1>2. ASSUME Stores(s, "wipe", None), Set(s, [Idle EXCEPT !.pc = "tidy"]),
             out' = out \union (Named(screen[s]) \ {None})
      PROVE  FlowInv'
  <2>1. Placed(s, [Idle EXCEPT !.pc = "tidy"]) BY <1>1, <1>2, TidyPlaced
  <2>2. Named(screen[s]) \ {None} \subseteq used BY RowAt DEF Named, PlaceOK
  <2>3. known' \subseteq used /\ out' \subseteq used /\ dropped' \subseteq used BY <1>1, <1>2, <2>2, RowAt DEF FlowShape
  <2> QED BY <1>2, <2>1, <2>3, StoreKeeps
<1>3. ASSUME Fails(s, "wipe", None), Throw(s), UNCHANGED out PROVE FlowInv'
  BY <1>1, <1>3, StoreThrown DEF Silent, report
<1> QED BY <1>2, <1>3 DEF Wipe

\* The erasure of the screen changes nothing the invariant is about.
LEMMA TidyKeeps ==
  ASSUME FlowInv, NEW s \in Screen, Tidy(s) PROVE FlowInv'
<1>1. /\ UNCHANGED <<used, known, out, dropped>> /\ Set(s, Idle)
      /\ Stores(s, "tidy", None) \/ Fails(s, "tidy", None)
  BY DEF Tidy, Stores, Fails, First, Silent, report
<1>2. Placed(s, Idle) BY <1>1, IdlePlaced
<1>3. known' \subseteq used /\ out' \subseteq used /\ dropped' \subseteq used BY <1>1, RowAt DEF FlowShape
<1> QED BY <1>1, <1>2, <1>3, StoreKeeps

\* The record shown is taken to be discarded.
LEMMA ResetKeeps ==
  ASSUME FlowInv, NEW s \in Screen, Reset(s) PROVE FlowInv'
<1>1. /\ screen[s].pc = "idle" /\ disk # None /\ Set(s, [Idle EXCEPT !.pc = "reset", !.rec = disk])
      /\ Unchanged /\ UNCHANGED <<disk, late, stored, used, left, report>> /\ out' = out
  BY DEF Reset, report
<1>2. disk \in Record /\ disk.id \in used BY <1>1, RowAt DEF FlowShape
<1>3. Placed(s, [Idle EXCEPT !.pc = "reset", !.rec = disk])
  BY <1>1, <1>2 DEF Placed, Idle, ScreenRow, Pc, Follows, PlaceOK, Finalizing
<1>4. screen[s].pc \notin OfStore BY <1>1 DEF OfStore, Writes, Clears
<1>5. used' = used /\ used \subseteq Intent BY <1>1, RowAt
<1> QED BY <1>1, <1>3, <1>4, <1>5, QuietKeeps

\* The server is asked to cancel, whatever it answers.
LEMMA ResetCancelKeeps ==
  ASSUME FlowInv, NEW s \in Screen, ResetCancel(s) PROVE FlowInv'
<1>1. /\ screen[s].pc = "reset" /\ screen[s].pc \notin OfStore /\ Calls /\ Silent /\ UNCHANGED stored
      /\ UNCHANGED <<used, known, out, dropped>> /\ Set(s, [screen[s] EXCEPT !.pc = "forget"])
  BY DEF ResetCancel, Answered, Unanswered, Refused, OfStore, Writes, Clears, Calls, Silent, report, MoveTo
<1>2. PICK i \in used : i = screen[s].rec.id /\ screen[s].rec # None /\ screen[s].id = None BY <1>1, RowAt DEF PlaceOK
<1>3. <<"cancel", i>> \in (Kinds \ {"put"}) \X used /\ <<"cancel", i>>[1] \notin {"verify", "final"}
  BY CallNames DEF Kinds
<1>4. Placed(s, [screen[s] EXCEPT !.pc = "forget"])
  <2>1. "forget" \in Pc \ {"idle", "read", "tidy", "create"} BY DEF Pc
  <2> QED BY <1>1, <1>2, <2>1, RowAt, MovePlaced
<1>5. ASSUME Effect(<<"cancel", i>>), UNCHANGED late PROVE FlowInv'
  <2>1. known' \subseteq used /\ UNCHANGED <<out, dropped>> BY <1>1, RowAt DEF FlowShape
  <2> QED BY <1>1, <1>3, <1>4, <1>5, <2>1, AnsweredKeeps
<1>6. ASSUME Unanswered(s, "reset", <<"cancel", i>>) \/ Refused(s, "reset") PROVE FlowInv'
  BY <1>1, <1>3, <1>4, <1>6, UnansweredKeeps
<1> QED BY <1>2, <1>5, <1>6 DEF ResetCancel, Answered

\* The record the user discarded goes, and its attempt is noted as discarded.
LEMMA ResetForgetKeeps ==
  ASSUME FlowInv, NEW s \in Screen, ResetForget(s) PROVE FlowInv'
<1>1. /\ UNCHANGED <<used, known, out>> /\ Set(s, Idle) /\ screen[s].pc = "forget"
      /\ Stores(s, "forget", None) \/ Fails(s, "forget", None)
      /\ dropped' = dropped \union {screen[s].rec.id}
  BY DEF ResetForget, Stores, Fails, First
<1>2. Placed(s, Idle) BY <1>1, IdlePlaced
<1>3. screen[s].rec.id \in used BY <1>1, RowAt DEF PlaceOK
<1>4. known' \subseteq used /\ out' \subseteq used /\ dropped' \subseteq used BY <1>1, <1>3, RowAt DEF FlowShape
<1> QED BY <1>1, <1>2, <1>4, StoreKeeps

\* Every step of a flow.
LEMMA RunKeeps ==
  ASSUME FlowInv, NEW s \in Screen, Run(s) PROVE FlowInv'
  BY ReadKeeps, RequestIntentKeeps, SaveKeeps, UndoIntentKeeps, GetTokenKeeps, UploadKeeps, VerifyUploadedKeeps,
     DropRefusedKeeps, EraseRefusedKeeps, MarkRecordKeeps, FinalizeRecordKeeps, ClearRecordKeeps,
     CancelIntentKeeps, WipeKeeps, TidyKeeps, ResetCancelKeeps, ResetForgetKeeps DEF Run

-----------------------------------------------------------------------------
(* The steps of the server, the network, the clock and the process.        *)

\* A step of another than the flows: requests given up took effect, or flows ended.
LEMMA OutsideKeeps ==
  ASSUME FlowInv, NEW D, Moved(D), \A i : <<"verify", i>> \in D \/ <<"final", i>> \in D => Asked(i),
         screen' \in [Screen -> ScreenRow], Queue',
         \A x \in Screen : screen'[x] = screen[x] \/ screen'[x] = Idle,
         UNCHANGED <<disk, used, known, out, dropped>>, left' \in [crashes : Nat, ticks : Nat],
         late' \subseteq Kinds \X used, stored' \subseteq used,
         \A i : Asked(i)' => Asked(i) \/ \E x \in Screen : screen[x].rec # None /\ screen[x].rec.id = i
  PROVE  FlowInv'
<1>1. FlowShape' BY RowAt DEF FlowInv, FlowShape, Moved
<1>2. /\ \A i \in Intent : /\ ledger[i].retired => ledger'[i].retired
                           /\ intents[i].state \in Verifieds => intents'[i].state \in Verifieds
      /\ used \subseteq Intent /\ None \notin Intent /\ (disk # None => disk.id \in used)
      /\ \A x \in Screen : PlaceOK(screen[x], used) /\ WipeOK(screen[x])
  BY DEF Moved, FlowInv, FlowShape
<1>3. Idle.pc = "idle" /\ Idle.rec = None /\ Idle.id = None BY DEF Idle
<1>4. ASSUME NEW i \in Intent, Unrecorded(i) PROVE Unrecorded(i)'
  <2>1. ~Asked(i) /\ \A x \in Screen : screen[x].rec # None => screen[x].rec.id # i BY <1>4 DEF Unrecorded
  <2>2. ~Asked(i)' BY <2>1
  <2>3. intents'[i].state \notin Verifieds BY <1>4, <2>1 DEF Unrecorded, Moved
  <2>4. \A x \in Screen : screen'[x].rec # None => screen'[x].rec.id # i BY <1>3, <2>1
  <2> QED BY <1>4, <2>2, <2>3, <2>4 DEF Unrecorded
<1>5. ASSUME NEW x \in Screen
      PROVE  /\ PlaceOK(screen'[x], used') /\ WipeOK(screen[x])'
             /\ Finalizing(screen'[x]) => intents'[screen'[x].rec.id].state \in Verifieds
  <2>1. CASE screen'[x] = Idle BY <1>3, <2>1 DEF PlaceOK, WipeOK, Finalizing
  <2>2. CASE screen'[x] = screen[x]
    <3>1. PlaceOK(screen'[x], used') BY <1>2, <2>2 DEF PlaceOK, Finalizing
    <3>2. Finalizing(screen'[x]) => intents'[screen'[x].rec.id].state \in Verifieds
      <4>1. screen[x].rec # None => screen[x].rec.id \in Intent BY <1>2 DEF PlaceOK
      <4> QED BY <1>2, <2>2, <4>1 DEF FlowInv, FinalOK, Finalizing
    <3>3. WipeOK(screen[x])'
      <4>1. /\ screen[x].rec # None => screen[x].rec.id \in Intent
            /\ screen[x].id # None => screen[x].id \in Intent
            /\ screen[x].pc = "create" => screen[x].id # None
            /\ screen[x].pc = "erase" => screen[x].rec # None
        BY <1>2 DEF PlaceOK
      <4>2. ASSUME screen[x].id # None, Unrecorded(screen[x].id) PROVE Unrecorded(screen[x].id)'
        <5>1. PICK i \in Intent : i = screen[x].id BY <4>1, <4>2
        <5>2. Unrecorded(i)' BY <1>4, <4>2, <5>1
        <5> QED BY <2>2, <5>1, <5>2
      <4> QED BY <1>2, <2>2, <4>1, <4>2 DEF WipeOK
    <3> QED BY <3>1, <3>2, <3>3
  <2> QED BY <2>1, <2>2
<1>6. PhaseIsVerified' BY <1>2 DEF FlowInv, PhaseIsVerified, Verifieds
<1>7. FinalOK' BY <1>5 DEF FinalOK, Finalizing
<1>8. OneId'
  <2>1. \A x \in Screen : screen'[x].id = None \/ screen'[x].id = screen[x].id BY <1>3
  <2> QED BY <2>1 DEF FlowInv, OneId
<1>9. OutOK'
  <2>1. ASSUME NEW i \in out', ~ledger'[i].retired PROVE Unrecorded(i)' /\ \A x \in Screen : screen'[x].id # i
    <3>1. i \in Intent /\ i \in out /\ i # None BY <1>2, <2>1, RowAt DEF FlowInv, FlowShape
    <3>2. ~ledger[i].retired BY <1>2, <2>1, <3>1
    <3>3. Unrecorded(i) /\ \A x \in Screen : screen[x].id # i BY <3>1, <3>2 DEF FlowInv, OutOK
    <3>4. Unrecorded(i)' BY <1>4, <3>1, <3>3
    <3> QED BY <1>3, <3>1, <3>3, <3>4
  <2> QED BY <2>1 DEF OutOK
<1> QED BY <1>1, <1>5, <1>6, <1>7, <1>8, <1>9 DEF FlowInv, Moved

\* A request given up arrives, or is lost.
LEMMA ArriveKeeps ==
  ASSUME FlowInv, Arrive PROVE FlowInv'
<1>1. PICK m \in late :
        /\ late' = late \ {m}
        /\ \/ m[1] # "put" /\ Effect(m) /\ UNCHANGED stored
           \/ Unchanged /\ stored' = stored \union {m[2]}
           \/ Unchanged /\ UNCHANGED stored
        /\ UNCHANGED <<disk, screen, line, used, left, report>>
  BY DEF Arrive
<1>2. m \in Kinds \X used /\ late \subseteq Kinds \X used /\ FlowShape /\ LedgerOK BY DEF FlowInv, FlowShape
<1>3. PICK D \in {{}, {m}} : Moved(D) /\ \A i : <<"verify", i>> \in D \/ <<"final", i>> \in D => Asked(i)
  <2>1. CASE Unchanged
    <3>1. Moved({}) BY <1>1, <1>2, <2>1, StillMoves
    <3> QED BY <3>1
  <2>2. CASE m[1] # "put" /\ Effect(m)
    <3>1. m \in {"create", "cancel", "verify", "final"} \X used BY <1>2, <2>2 DEF Kinds
    <3>2. Moved({m}) BY <1>1, <1>2, <2>2, <3>1, EffectMoves
    <3>3. \A i : <<"verify", i>> \in {m} \/ <<"final", i>> \in {m} => Asked(i) BY DEF Asked
    <3> QED BY <3>2, <3>3
  <2> QED BY <1>1, <2>1, <2>2
<1>4. stored' \subseteq used BY <1>1, <1>2 DEF FlowShape
<1>5. screen' \in [Screen -> ScreenRow] /\ left' \in [crashes : Nat, ticks : Nat] /\ late' \subseteq Kinds \X used
  BY <1>1, <1>2 DEF FlowShape
<1>6. Queue' BY <1>1 DEF FlowInv, Queue
<1>7. \A i : Asked(i)' => Asked(i) BY <1>1 DEF Asked
<1>8. UNCHANGED <<disk, screen, used, known, out, dropped>> BY <1>1 DEF report
<1> QED BY <1>3, <1>4, <1>5, <1>6, <1>7, <1>8, OutsideKeeps

\* Time passes.
LEMMA ClockKeeps ==
  ASSUME FlowInv, Clock PROVE FlowInv'
<1>1. /\ Tick /\ UNCHANGED <<disk, screen, line, late, stored, used, known, out, dropped>>
      /\ left' = [left EXCEPT !["ticks"] = @ - 1] /\ left["ticks"] > 0
  BY DEF Clock, Spend, report
<1>2. UNCHANGED <<status, owner, members, enrolled, intents, ledger, submissions>> BY <1>1 DEF Tick, roster, tables
<1>3. LedgerTypeOK' BY <1>1, <1>2, RowAt DEF FlowInv, FlowShape, LedgerTypeOK, Tick
<1>4. LedgerOK' BY <1>1, <1>2 DEF FlowInv, LedgerOK, Issued
<1>5. Moved({}) BY <1>2, <1>3, <1>4 DEF Moved, Accepted
<1>6. left' \in [crashes : Nat, ticks : Nat]
  <2>1. left \in [crashes : Nat, ticks : Nat] BY DEF FlowInv, FlowShape
  <2>2. left.ticks \in Nat \ {0} BY <1>1, <2>1
  <2> QED BY <1>1, <2>1, <2>2
<1>7. Queue' BY <1>1 DEF FlowInv, Queue
<1>8. \A i : Asked(i)' => Asked(i) BY <1>1 DEF Asked
<1>9. screen' \in [Screen -> ScreenRow] /\ late' \subseteq Kinds \X used /\ stored' \subseteq used
  BY <1>1 DEF FlowInv, FlowShape
<1> QED BY <1>1, <1>5, <1>6, <1>7, <1>8, <1>9, OutsideKeeps

\* The process ends: what it awaited may still arrive.
LEMMA CrashKeeps ==
  ASSUME FlowInv, Crash PROVE FlowInv'
<1>1. /\ left' = [left EXCEPT !["crashes"] = @ - 1] /\ left["crashes"] > 0
      /\ screen' = [s \in Screen |-> Idle] /\ line' = <<>> /\ Unchanged
      /\ UNCHANGED <<disk, stored, used, known, out, dropped>>
      /\ late' \subseteq late \union UNION {Awaited(screen[s]) : s \in Screen}
  BY DEF Crash, Spend, report, Lingering
<1>2. FlowShape /\ LedgerOK BY DEF FlowInv
<1>3. Moved({}) BY <1>1, <1>2, StillMoves
<1>4. left' \in [crashes : Nat, ticks : Nat]
  <2>1. left \in [crashes : Nat, ticks : Nat] BY <1>2 DEF FlowShape
  <2>2. left.crashes \in Nat \ {0} BY <1>1, <2>1
  <2> QED BY <1>1, <2>1, <2>2
<1>5. Idle \in ScreenRow /\ Idle.pc \notin OfStore BY DEF Idle, ScreenRow, Pc, OfStore, Writes, Clears
<1>6. screen' \in [Screen -> ScreenRow] /\ \A x \in Screen : screen'[x] = Idle BY <1>1, <1>5
<1>7. Queue'
  <2>1. <<>> \in Seq(Screen) /\ DOMAIN <<>> = {} OBVIOUS
  <2> QED BY <1>1, <1>5, <1>6, <2>1 DEF Queue
<1>8. ASSUME NEW s \in Screen, NEW m \in Awaited(screen[s])
      PROVE  /\ m \in Kinds \X used
             /\ m[1] \in {"verify", "final"} => screen[s].rec # None /\ screen[s].rec.id = m[2]
  <2>1. /\ screen[s].pc \in {"create", "undo"} => screen[s].id \in used
        /\ screen[s].pc \in {"cancel", "refused", "reset", "verify", "final"} =>
             screen[s].rec # None /\ screen[s].rec.id \in used
    BY RowAt DEF PlaceOK
  <2> QED BY <1>8, <2>1 DEF Awaited, Kinds
<1>9. late' \subseteq Kinds \X used BY <1>1, <1>2, <1>8 DEF FlowShape
<1>10. \A i : Asked(i)' => Asked(i) \/ \E x \in Screen : screen[x].rec # None /\ screen[x].rec.id = i
  <2>1. ASSUME NEW i, NEW k \in {"verify", "final"}, <<k, i>> \in late' \ late
        PROVE  \E x \in Screen : screen[x].rec # None /\ screen[x].rec.id = i
    <3>1. PICK x \in Screen : <<k, i>> \in Awaited(screen[x]) BY <1>1, <2>1
    <3>2. <<k, i>>[1] = k /\ <<k, i>>[2] = i OBVIOUS
    <3> QED BY <1>8, <3>1, <3>2
  <2> QED BY <2>1 DEF Asked
<1>11. stored' \subseteq used BY <1>1, <1>2 DEF FlowShape
<1> QED BY <1>1, <1>3, <1>4, <1>6, <1>7, <1>9, <1>10, <1>11, OutsideKeeps

\* The app is started for the first time.
LEMMA FlowStarts ==
  ASSUME FlowInit PROVE FlowInv
<1>1. LedgerTypeOK
  BY DEF FlowInit, LedgerInit, LedgerTypeOK, NoIntentRow, NoLedgerRow, IntentRow, LedgerRow, UploadState
<1>2. \A i \in Intent : intents[i].state = "NONE" /\ ~ledger[i].retired
  BY DEF FlowInit, LedgerInit, NoIntentRow, NoLedgerRow
<1>3. Idle \in ScreenRow /\ Idle.pc = "idle" /\ Idle.rec = None /\ Idle.id = None BY DEF Idle, ScreenRow, Pc
<1>4. screen \in [Screen -> ScreenRow] /\ \A x \in Screen : screen[x] = Idle BY <1>3 DEF FlowInit
<1>5. FlowShape BY <1>1, <1>4 DEF FlowInit, FlowShape
<1>6. Queue
  <2>1. <<>> \in Seq(Screen) /\ DOMAIN <<>> = {} OBVIOUS
  <2> QED BY <1>3, <1>4, <2>1 DEF FlowInit, Queue, OfStore, Writes, Clears
<1>7. \A x \in Screen : PlaceOK(screen[x], used) /\ WipeOK(screen[x])
  BY <1>3, <1>4 DEF PlaceOK, WipeOK, Finalizing
<1>8. LedgerOK /\ PhaseIsVerified /\ FinalOK /\ OutOK /\ OneId
  BY <1>2, <1>3, <1>4
  DEF FlowInit, LedgerInit, LedgerOK, Issued, PhaseIsVerified, FinalOK, Finalizing, OutOK, OneId, Verifieds
<1> QED BY <1>5, <1>6, <1>7, <1>8 DEF FlowInv

\* The invariant is inductive.
LEMMA FlowInvHolds == FlowSpec => []FlowInv
<1>1. FlowInit => FlowInv BY FlowStarts
<1>2. FlowInv /\ [FlowNext]_flowVars => FlowInv'
  <2>1. ASSUME FlowInv, FlowNext PROVE FlowInv'
    BY <2>1, ClockKeeps, ArriveKeeps, CrashKeeps, CommandKeeps, AbortKeeps, ResetKeeps, RunKeeps DEF FlowNext
  <2>2. ASSUME FlowInv, UNCHANGED flowVars PROVE FlowInv'
    <3>1. UNCHANGED <<now, status, owner, members, enrolled, intents, ledger, submissions, disk, screen, line,
                      late, stored, used, left, known, out, dropped>>
      BY <2>2 DEF flowVars, server, report
    <3>2. FlowShape' BY <2>2, <3>1 DEF FlowInv, FlowShape, LedgerTypeOK
    <3>3. Queue' BY <2>2, <3>1 DEF FlowInv, Queue
    <3>4. \A i : Unrecorded(i) => Unrecorded(i)' BY <3>1 DEF Unrecorded, Asked
    <3>5. \A x \in Screen : PlaceOK(screen'[x], used') /\ WipeOK(screen[x])'
      BY <2>2, <3>1, <3>4 DEF FlowInv, PlaceOK, WipeOK, Finalizing
    <3>6. LedgerOK' /\ PhaseIsVerified' /\ FinalOK' /\ OneId'
      BY <2>2, <3>1 DEF FlowInv, LedgerOK, Issued, PhaseIsVerified, FinalOK, Finalizing, OneId
    <3>7. OutOK' BY <2>2, <3>1, <3>4 DEF FlowInv, OutOK
    <3> QED BY <3>1, <3>2, <3>3, <3>5, <3>6, <3>7 DEF FlowInv
  <2> QED BY <2>1, <2>2
<1> QED BY <1>1, <1>2, PTL DEF FlowSpec

\* RecordSound for any screens, attempts, losses, crashes and aborts: a record says
\* "finalizing" only of a verified upload, and no attempt reported as cancelled is accepted.
THEOREM RecordIsSound == FlowSpec => []RecordSound
<1>1. FlowInv => RecordSound
  <2>1. ASSUME FlowInv PROVE FlowTypeOK
    <3>1. \A s \in Screen : /\ screen[s].pc \in Pc
                            /\ screen[s].rec \in Record \union {None}
                            /\ screen[s].id \in used \union {None}
                            /\ screen[s].pc \in {"mark", "final"} => Finalizing(screen[s])
      BY <2>1, RowAt DEF ScreenRow, PlaceOK
    <3>2. \A s \in Screen : screen[s].pc \in OfStore <=> \E n \in DOMAIN line : line[n] = s
      BY <2>1 DEF FlowInv, Queue
    <3>3. /\ LedgerTypeOK /\ disk \in Record \union {None} /\ stored \subseteq used
          /\ late \subseteq Kinds \X used
      BY <2>1 DEF FlowInv, FlowShape
    <3> QED BY <3>1, <3>2, <3>3 DEF FlowTypeOK, Kinds
  <2>2. ASSUME FlowInv PROVE CancelledStaysOut
    <3>1. ASSUME NEW i \in out, i \in Accepted PROVE FALSE
      <4>1. PICK x \in submissions : x.intent = i /\ intents[i].state = "CONSUMED" /\ ~ledger[i].retired
        BY <2>2, <3>1 DEF FlowInv, LedgerOK, Accepted
      <4>2. Unrecorded(i) BY <2>2, <3>1, <4>1 DEF FlowInv, OutOK
      <4> QED BY <4>1, <4>2 DEF Unrecorded, Verifieds
    <3> QED BY <3>1 DEF CancelledStaysOut
  <2> QED BY <2>1, <2>2 DEF FlowInv, RecordSound
<1> QED BY <1>1, FlowInvHolds, PTL

-----------------------------------------------------------------------------
(* One screen: what the server accepted is known to the app.               *)

OneScreen == ~Unreadable /\ \A x, y \in Screen : x = y

\* The app was told that attempt i was accepted, or let go of it, or has it on disk; or
\* it cannot be accepted.
Safe(i) ==
  \/ i \in known \union dropped
  \/ ledger[i].retired
  \/ disk = [id |-> i, phase |-> "finalizing"]

\* Where the flow r is, the device has d; L is the ledger and K the attempts known.
DiskOK(r, d, L, K) ==
  /\ r.pc \in {"create", "save", "tidy"} => d = None
  /\ r.pc \in {"token", "put", "verify", "refused", "erase", "final", "clear", "reset", "forget"} => d = r.rec
  /\ r.pc = "mark" => d = [id |-> r.rec.id, phase |-> "verifying"]
  /\ r.pc \in {"undo", "cancel"} => d \in {None, r.rec}
  /\ r.pc = "wipe" => d = None \/ L[d.id].retired
  /\ r.pc = "wipe" /\ r.rec # None => d \in {None, r.rec}
  /\ r.pc = "clear" => r.rec.id \in K

KnownInv ==
  /\ \A i \in Accepted : Safe(i)
  /\ \A i \in Intent : <<"final", i>> \in late => Safe(i)
  /\ \A s \in Screen : DiskOK(screen[s], disk, ledger, known) /\ ~screen[s].void

\* A step of the flow keeps what is known, if a record that says "finalizing" is not lost.
LEMMA KnownStep ==
  ASSUME OneScreen, FlowInv, KnownInv, NEW s \in Screen, NEW q \in ScreenRow, Set(s, q),
         NEW D, Moved(D), \A i : <<"final", i>> \in D => i \in known',
         \A i \in Intent : <<"final", i>> \in late' =>
             <<"final", i>> \in late \/ disk' = [id |-> i, phase |-> "finalizing"],
         known \subseteq known', dropped \subseteq dropped',
         disk' = disk \/ disk = None \/ disk.phase # "finalizing" \/ disk.id \in known' \union dropped'
           \/ ledger'[disk.id].retired,
         DiskOK(q, disk', ledger', known')
  PROVE  KnownInv'
<1>1. \A i \in Intent : ledger[i].retired => ledger'[i].retired BY DEF Moved
<1>2. ASSUME NEW i \in Intent, Safe(i) PROVE Safe(i)'
  <2>1. CASE i \in known \union dropped BY <2>1 DEF Safe
  <2>2. CASE ledger[i].retired BY <1>1, <2>2 DEF Safe
  <2>3. CASE disk = [id |-> i, phase |-> "finalizing"]
    <3>1. disk # None /\ disk.id = i /\ disk.phase = "finalizing"
      <4>1. [id |-> i, phase |-> "finalizing"] \in Record BY DEF Record
      <4> QED BY <2>3, <4>1
    <3> QED BY <2>3, <3>1 DEF Safe
  <2> QED BY <1>2, <2>1, <2>2, <2>3 DEF Safe
<1>3. \A i \in Accepted' : Safe(i)'
  <2>1. ASSUME NEW i \in Accepted' PROVE Safe(i)'
    <3>1. i \in Accepted \/ <<"final", i>> \in D BY DEF Moved
    <3>2. CASE i \in Accepted
      <4>1. i \in Intent BY <3>2 DEF FlowInv, FlowShape, LedgerTypeOK, SubmissionRow, Accepted
      <4> QED BY <1>2, <3>2, <4>1 DEF KnownInv
    <3>3. CASE <<"final", i>> \in D BY <3>3 DEF Safe
    <3> QED BY <3>1, <3>2, <3>3
  <2> QED BY <2>1
<1>4. ASSUME NEW i \in Intent, <<"final", i>> \in late' PROVE Safe(i)'
  <2>1. CASE <<"final", i>> \in late BY <1>2, <2>1 DEF KnownInv
  <2>2. CASE disk' = [id |-> i, phase |-> "finalizing"] BY <2>2 DEF Safe
  <2> QED BY <1>4, <2>1, <2>2
<1>5. ASSUME NEW x \in Screen PROVE DiskOK(screen'[x], disk', ledger', known') /\ ~screen'[x].void
  <2>1. x = s BY DEF OneScreen
  <2>2. SameFlow(screen'[s], q) /\ ~screen'[s].void BY SetFields DEF FlowInv, FlowShape
  <2> QED BY <2>1, <2>2 DEF DiskOK, SameFlow
<1> QED BY <1>3, <1>4, <1>5 DEF KnownInv

\* What both invariants say of one screen.
LEMMA KnownAt ==
  ASSUME FlowInv, KnownInv, NEW s \in Screen
  PROVE  /\ screen[s] \in ScreenRow /\ PlaceOK(screen[s], used) /\ ~screen[s].void
         /\ DiskOK(screen[s], disk, ledger, known)
         /\ screen[s].rec # None => screen[s].rec \in Record /\ screen[s].rec.id \in used
         /\ disk # None => disk \in Record /\ disk.id \in used
         /\ used \subseteq Intent /\ FlowShape /\ LedgerOK
  BY RowAt DEF FlowInv, FlowShape, KnownInv

\* Where the rows a flow goes on with leave it.
LEMMA IdleDisk ==
  ASSUME NEW d, NEW L, NEW K PROVE Idle \in ScreenRow /\ DiskOK(Idle, d, L, K) /\ ~Idle.void
  BY DEF Idle, ScreenRow, Pc, DiskOK

\* A cancellation has its record on disk, or nothing; without one, what is there is retired.
LEMMA CancellingDisk ==
  ASSUME NEW r \in ScreenRow, NEW d, NEW L, NEW K,
         r.rec # None => d \in {None, r.rec}, r.rec = None => d = None \/ L[d.id].retired
  PROVE  Cancelling(r) \in ScreenRow /\ DiskOK(Cancelling(r), d, L, K)
<1>1. CASE r.rec = None
  <2>1. "wipe" \in Pc BY DEF Pc
  <2>2. PICK q \in ScreenRow : q = [r EXCEPT !.pc = "wipe"] /\ q.pc = "wipe" /\ q.rec = r.rec
    BY <2>1, RowMoves
  <2> QED BY <1>1, <2>2 DEF Cancelling, DiskOK
<1>2. CASE r.rec # None
  <2>1. "cancel" \in Pc BY DEF Pc
  <2>2. PICK q \in ScreenRow : q = [r EXCEPT !.pc = "cancel"] /\ q.pc = "cancel" /\ q.rec = r.rec
    BY <2>1, RowMoves
  <2> QED BY <1>2, <2>2 DEF Cancelling, DiskOK
<1> QED BY <1>1, <1>2

\* So has the catch, unless the flow ends there.
LEMMA ThrownDisk ==
  ASSUME NEW r \in ScreenRow, NEW d, NEW L, NEW K,
         ~Finalizing(r) /\ r.rec # None => d \in {None, r.rec}, r.rec = None => d = None \/ L[d.id].retired
  PROVE  Thrown(r) \in ScreenRow /\ DiskOK(Thrown(r), d, L, K)
<1>1. PICK x \in ScreenRow : x = [r EXCEPT !.last = TRUE] /\ x.rec = r.rec
  <2>1. [r EXCEPT !.last = TRUE] \in ScreenRow /\ [r EXCEPT !.last = TRUE].rec = r.rec BY DEF ScreenRow
  <2> QED BY <2>1
<1>2. Idle \in ScreenRow /\ DiskOK(Idle, d, L, K) BY IdleDisk
<1>3. ~Finalizing(r) => Cancelling(x) \in ScreenRow /\ DiskOK(Cancelling(x), d, L, K) BY <1>1, CancellingDisk
<1> QED BY <1>1, <1>2, <1>3 DEF Thrown

\* A flow with its record in hand has it on disk.
LEMMA MoveDisk ==
  ASSUME NEW r \in ScreenRow, NEW pc \in {"token", "put", "verify", "refused", "erase", "final", "forget"},
         NEW L, NEW K
  PROVE  [r EXCEPT !.pc = pc] \in ScreenRow /\ DiskOK([r EXCEPT !.pc = pc], r.rec, L, K)
<1>1. pc \in Pc BY DEF Pc
<1>2. PICK q \in ScreenRow : q = [r EXCEPT !.pc = pc] /\ q.pc = pc /\ q.rec = r.rec BY <1>1, RowMoves
<1> QED BY <1>2 DEF DiskOK

\* So has one that goes on after an await.
LEMMA GoOnDisk ==
  ASSUME NEW r \in ScreenRow, NEW pc \in {"token", "put", "verify", "final"}, NEW L, NEW K, r.rec # None
  PROVE  GoOn(r, pc) \in ScreenRow /\ DiskOK(GoOn(r, pc), r.rec, L, K)
<1>1. [r EXCEPT !.pc = pc] \in ScreenRow /\ DiskOK([r EXCEPT !.pc = pc], r.rec, L, K) BY MoveDisk
<1>2. Cancelling(r) \in ScreenRow /\ DiskOK(Cancelling(r), r.rec, L, K) BY CancellingDisk
<1> QED BY <1>1, <1>2 DEF GoOn

\* A call that was not answered, or refused.
LEMMA UnansweredKnown ==
  ASSUME OneScreen, FlowInv, KnownInv, NEW s \in Screen, NEW pc, NEW m \in (Kinds \ {"put"}) \X used,
         NEW q \in ScreenRow,
         Unanswered(s, pc, m) \/ Refused(s, pc),
         m[1] = "final" => screen[s].pc = "final" /\ screen[s].rec.id = m[2],
         Calls, Silent, Set(s, q), DiskOK(q, disk, ledger, known)
  PROVE  KnownInv'
<1>1. late' \subseteq late \union {m} BY DEF Unanswered, Refused, Lingering
<1>2. Unchanged /\ UNCHANGED <<disk, used, known, dropped>> BY DEF Unanswered, Refused, Calls, Silent, report
<1>3. UNCHANGED ledger BY <1>2 DEF Unchanged, server
<1>4. Moved({}) BY <1>2, KnownAt, StillMoves
<1>5. m[1] = "final" => disk = [id |-> m[2], phase |-> "finalizing"]
  <2>1. screen[s].pc = "final" => disk = screen[s].rec /\ Finalizing(screen[s]) /\ screen[s].rec \in Record
    BY KnownAt DEF DiskOK, PlaceOK
  <2> QED BY <2>1 DEF Finalizing, Record
<1>6. \A i \in Intent : <<"final", i>> \in late' =>
          <<"final", i>> \in late \/ disk' = [id |-> i, phase |-> "finalizing"]
  <2>1. ASSUME NEW i \in Intent, <<"final", i>> = m PROVE m[1] = "final" /\ m[2] = i BY <2>1
  <2> QED BY <1>1, <1>2, <1>5, <2>1
<1>7. \A i : <<"final", i>> \in {} => i \in known' OBVIOUS
<1> QED BY <1>2, <1>3, <1>4, <1>6, <1>7, KnownStep

\* An answered call.
LEMMA AnsweredKnown ==
  ASSUME OneScreen, FlowInv, KnownInv, NEW s \in Screen, NEW m \in (Kinds \ {"put"}) \X used, NEW q \in ScreenRow,
         Effect(m), m[1] = "final" => m[2] \in known',
         Calls, UNCHANGED <<late, dropped>>, known \subseteq known', Set(s, q), DiskOK(q, disk, ledger', known')
  PROVE  KnownInv'
<1>1. Moved({m}) BY AnsweredMoves
<1>2. disk' = disk BY DEF Calls
<1>3. \A i : <<"final", i>> \in {m} => i \in known' OBVIOUS
<1> QED BY <1>1, <1>2, <1>3, KnownStep

\* An operation of the record's store.
LEMMA StoreKnown ==
  ASSUME OneScreen, FlowInv, KnownInv, NEW s \in Screen, NEW pc, NEW x, NEW q \in ScreenRow,
         Stores(s, pc, x) \/ Fails(s, pc, x), known' = known, dropped \subseteq dropped',
         disk = None \/ disk.phase # "finalizing" \/ disk.id \in known \union dropped' \/ ledger[disk.id].retired,
         Set(s, q), DiskOK(q, disk', ledger, known)
  PROVE  KnownInv'
<1>1. Unchanged /\ UNCHANGED <<late, used>> BY DEF Stores, Fails
<1>2. UNCHANGED ledger BY <1>1 DEF Unchanged, server
<1>3. Moved({}) BY <1>1, KnownAt, StillMoves
<1>4. \A i : <<"final", i>> \in {} => i \in known' OBVIOUS
<1> QED BY <1>1, <1>2, <1>3, <1>4, KnownStep

\* A step that leaves everything but the row and the queue, and the attempts begun.
LEMMA QuietKnown ==
  ASSUME OneScreen, FlowInv, KnownInv, NEW s \in Screen, NEW q \in ScreenRow,
         Unchanged, UNCHANGED <<disk, late, known, dropped>>, used \subseteq used',
         Set(s, q), DiskOK(q, disk, ledger, known)
  PROVE  KnownInv'
<1>1. UNCHANGED ledger BY DEF Unchanged, server
<1>2. Moved({}) BY KnownAt, StillMoves
<1>3. \A i : <<"final", i>> \in {} => i \in known' OBVIOUS
<1> QED BY <1>1, <1>2, <1>3, KnownStep

\* A command starts with nothing at hand.
LEMMA CommandKnown ==
  ASSUME OneScreen, FlowInv, KnownInv, NEW s \in Screen, Command(s) PROVE KnownInv'
<1>1. PICK cmd \in {"new", "resume", "cancel"} : Set(s, [Idle EXCEPT !.pc = "read", !.cmd = cmd])
  BY DEF Command
<1>2. /\ [Idle EXCEPT !.pc = "read", !.cmd = cmd] \in ScreenRow
      /\ DiskOK([Idle EXCEPT !.pc = "read", !.cmd = cmd], disk, ledger, known)
  BY DEF Idle, ScreenRow, Pc, DiskOK
<1> QED BY <1>1, <1>2, QuietKnown DEF Command, report

\* An abort leaves the record where it is.
LEMMA AbortKnown ==
  ASSUME FlowInv, KnownInv, NEW s \in Screen, Abort(s) PROVE KnownInv'
<1>1. UNCHANGED <<ledger, submissions, disk, late, known, dropped>> BY DEF Abort, Unchanged, server, report
<1>2. \A i : Safe(i) => Safe(i)' BY <1>1 DEF Safe
<1>3. ASSUME NEW x \in Screen PROVE DiskOK(screen'[x], disk', ledger', known') /\ ~screen'[x].void
  <2>1. screen[x] \in ScreenRow /\ screen \in [Screen -> ScreenRow] BY DEF FlowInv, FlowShape
  <2>2. SameFlow(screen'[x], [screen[x] EXCEPT !.aborted = screen'[x].aborted]) /\ screen'[x].void = screen[x].void
    BY <2>1 DEF Abort, SameFlow, ScreenRow
  <2>3. screen'[x].pc = screen[x].pc /\ screen'[x].rec = screen[x].rec
    BY <2>1, <2>2 DEF SameFlow, ScreenRow
  <2> QED BY <1>1, <2>2, <2>3 DEF KnownInv, DiskOK
<1> QED BY <1>1, <1>2, <1>3 DEF KnownInv, Accepted

\* A device that can be read, as OneScreen has it, leaves no aborted flow without its record.
LEMMA ReadKnown ==
  ASSUME OneScreen, FlowInv, KnownInv, NEW s \in Screen, Read(s) PROVE KnownInv'
<1>1. /\ screen[s].pc = "read" /\ Unchanged /\ UNCHANGED <<disk, late, known, dropped>> BY DEF Read, First, report
<1>2. screen[s] \in ScreenRow /\ disk \in Record \union {None} /\ used \subseteq Intent
  BY KnownAt DEF FlowShape
<1>3. PICK r \in ScreenRow : r = [screen[s] EXCEPT !.rec = disk] /\ r.rec = disk /\ r.aborted = screen[s].aborted
  <2>1. /\ [screen[s] EXCEPT !.rec = disk] \in ScreenRow /\ [screen[s] EXCEPT !.rec = disk].rec = disk
        /\ [screen[s] EXCEPT !.rec = disk].aborted = screen[s].aborted
    BY <1>2 DEF ScreenRow
  <2> QED BY <2>1
<1>4. \/ Set(s, Cancelling(r)) /\ UNCHANGED used
      \/ disk # None /\ Set(s, Resumed(r)) /\ UNCHANGED used
      \/ Set(s, Thrown(r)) /\ UNCHANGED used
      \/ ~screen[s].aborted /\ Throw(s) /\ UNCHANGED used
      \/ /\ disk = None
         /\ \E i \in Intent \ used : used' = used \union {i} /\ Set(s, [r EXCEPT !.pc = "create", !.id = i])
  <2>1. ~Unreadable BY DEF OneScreen
  <2> QED BY <1>3, <2>1 DEF Read
<1>5. ASSUME NEW q \in ScreenRow, used \subseteq used', Set(s, q), DiskOK(q, disk, ledger, known) PROVE KnownInv'
  BY <1>1, <1>5, QuietKnown
<1>6. CASE Set(s, Cancelling(r)) /\ UNCHANGED used
  <2>1. Cancelling(r) \in ScreenRow /\ DiskOK(Cancelling(r), disk, ledger, known) BY <1>3, CancellingDisk
  <2> QED BY <1>5, <1>6, <2>1
<1>7. CASE disk # None /\ Set(s, Resumed(r)) /\ UNCHANGED used
  <2>1. [r EXCEPT !.pc = "verify"] \in ScreenRow /\ DiskOK([r EXCEPT !.pc = "verify"], disk, ledger, known)
    <3>1. [r EXCEPT !.pc = "verify"] \in ScreenRow /\ DiskOK([r EXCEPT !.pc = "verify"], r.rec, ledger, known)
      BY MoveDisk
    <3> QED BY <1>3, <3>1
  <2>2. GoOn(r, "final") \in ScreenRow /\ DiskOK(GoOn(r, "final"), disk, ledger, known)
    <3>1. r.rec # None BY <1>3, <1>7
    <3>2. GoOn(r, "final") \in ScreenRow /\ DiskOK(GoOn(r, "final"), r.rec, ledger, known)
      BY <3>1, GoOnDisk
    <3> QED BY <1>3, <3>2
  <2>3. Resumed(r) = [r EXCEPT !.pc = "verify"] \/ Resumed(r) = GoOn(r, "final") BY DEF Resumed
  <2> QED BY <1>5, <1>7, <2>1, <2>2, <2>3
<1>8. CASE Set(s, Thrown(r)) /\ UNCHANGED used
  <2>1. Thrown(r) \in ScreenRow /\ DiskOK(Thrown(r), disk, ledger, known) BY <1>3, ThrownDisk
  <2> QED BY <1>5, <1>8, <2>1
<1>9. CASE ~screen[s].aborted /\ Throw(s) /\ UNCHANGED used
  <2>1. Set(s, Idle) BY <1>9 DEF Throw, Thrown
  <2> QED BY <1>5, <1>9, <2>1, IdleDisk
<1>10. ASSUME disk = None, NEW i \in Intent \ used, used' = used \union {i},
              Set(s, [r EXCEPT !.pc = "create", !.id = i])
       PROVE  KnownInv'
  <2>1. [r EXCEPT !.pc = "create", !.id = i] \in ScreenRow /\ [r EXCEPT !.pc = "create", !.id = i].pc = "create"
    BY DEF ScreenRow, Pc
  <2>2. DiskOK([r EXCEPT !.pc = "create", !.id = i], disk, ledger, known) BY <1>10, <2>1 DEF DiskOK
  <2> QED BY <1>5, <1>10, <2>1, <2>2
<1> QED BY <1>4, <1>6, <1>7, <1>8, <1>9, <1>10

\* A call that failed is caught; what the device has is the flow's record, or nothing.
LEMMA CaughtKnown ==
  ASSUME OneScreen, FlowInv, KnownInv, NEW s \in Screen, NEW pc, NEW m \in (Kinds \ {"put"}) \X used,
         Unanswered(s, pc, m) \/ Refused(s, pc),
         m[1] = "final" => screen[s].pc = "final" /\ screen[s].rec.id = m[2],
         Calls, Silent, Throw(s),
         screen[s].pc \in {"create", "undo", "token", "verify", "refused", "final", "cancel"}
  PROVE  KnownInv'
<1>1. Thrown(screen[s]) \in ScreenRow /\ DiskOK(Thrown(screen[s]), disk, ledger, known)
  <2>1. ~Finalizing(screen[s]) /\ screen[s].rec # None => disk \in {None, screen[s].rec} BY KnownAt DEF DiskOK
  <2>2. screen[s].rec = None => disk = None BY KnownAt DEF DiskOK, PlaceOK
  <2> QED BY <2>1, <2>2, KnownAt, ThrownDisk
<1> QED BY <1>1, UnansweredKnown DEF Throw

\* An attempt is begun only when the device has no record.
LEMMA RequestIntentKnown ==
  ASSUME OneScreen, FlowInv, KnownInv, NEW s \in Screen, RequestIntent(s) PROVE KnownInv'
<1>1. screen[s].pc = "create" /\ Calls /\ Silent /\ UNCHANGED <<known, dropped>>
  BY DEF RequestIntent, Answered, Unanswered, Refused, Silent, report
<1>2. PICK i \in used : i = screen[s].id BY <1>1, KnownAt DEF PlaceOK
<1>3. <<"create", i>> \in (Kinds \ {"put"}) \X used /\ <<"create", i>>[1] # "final" BY CallNames DEF Kinds
<1>4. ASSUME Effect(<<"create", i>>), UNCHANGED late,
             Set(s, [screen[s] EXCEPT !.pc = "save", !.rec = [id |-> i, phase |-> "verifying"]])
      PROVE  KnownInv'
  <2>1. PICK x \in Record : x = [id |-> i, phase |-> "verifying"]
    <3>1. [id |-> i, phase |-> "verifying"] \in Record BY KnownAt DEF Record
    <3> QED BY <3>1
  <2>2. PICK q \in ScreenRow : q = [screen[s] EXCEPT !.pc = "save", !.rec = x] /\ q.pc = "save"
    <3>1. screen[s] \in ScreenRow BY KnownAt
    <3>2. /\ [screen[s] EXCEPT !.pc = "save", !.rec = x] \in ScreenRow
          /\ [screen[s] EXCEPT !.pc = "save", !.rec = x].pc = "save"
      BY <3>1 DEF ScreenRow, Pc
    <3> QED BY <3>2
  <2>3. disk = None BY <1>1, KnownAt DEF DiskOK
  <2>4. DiskOK(q, disk, ledger', known') BY <2>2, <2>3 DEF DiskOK
  <2> QED BY <1>1, <1>3, <1>4, <2>1, <2>2, <2>4, AnsweredKnown
<1>5. ASSUME Unanswered(s, "create", <<"create", i>>) \/ Refused(s, "create"), Throw(s) PROVE KnownInv'
  BY <1>1, <1>3, <1>5, CaughtKnown
<1> QED BY <1>2, <1>4, <1>5 DEF RequestIntent, Answered

\* The record on disk is the flow's, or none if the device failed.
LEMMA SaveKnown ==
  ASSUME OneScreen, FlowInv, KnownInv, NEW s \in Screen, Save(s) PROVE KnownInv'
<1>1. /\ screen[s].pc = "save" /\ UNCHANGED <<known, dropped>>
  BY DEF Save, Stores, Fails, First, Silent, report
<1>2. disk = None /\ screen[s] \in ScreenRow /\ screen[s].rec # None /\ ~screen[s].void
  BY <1>1, KnownAt DEF DiskOK, PlaceOK
<1>3. ASSUME Stores(s, "save", screen[s].rec), Set(s, GoOn(screen[s], "token")) PROVE KnownInv'
  <2>1. disk' = screen[s].rec BY <1>3 DEF Stores
  <2>2. GoOn(screen[s], "token") \in ScreenRow /\ DiskOK(GoOn(screen[s], "token"), disk', ledger, known)
    BY <1>2, <2>1, GoOnDisk
  <2> QED BY <1>1, <1>2, <1>3, <2>2, StoreKnown
<1>4. ASSUME Fails(s, "save", screen[s].rec), MoveTo(s, "undo") PROVE KnownInv'
  <2>1. disk' \in {None, screen[s].rec} BY <1>2, <1>4 DEF Fails
  <2>2. PICK q \in ScreenRow : q = [screen[s] EXCEPT !.pc = "undo"] /\ q.pc = "undo" /\ q.rec = screen[s].rec
    <3>1. "undo" \in Pc BY DEF Pc
    <3>2. /\ [screen[s] EXCEPT !.pc = "undo"] \in ScreenRow /\ [screen[s] EXCEPT !.pc = "undo"].pc = "undo"
          /\ [screen[s] EXCEPT !.pc = "undo"].rec = screen[s].rec
      BY <1>2, <3>1, RowMoves
    <3> QED BY <3>2
  <2>3. DiskOK(q, disk', ledger, known) BY <2>1, <2>2 DEF DiskOK
  <2> QED BY <1>1, <1>2, <1>4, <2>2, <2>3, StoreKnown DEF MoveTo
<1> QED BY <1>3, <1>4 DEF Save

\* An undone attempt is retired, whether its record is on disk or not.
LEMMA UndoIntentKnown ==
  ASSUME OneScreen, FlowInv, KnownInv, NEW s \in Screen, UndoIntent(s) PROVE KnownInv'
<1>1. screen[s].pc = "undo" /\ Calls /\ Silent /\ UNCHANGED <<disk, known, dropped>>
  BY DEF UndoIntent, Answered, Unanswered, Refused, Calls, Silent, report
<1>2. PICK i \in used : i = screen[s].id /\ screen[s].id # None /\ screen[s].rec # None /\ screen[s].rec.id = i
  BY <1>1, KnownAt DEF PlaceOK
<1>3. <<"cancel", i>> \in (Kinds \ {"put"}) \X used /\ <<"cancel", i>>[1] # "final" BY CallNames DEF Kinds
<1>4. ASSUME Effect(<<"cancel", i>>), UNCHANGED late, Set(s, Thrown([screen[s] EXCEPT !.rec = None])) PROVE KnownInv'
  <2>1. ledger'[i].retired BY <1>1, <1>4, Retired
  <2>2. PICK r \in ScreenRow : r = [screen[s] EXCEPT !.rec = None] /\ r.rec = None
    <3>1. screen[s] \in ScreenRow BY KnownAt
    <3>2. [screen[s] EXCEPT !.rec = None] \in ScreenRow /\ [screen[s] EXCEPT !.rec = None].rec = None
      BY <3>1 DEF ScreenRow
    <3> QED BY <3>2
  <2>3. disk = None \/ ledger'[disk.id].retired BY <1>1, <1>2, <2>1, KnownAt DEF DiskOK
  <2>4. Thrown(r) \in ScreenRow /\ DiskOK(Thrown(r), disk, ledger', known') BY <2>2, <2>3, ThrownDisk
  <2> QED BY <1>1, <1>3, <1>4, <2>2, <2>4, AnsweredKnown
<1>5. ASSUME Unanswered(s, "undo", <<"cancel", i>>) \/ Refused(s, "undo"), Throw(s) PROVE KnownInv'
  BY <1>1, <1>3, <1>5, CaughtKnown
<1> QED BY <1>2, <1>4, <1>5 DEF UndoIntent, Answered

\* The token leaves the record on disk.
LEMMA GetTokenKnown ==
  ASSUME OneScreen, FlowInv, KnownInv, NEW s \in Screen, GetToken(s) PROVE KnownInv'
<1>1. screen[s].pc = "token" /\ Calls /\ Silent /\ Refused(s, "token") BY DEF GetToken, Refused
<1>2. PICK i \in used : i = screen[s].id /\ screen[s].rec # None BY <1>1, KnownAt DEF PlaceOK
<1>3. <<"create", i>> \in (Kinds \ {"put"}) \X used /\ <<"create", i>>[1] # "final" BY CallNames DEF Kinds
<1>4. CASE Set(s, GoOn(screen[s], "put"))
  <2>1. disk = screen[s].rec /\ screen[s] \in ScreenRow BY <1>1, KnownAt DEF DiskOK
  <2>2. GoOn(screen[s], "put") \in ScreenRow /\ DiskOK(GoOn(screen[s], "put"), disk, ledger, known)
    BY <1>2, <2>1, GoOnDisk
  <2> QED BY <1>1, <1>3, <1>4, <2>2, UnansweredKnown
<1>5. CASE Throw(s) BY <1>1, <1>3, <1>5, CaughtKnown
<1> QED BY <1>4, <1>5 DEF GetToken

\* So does the upload.
LEMMA UploadKnown ==
  ASSUME OneScreen, FlowInv, KnownInv, NEW s \in Screen, Upload(s) PROVE KnownInv'
<1>1. /\ screen[s].pc = "put" /\ Unchanged /\ UNCHANGED <<disk, used, known, dropped>>
      /\ Set(s, [screen[s] EXCEPT !.pc = "verify"])
      /\ late' \subseteq late \union {<<"put", screen[s].id>>}
  BY DEF Upload, Calls, Silent, report, MoveTo, Lingering
<1>2. disk = screen[s].rec /\ screen[s] \in ScreenRow BY <1>1, KnownAt DEF DiskOK
<1>3. /\ [screen[s] EXCEPT !.pc = "verify"] \in ScreenRow
      /\ DiskOK([screen[s] EXCEPT !.pc = "verify"], disk, ledger, known)
  BY <1>2, MoveDisk
<1>4. \A i : <<"final", i>> \in late' => <<"final", i>> \in late BY <1>1
<1>5. Moved({}) BY <1>1, KnownAt, StillMoves
<1>6. UNCHANGED ledger BY <1>1 DEF Unchanged, server
<1>7. \A i : <<"final", i>> \in {} => i \in known' OBVIOUS
<1> QED BY <1>1, <1>3, <1>4, <1>5, <1>6, <1>7, KnownStep

\* In memory the record moves to "finalizing", on disk it does not yet.
LEMMA VerifyUploadedKnown ==
  ASSUME OneScreen, FlowInv, KnownInv, NEW s \in Screen, VerifyUploaded(s) PROVE KnownInv'
<1>1. screen[s].pc = "verify" /\ Calls /\ Silent /\ UNCHANGED <<disk, known, dropped>>
  BY DEF VerifyUploaded, UploadVerified, Answered, Unanswered, Refused, Calls, Silent, report
<1>2. PICK i \in used : i = screen[s].rec.id /\ screen[s].rec # None /\ screen[s].rec \in Record
  BY <1>1, KnownAt DEF PlaceOK
<1>3. screen[s] \in ScreenRow /\ disk = screen[s].rec /\ ~Finalizing(screen[s])
  BY <1>1, KnownAt DEF DiskOK, PlaceOK
<1>4. <<"verify", i>> \in (Kinds \ {"put"}) \X used /\ <<"verify", i>>[1] # "final" BY CallNames DEF Kinds
<1>5. ASSUME Effect(<<"verify", i>>), UNCHANGED late,
             Set(s, IF screen[s].aborted THEN Cancelling(screen[s])
                      ELSE [screen[s] EXCEPT !.pc = "mark", !.rec.phase = "finalizing"])
      PROVE  KnownInv'
  <2>1. PICK q \in ScreenRow : /\ q = [screen[s] EXCEPT !.pc = "mark", !.rec.phase = "finalizing"]
                               /\ q.pc = "mark" /\ q.rec.id = i
    <3>1. PICK x \in Record : x = [screen[s].rec EXCEPT !.phase = "finalizing"] /\ x.id = i
      <4>1. /\ [screen[s].rec EXCEPT !.phase = "finalizing"] \in Record
            /\ [screen[s].rec EXCEPT !.phase = "finalizing"].id = i
        BY <1>2 DEF Record
      <4> QED BY <4>1
    <3>2. [screen[s] EXCEPT !.pc = "mark", !.rec.phase = "finalizing"] = [screen[s] EXCEPT !.pc = "mark", !.rec = x]
      BY <1>3, <3>1 DEF ScreenRow
    <3>3. /\ [screen[s] EXCEPT !.pc = "mark", !.rec = x] \in ScreenRow
          /\ [screen[s] EXCEPT !.pc = "mark", !.rec = x].pc = "mark"
          /\ [screen[s] EXCEPT !.pc = "mark", !.rec = x].rec = x
      BY <1>3 DEF ScreenRow, Pc
    <3> QED BY <3>1, <3>2, <3>3
  <2>2. disk = [id |-> i, phase |-> "verifying"] BY <1>2, <1>3 DEF Finalizing, Record
  <2>3. DiskOK(q, disk, ledger', known') BY <2>1, <2>2 DEF DiskOK
  <2>4. Cancelling(screen[s]) \in ScreenRow /\ DiskOK(Cancelling(screen[s]), disk, ledger', known')
    BY <1>2, <1>3, CancellingDisk
  <2> QED BY <1>1, <1>4, <1>5, <2>1, <2>3, <2>4, AnsweredKnown
<1>6. ASSUME Unanswered(s, "verify", <<"verify", i>>) \/ Refused(s, "verify"), Throw(s) PROVE KnownInv'
  BY <1>1, <1>4, <1>6, CaughtKnown
<1>7. ASSUME Refused(s, "verify"), MoveTo(s, "refused") PROVE KnownInv'
  <2>1. /\ [screen[s] EXCEPT !.pc = "refused"] \in ScreenRow
        /\ DiskOK([screen[s] EXCEPT !.pc = "refused"], disk, ledger, known)
    BY <1>3, MoveDisk
  <2> QED BY <1>1, <1>4, <1>7, <2>1, UnansweredKnown DEF MoveTo
<1> QED BY <1>2, <1>5, <1>6, <1>7 DEF VerifyUploaded, UploadVerified, Answered

\* The record of a refused upload is on disk until its intent is retired.
LEMMA DropRefusedKnown ==
  ASSUME OneScreen, FlowInv, KnownInv, NEW s \in Screen, DropRefused(s) PROVE KnownInv'
<1>1. screen[s].pc = "refused" /\ Calls /\ Silent /\ UNCHANGED <<disk, known, dropped>>
  BY DEF DropRefused, Answered, Unanswered, Refused, Calls, Silent, report
<1>2. PICK i \in used : i = screen[s].rec.id BY <1>1, KnownAt DEF PlaceOK
<1>3. <<"cancel", i>> \in (Kinds \ {"put"}) \X used /\ <<"cancel", i>>[1] # "final" BY CallNames DEF Kinds
<1>4. ASSUME Effect(<<"cancel", i>>), UNCHANGED late, MoveTo(s, "erase") PROVE KnownInv'
  <2>1. screen[s] \in ScreenRow /\ disk = screen[s].rec BY <1>1, KnownAt DEF DiskOK
  <2>2. /\ [screen[s] EXCEPT !.pc = "erase"] \in ScreenRow
        /\ DiskOK([screen[s] EXCEPT !.pc = "erase"], disk, ledger', known')
    BY <2>1, MoveDisk
  <2> QED BY <1>1, <1>3, <1>4, <2>2, AnsweredKnown DEF MoveTo
<1>5. ASSUME Unanswered(s, "refused", <<"cancel", i>>) \/ Refused(s, "refused"), Throw(s) PROVE KnownInv'
  BY <1>1, <1>3, <1>5, CaughtKnown
<1> QED BY <1>2, <1>4, <1>5 DEF DropRefused, Answered

\* It said "verifying" when it goes.
LEMMA EraseRefusedKnown ==
  ASSUME OneScreen, FlowInv, KnownInv, NEW s \in Screen, EraseRefused(s) PROVE KnownInv'
<1>1. screen[s].pc = "erase" /\ UNCHANGED <<known, dropped>>
  BY DEF EraseRefused, Stores, Fails, First, Silent, report
<1>2. /\ screen[s] \in ScreenRow /\ disk = screen[s].rec /\ screen[s].rec # None
      /\ ~Finalizing(screen[s]) /\ ~screen[s].void
  BY <1>1, KnownAt DEF DiskOK, PlaceOK
<1>3. disk.phase # "finalizing" BY <1>2 DEF Finalizing
<1>4. ASSUME Stores(s, "erase", None), Set(s, Thrown([screen[s] EXCEPT !.rec = None])) PROVE KnownInv'
  <2>1. PICK r \in ScreenRow : r = [screen[s] EXCEPT !.rec = None] /\ r.rec = None
    <3>1. [screen[s] EXCEPT !.rec = None] \in ScreenRow /\ [screen[s] EXCEPT !.rec = None].rec = None
      BY <1>2 DEF ScreenRow
    <3> QED BY <3>1
  <2>2. disk' = None BY <1>4 DEF Stores
  <2>3. Thrown(r) \in ScreenRow /\ DiskOK(Thrown(r), disk', ledger, known) BY <2>1, <2>2, ThrownDisk
  <2> QED BY <1>1, <1>3, <1>4, <2>1, <2>3, StoreKnown
<1>5. ASSUME Fails(s, "erase", None), Throw(s) PROVE KnownInv'
  <2>1. disk' \in {None, screen[s].rec} BY <1>2, <1>5 DEF Fails
  <2>2. Thrown(screen[s]) \in ScreenRow /\ DiskOK(Thrown(screen[s]), disk', ledger, known)
    BY <1>2, <2>1, ThrownDisk
  <2> QED BY <1>1, <1>3, <1>5, <2>2, StoreKnown DEF Throw
<1> QED BY <1>4, <1>5 DEF EraseRefused

\* "finalizing" is on disk before the server is asked to.
LEMMA MarkRecordKnown ==
  ASSUME OneScreen, FlowInv, KnownInv, NEW s \in Screen, MarkRecord(s) PROVE KnownInv'
<1>1. screen[s].pc = "mark" /\ UNCHANGED <<known, dropped>>
  BY DEF MarkRecord, Stores, Fails, First, Silent, report
<1>2. screen[s] \in ScreenRow /\ screen[s].rec # None /\ Finalizing(screen[s]) /\ disk.phase # "finalizing"
  BY <1>1, KnownAt DEF DiskOK, PlaceOK
<1>3. ASSUME Stores(s, "mark", screen[s].rec), Set(s, GoOn(screen[s], "final")) PROVE KnownInv'
  <2>1. disk' = screen[s].rec BY <1>3 DEF Stores
  <2>2. GoOn(screen[s], "final") \in ScreenRow /\ DiskOK(GoOn(screen[s], "final"), disk', ledger, known)
    BY <1>2, <2>1, GoOnDisk
  <2> QED BY <1>1, <1>2, <1>3, <2>2, StoreKnown
<1>4. ASSUME Fails(s, "mark", screen[s].rec), Throw(s) PROVE KnownInv'
  <2>1. Thrown(screen[s]) \in ScreenRow /\ DiskOK(Thrown(screen[s]), disk', ledger, known) BY <1>2, ThrownDisk
  <2> QED BY <1>1, <1>2, <1>4, <2>1, StoreKnown DEF Throw
<1> QED BY <1>3, <1>4 DEF MarkRecord

\* The flow is told, or its record stays on disk.
LEMMA FinalizeRecordKnown ==
  ASSUME OneScreen, FlowInv, KnownInv, NEW s \in Screen, FinalizeRecord(s) PROVE KnownInv'
<1>1. screen[s].pc = "final" /\ Calls /\ UNCHANGED <<disk, out, dropped>>
  BY DEF FinalizeRecord, Answered, Unanswered, Refused, Calls
<1>2. PICK i \in used : i = screen[s].rec.id BY <1>1, KnownAt DEF PlaceOK
<1>3. /\ <<"final", i>> \in (Kinds \ {"put"}) \X used
      /\ <<"final", i>>[1] = "final" /\ screen[s].rec.id = <<"final", i>>[2]
  BY <1>2, CallNames DEF Kinds
<1>4. ASSUME Effect(<<"final", i>>), UNCHANGED late, MoveTo(s, "clear"), known' = known \union {i} PROVE KnownInv'
  <2>1. PICK q \in ScreenRow : q = [screen[s] EXCEPT !.pc = "clear"] /\ q.pc = "clear" /\ q.rec = screen[s].rec
    <3>1. "clear" \in Pc /\ screen[s] \in ScreenRow BY KnownAt DEF Pc
    <3>2. /\ [screen[s] EXCEPT !.pc = "clear"] \in ScreenRow /\ [screen[s] EXCEPT !.pc = "clear"].pc = "clear"
          /\ [screen[s] EXCEPT !.pc = "clear"].rec = screen[s].rec
      BY <3>1, RowMoves
    <3> QED BY <3>2
  <2>2. disk = screen[s].rec BY <1>1, KnownAt DEF DiskOK
  <2>3. DiskOK(q, disk, ledger', known') BY <1>2, <1>4, <2>1, <2>2 DEF DiskOK
  <2>4. known \subseteq known' /\ <<"final", i>>[2] \in known' BY <1>4
  <2> QED BY <1>1, <1>3, <1>4, <2>1, <2>3, <2>4, AnsweredKnown DEF MoveTo
<1>5. ASSUME Unanswered(s, "final", <<"final", i>>) \/ Refused(s, "final"), Throw(s), UNCHANGED known PROVE KnownInv'
  <2>1. Silent BY <1>1, <1>5 DEF Silent, report
  <2> QED BY <1>1, <1>3, <1>5, <2>1, CaughtKnown
<1> QED BY <1>2, <1>4, <1>5 DEF FinalizeRecord, Answered

\* The screen's own erasure starts when the record is gone.
LEMMA TidyDisk ==
  ASSUME NEW L, NEW K
  PROVE  [Idle EXCEPT !.pc = "tidy"] \in ScreenRow /\ DiskOK([Idle EXCEPT !.pc = "tidy"], None, L, K)
  BY DEF Idle, ScreenRow, Pc, DiskOK

\* The record goes once the flow was told.
LEMMA ClearRecordKnown ==
  ASSUME OneScreen, FlowInv, KnownInv, NEW s \in Screen, ClearRecord(s) PROVE KnownInv'
<1>1. screen[s].pc = "clear" /\ UNCHANGED <<known, dropped>>
  BY DEF ClearRecord, Stores, Fails, First, Silent, report
<1>2. /\ screen[s] \in ScreenRow /\ screen[s].rec # None /\ Finalizing(screen[s])
      /\ disk = screen[s].rec /\ disk.id \in known
  BY <1>1, KnownAt DEF DiskOK, PlaceOK
<1>3. ASSUME Stores(s, "clear", None), Set(s, [Idle EXCEPT !.pc = "tidy"]) PROVE KnownInv'
  <2>1. disk' = None BY <1>3 DEF Stores
  <2> QED BY <1>1, <1>2, <1>3, <2>1, TidyDisk, StoreKnown
<1>4. ASSUME Fails(s, "clear", None), Throw(s) PROVE KnownInv'
  <2>1. Thrown(screen[s]) \in ScreenRow /\ DiskOK(Thrown(screen[s]), disk', ledger, known) BY <1>2, ThrownDisk
  <2> QED BY <1>1, <1>2, <1>4, <2>1, StoreKnown DEF Throw
<1> QED BY <1>3, <1>4 DEF ClearRecord

\* The server has retired the attempt before its record goes.
LEMMA CancelIntentKnown ==
  ASSUME OneScreen, FlowInv, KnownInv, NEW s \in Screen, CancelIntent(s) PROVE KnownInv'
<1>1. screen[s].pc = "cancel" /\ Calls /\ Silent /\ UNCHANGED <<disk, known, dropped>>
  BY DEF CancelIntent, Answered, Calls, Silent, report
<1>2. PICK i \in used : i = screen[s].rec.id /\ screen[s].rec # None BY <1>1, KnownAt DEF PlaceOK
<1>3. <<"cancel", i>> \in (Kinds \ {"put"}) \X used /\ <<"cancel", i>>[1] # "final" BY CallNames DEF Kinds
<1>4. ASSUME Effect(<<"cancel", i>>), UNCHANGED late, MoveTo(s, "wipe") PROVE KnownInv'
  <2>1. PICK q \in ScreenRow : q = [screen[s] EXCEPT !.pc = "wipe"] /\ q.pc = "wipe" /\ q.rec = screen[s].rec
    <3>1. "wipe" \in Pc /\ screen[s] \in ScreenRow BY KnownAt DEF Pc
    <3>2. /\ [screen[s] EXCEPT !.pc = "wipe"] \in ScreenRow /\ [screen[s] EXCEPT !.pc = "wipe"].pc = "wipe"
          /\ [screen[s] EXCEPT !.pc = "wipe"].rec = screen[s].rec
      BY <3>1, RowMoves
    <3> QED BY <3>2
  <2>2. disk \in {None, screen[s].rec} BY <1>1, KnownAt DEF DiskOK
  <2>3. ledger'[i].retired BY <1>1, <1>4, Retired
  <2>4. DiskOK(q, disk, ledger', known') BY <1>2, <2>1, <2>2, <2>3 DEF DiskOK
  <2> QED BY <1>1, <1>3, <1>4, <2>1, <2>4, AnsweredKnown DEF MoveTo
<1>5. ASSUME Unanswered(s, "cancel", <<"cancel", i>>) \/ Refused(s, "cancel"), Throw(s) PROVE KnownInv'
  BY <1>1, <1>3, <1>5, CaughtKnown
<1> QED BY <1>2, <1>4, <1>5 DEF CancelIntent, CancelFails, Answered

\* The record that goes is of a retired attempt.
LEMMA WipeKnown ==
  ASSUME OneScreen, FlowInv, KnownInv, NEW s \in Screen, Wipe(s) PROVE KnownInv'
<1>1. screen[s].pc = "wipe" /\ UNCHANGED <<known, dropped>> BY DEF Wipe, Stores, Fails, First
<1>2. /\ screen[s] \in ScreenRow /\ (disk = None \/ ledger[disk.id].retired) /\ ~screen[s].void
      /\ screen[s].rec # None => disk \in {None, screen[s].rec}
  BY <1>1, KnownAt DEF DiskOK
<1>3. ASSUME Stores(s, "wipe", None), Set(s, [Idle EXCEPT !.pc = "tidy"]) PROVE KnownInv'
  <2>1. disk' = None BY <1>3 DEF Stores
  <2> QED BY <1>1, <1>2, <1>3, <2>1, TidyDisk, StoreKnown
<1>4. ASSUME Fails(s, "wipe", None), Throw(s) PROVE KnownInv'
  <2>1. disk' \in {disk, None} BY <1>2, <1>4 DEF Fails
  <2>2. Thrown(screen[s]) \in ScreenRow /\ DiskOK(Thrown(screen[s]), disk', ledger, known)
    BY <1>2, <2>1, ThrownDisk
  <2> QED BY <1>1, <1>2, <1>4, <2>2, StoreKnown DEF Throw
<1> QED BY <1>3, <1>4 DEF Wipe

\* Nothing is left to erase.
LEMMA TidyKnown ==
  ASSUME OneScreen, FlowInv, KnownInv, NEW s \in Screen, Tidy(s) PROVE KnownInv'
<1>1. /\ screen[s].pc = "tidy" /\ UNCHANGED <<known, dropped>> /\ Set(s, Idle)
      /\ Stores(s, "tidy", None) \/ Fails(s, "tidy", None)
  BY DEF Tidy, Stores, Fails, First, Silent, report
<1>2. disk = None BY <1>1, KnownAt DEF DiskOK
<1> QED BY <1>1, <1>2, IdleDisk, StoreKnown

\* The record shown is the one on disk.
LEMMA ResetKnown ==
  ASSUME OneScreen, FlowInv, KnownInv, NEW s \in Screen, Reset(s) PROVE KnownInv'
<1>1. Set(s, [Idle EXCEPT !.pc = "reset", !.rec = disk]) BY DEF Reset
<1>2. disk \in Record \union {None} BY KnownAt
<1>3. /\ [Idle EXCEPT !.pc = "reset", !.rec = disk] \in ScreenRow
      /\ DiskOK([Idle EXCEPT !.pc = "reset", !.rec = disk], disk, ledger, known)
  BY <1>2 DEF Idle, ScreenRow, Pc, DiskOK
<1> QED BY <1>1, <1>3, QuietKnown DEF Reset, report

\* The server's answer leaves it there.
LEMMA ResetCancelKnown ==
  ASSUME OneScreen, FlowInv, KnownInv, NEW s \in Screen, ResetCancel(s) PROVE KnownInv'
<1>1. /\ screen[s].pc = "reset" /\ Calls /\ Silent /\ UNCHANGED <<disk, known, dropped>>
      /\ Set(s, [screen[s] EXCEPT !.pc = "forget"])
  BY DEF ResetCancel, Answered, Unanswered, Refused, Calls, Silent, report, MoveTo
<1>2. PICK i \in used : i = screen[s].rec.id BY <1>1, KnownAt DEF PlaceOK
<1>3. <<"cancel", i>> \in (Kinds \ {"put"}) \X used /\ <<"cancel", i>>[1] # "final" BY CallNames DEF Kinds
<1>4. screen[s] \in ScreenRow /\ disk = screen[s].rec BY <1>1, KnownAt DEF DiskOK
<1>5. ASSUME Effect(<<"cancel", i>>), UNCHANGED late PROVE KnownInv'
  <2>1. /\ [screen[s] EXCEPT !.pc = "forget"] \in ScreenRow
        /\ DiskOK([screen[s] EXCEPT !.pc = "forget"], disk, ledger', known')
    BY <1>4, MoveDisk
  <2> QED BY <1>1, <1>3, <1>5, <2>1, AnsweredKnown
<1>6. ASSUME Unanswered(s, "reset", <<"cancel", i>>) \/ Refused(s, "reset") PROVE KnownInv'
  <2>1. /\ [screen[s] EXCEPT !.pc = "forget"] \in ScreenRow
        /\ DiskOK([screen[s] EXCEPT !.pc = "forget"], disk, ledger, known)
    BY <1>4, MoveDisk
  <2> QED BY <1>1, <1>3, <1>6, <2>1, UnansweredKnown
<1> QED BY <1>2, <1>5, <1>6 DEF ResetCancel, Answered

\* It goes, and its attempt is noted as discarded.
LEMMA ResetForgetKnown ==
  ASSUME OneScreen, FlowInv, KnownInv, NEW s \in Screen, ResetForget(s) PROVE KnownInv'
<1>1. /\ UNCHANGED known /\ Set(s, Idle) /\ screen[s].pc = "forget"
      /\ Stores(s, "forget", None) \/ Fails(s, "forget", None)
      /\ dropped' = dropped \union {screen[s].rec.id}
  BY DEF ResetForget, Stores, Fails, First
<1>2. disk = screen[s].rec BY <1>1, KnownAt DEF DiskOK
<1>3. disk.id \in known \union dropped' /\ dropped \subseteq dropped' BY <1>1, <1>2
<1> QED BY <1>1, <1>3, IdleDisk, StoreKnown

\* Every step of a flow, and what is known.
LEMMA RunKnown ==
  ASSUME OneScreen, FlowInv, KnownInv, NEW s \in Screen, Run(s) PROVE KnownInv'
  BY ReadKnown, RequestIntentKnown, SaveKnown, UndoIntentKnown, GetTokenKnown, UploadKnown, VerifyUploadedKnown,
     DropRefusedKnown, EraseRefusedKnown, MarkRecordKnown, FinalizeRecordKnown, ClearRecordKnown,
     CancelIntentKnown, WipeKnown, TidyKnown, ResetCancelKnown, ResetForgetKnown DEF Run

\* What the other steps leave known: the requests under way name the records on disk.
LEMMA OutsideKnown ==
  ASSUME FlowInv, KnownInv, NEW D, Moved(D),
         \A i : <<"final", i>> \in D => <<"final", i>> \in late,
         \A i \in Intent : <<"final", i>> \in late' =>
             <<"final", i>> \in late \/ disk = [id |-> i, phase |-> "finalizing"],
         \A x \in Screen : screen'[x] = screen[x] \/ screen'[x] = Idle,
         UNCHANGED <<disk, known, dropped>>
  PROVE  KnownInv'
<1>1. \A i \in Intent : ledger[i].retired => ledger'[i].retired BY DEF Moved
<1>2. \A i \in Intent : Safe(i) => Safe(i)' BY <1>1 DEF Safe
<1>3. ASSUME NEW i \in Accepted' PROVE Safe(i)'
  <2>1. i \in Accepted \/ <<"final", i>> \in late BY DEF Moved
  <2>2. i \in Intent
    BY <2>1 DEF FlowInv, FlowShape, LedgerTypeOK, SubmissionRow, Accepted
  <2> QED BY <1>2, <2>1, <2>2 DEF KnownInv
<1>4. ASSUME NEW i \in Intent, <<"final", i>> \in late' PROVE Safe(i)'
  <2>1. CASE <<"final", i>> \in late BY <1>2, <2>1 DEF KnownInv
  <2>2. CASE disk = [id |-> i, phase |-> "finalizing"] BY <2>2 DEF Safe
  <2> QED BY <1>4, <2>1, <2>2
<1>5. ASSUME NEW x \in Screen PROVE DiskOK(screen'[x], disk', ledger', known') /\ ~screen'[x].void
  <2>1. CASE screen'[x] = Idle BY <2>1, IdleDisk
  <2>2. CASE screen'[x] = screen[x]
    <3>1. disk # None => disk.id \in Intent BY DEF FlowInv, FlowShape
    <3> QED BY <1>1, <2>2, <3>1 DEF KnownInv, DiskOK
  <2> QED BY <2>1, <2>2
<1> QED BY <1>3, <1>4, <1>5 DEF KnownInv

\* A finalization that arrives late is one whose record is on disk, or known.
LEMMA ArriveKnown ==
  ASSUME FlowInv, KnownInv, Arrive PROVE KnownInv'
<1>1. PICK m \in late :
        /\ late' = late \ {m}
        /\ (m[1] # "put" /\ Effect(m)) \/ Unchanged
        /\ UNCHANGED <<disk, screen, used, known, dropped>>
  BY DEF Arrive, report
<1>2. m \in Kinds \X used /\ FlowShape /\ LedgerOK BY DEF FlowInv, FlowShape
<1>3. PICK D \in {{}, {m}} : Moved(D)
  <2>1. CASE Unchanged
    <3>1. Moved({}) BY <1>1, <1>2, <2>1, StillMoves
    <3> QED BY <3>1
  <2>2. CASE m[1] # "put" /\ Effect(m)
    <3>1. m \in {"create", "cancel", "verify", "final"} \X used BY <1>2, <2>2 DEF Kinds
    <3>2. Moved({m}) BY <1>1, <1>2, <2>2, <3>1, EffectMoves
    <3> QED BY <3>2
  <2> QED BY <1>1, <2>1, <2>2
<1>4. \A i : <<"final", i>> \in D => <<"final", i>> \in late OBVIOUS
<1>5. \A i \in Intent : <<"final", i>> \in late' => <<"final", i>> \in late BY <1>1
<1> QED BY <1>1, <1>3, <1>4, <1>5, OutsideKnown

\* A finalization under way when the process ends has its record on disk.
LEMMA CrashKnown ==
  ASSUME FlowInv, KnownInv, Crash PROVE KnownInv'
<1>1. /\ screen' = [s \in Screen |-> Idle] /\ Unchanged /\ UNCHANGED <<disk, used, known, dropped>>
      /\ late' \subseteq late \union UNION {Awaited(screen[s]) : s \in Screen}
  BY DEF Crash, report, Lingering
<1>2. FlowShape /\ LedgerOK BY DEF FlowInv
<1>3. Moved({}) BY <1>1, <1>2, StillMoves
<1>4. ASSUME NEW i \in Intent, <<"final", i>> \in late' \ late PROVE disk = [id |-> i, phase |-> "finalizing"]
  <2>1. PICK s \in Screen : <<"final", i>> \in Awaited(screen[s]) BY <1>1, <1>4
  <2>2. screen[s].pc = "final" /\ screen[s].rec.id = i BY <2>1 DEF Awaited
  <2>3. disk = screen[s].rec /\ Finalizing(screen[s]) /\ screen[s].rec \in Record
    BY <2>2, KnownAt DEF DiskOK, PlaceOK
  <2> QED BY <2>2, <2>3 DEF Finalizing, Record
<1>5. \A i : <<"final", i>> \in {} => <<"final", i>> \in late OBVIOUS
<1> QED BY <1>1, <1>3, <1>4, <1>5, OutsideKnown

\* Time changes neither the ledger nor the record.
LEMMA ClockKnown ==
  ASSUME FlowInv, KnownInv, Clock PROVE KnownInv'
<1>1. UNCHANGED <<ledger, submissions, disk, screen, late, known, dropped>>
  BY DEF Clock, Tick, tables, report
<1>2. \A i : Safe(i) => Safe(i)' BY <1>1 DEF Safe
<1> QED BY <1>1, <1>2 DEF KnownInv, Accepted

\* The invariant of an app with one screen is inductive.
LEMMA KnownInvHolds == ASSUME OneScreen PROVE FlowSpec => []KnownInv
<1>1. FlowInit => KnownInv
  <2>1. ASSUME FlowInit PROVE KnownInv
    <3>1. Accepted = {} /\ late = {} BY <2>1 DEF FlowInit, LedgerInit, Accepted
    <3>2. \A s \in Screen : screen[s] = Idle BY <2>1 DEF FlowInit
    <3> QED BY <3>1, <3>2, IdleDisk DEF KnownInv
  <2> QED BY <2>1
<1>2. FlowInv /\ KnownInv /\ [FlowNext]_flowVars => KnownInv'
  <2>1. ASSUME FlowInv, KnownInv, FlowNext PROVE KnownInv'
    BY <2>1, ClockKnown, ArriveKnown, CrashKnown, CommandKnown, AbortKnown, ResetKnown, RunKnown DEF FlowNext
  <2>2. ASSUME KnownInv, UNCHANGED flowVars PROVE KnownInv'
    <3>1. UNCHANGED <<ledger, submissions, disk, screen, late, known, dropped>> BY <2>2 DEF flowVars, server, report
    <3>2. \A i : Safe(i) => Safe(i)' BY <3>1 DEF Safe
    <3> QED BY <2>2, <3>1, <3>2 DEF KnownInv, Accepted
  <2> QED BY <2>1, <2>2
<1> QED BY <1>1, <1>2, FlowInvHolds, PTL DEF FlowSpec

\* AcceptedIsKnown for an app with one screen and a device that can be read: what the
\* server accepted the app was told, or discarded, or has the record that repeats it.
THEOREM AcceptanceIsKnown == ASSUME OneScreen PROVE FlowSpec => []AcceptedIsKnown
<1>1. FlowInv /\ KnownInv => AcceptedIsKnown
  <2>1. ASSUME FlowInv, KnownInv, NEW i \in Accepted
        PROVE  i \in known \union dropped \/ disk = [id |-> i, phase |-> "finalizing"]
    <3>1. ~ledger[i].retired BY <2>1 DEF FlowInv, LedgerOK, Accepted
    <3> QED BY <2>1, <3>1 DEF KnownInv, Safe
  <2> QED BY <2>1 DEF AcceptedIsKnown
<1> QED BY <1>1, FlowInvHolds, KnownInvHolds, PTL
=============================================================================
