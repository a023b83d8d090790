---------------------------- MODULE UploadLedger ----------------------------
(***************************************************************************)
(* The database of the assignment upload and submission feature (G1):      *)
(* the tables assignment_upload_intents, academic_upload_authorizations    *)
(* and assignment_submissions(+_files), the PL/pgSQL functions the server  *)
(* calls on them, and the parts of the student roster those functions      *)
(* re-read.                                                                *)
(*                                                                         *)
(* Every function takes the row lock of its assignment target before it    *)
(* reads anything it decides on and holds it to the end of its single      *)
(* statement transaction, and it takes FOR SHARE locks on the account,     *)
(* student, enrollment and assignment rows.  Each is therefore one action  *)
(* here.  What happens between two statements of one request is the        *)
(* business of AcademicUploads, which extends this module.                 *)
(***************************************************************************)
EXTENDS Integers, FiniteSets

CONSTANTS
  Target,     \* assignment targets: one student's copy of one assignment
  User,       \* accounts
  Intent,     \* upload intent ids gen_random_uuid() may return
  Request,    \* client-chosen request ids of POST .../intents
  Key,        \* client-chosen submission keys
  File,       \* file contents a browser may send; stands for etag and sha256
  Size,       \* sizes a request may declare; stands for the whole declaration
  SizeOf,     \* the size of a file whose content is a PDF, None for any other file
  None,       \* SQL NULL
  Due,        \* due_at of the assignments
  Lifetime,   \* the 15 minutes an intent lives
  Grace,      \* the 5 minutes after expiry before cleanup may claim
  MaxTime     \* bound of the clock

ASSUME TimeAssumption ==
  Due \in Nat /\ Lifetime \in Nat \ {0} /\ Grace \in Nat /\ MaxTime \in Nat

ASSUME NoneAssumption ==
  None \notin Target \cup User \cup Intent \cup Request \cup Key \cup File \cup Size

ASSUME SizeAssumption == SizeOf \in [File -> Size \cup {None}]

VARIABLES
  now,          \* clock_timestamp()
  status,       \* status of the target's assignment; a target exists once it is published
  owner,        \* academic_students.user_id behind the target's enrollment
  members,      \* accounts whose users.role is MEMBER
  enrolled,     \* targets whose enrollment is ENROLLED and not ended
  intents,      \* assignment_upload_intents
  ledger,       \* academic_upload_authorizations
  submissions   \* assignment_submissions joined with its one file row

roster == <<status, owner, members, enrolled>>
tables == <<intents, ledger, submissions>>

UploadState == {"NONE", "INTENDED", "VERIFIED", "CONSUMED", "EXPIRED"}

\* "NONE" marks an id not yet issued.  file is the checksum column.
IntentRow == [state : UploadState, target : Target \cup {None}, user : User \cup {None},
              expires : Nat, file : File \cup {None}]

LedgerRow == [request : Request \cup {None}, declared : Size \cup {None},
              received : BOOLEAN, etag : File \cup {None},
              retired : BOOLEAN, claimed : BOOLEAN]

SubmissionRow == [target : Target, user : User, intent : Intent, key : Key,
                  file : File, at : Nat]

NoIntentRow == [state |-> "NONE", target |-> None, user |-> None, expires |-> 0, file |-> None]

NoLedgerRow == [request |-> None, declared |-> None, received |-> FALSE, etag |-> None,
                retired |-> FALSE, claimed |-> FALSE]

LedgerTypeOK ==
  /\ now \in Nat
  /\ status \in [Target -> {"PUBLISHED", "CLOSED"}]
  /\ owner \in [Target -> User \cup {None}]
  /\ members \subseteq User
  /\ enrolled \subseteq Target
  /\ intents \in [Intent -> IntentRow]
  /\ ledger \in [Intent -> LedgerRow]
  /\ submissions \subseteq SubmissionRow

LedgerInit ==
  /\ now = 0
  /\ status = [t \in Target |-> "PUBLISHED"]
  /\ owner \in [Target -> User]
  /\ members = User
  /\ enrolled = Target
  /\ intents = [i \in Intent |-> NoIntentRow]
  /\ ledger = [i \in Intent |-> NoLedgerRow]
  /\ submissions = {}

-----------------------------------------------------------------------------
(* What the functions read *)

Issued(i) == intents[i].state # "NONE"

\* assert_academic_submission_owner with check_deadline = false.
OwnerOK(t, u) == u \in members /\ t \in enrolled /\ owner[t] = u

\* The extra condition of check_deadline = true.
Open(t) == status[t] = "PUBLISHED" /\ now < Due

Unexpired_UpToExpiry(i) == now <= intents[i].expires
Unexpired(i) == now < intents[i].expires

Submitted(t) == \E s \in submissions : s.target = t

\* Neither of the two paths from a final submission leads to the intent.
Unreferenced_StateUnchecked(i) == Issued(i)

Unreferenced(i) ==
  /\ intents[i].state # "CONSUMED"
  /\ ~ \E s \in submissions : s.intent = i

\* authorize_academic_assignment_upload succeeds.
Authorized(i, u) ==
  /\ Issued(i)
  /\ intents[i].user = u
  /\ OwnerOK(intents[i].target, u)
  /\ Open(intents[i].target)
  /\ Unexpired(i)
  /\ ~ledger[i].retired
  /\ ~ledger[i].claimed
  /\ intents[i].state \in {"INTENDED", "VERIFIED"}
  /\ ~Submitted(intents[i].target)

\* An intent still holding the target's single upload slot.
Active(i, t) == Issued(i) /\ intents[i].target = t /\ ~ledger[i].retired

\* least(clock_timestamp() + 15 minutes, due_at)
IntentExpiry == IF now + Lifetime < Due THEN now + Lifetime ELSE Due

-----------------------------------------------------------------------------
(* issue_academic_assignment_upload *)

\* The slot passes to intent i: holders that merely expired are retired first.
LedgerAfterIssue_KeepHolders(r, t, d, i) ==
  [j \in Intent |-> IF j = i THEN [NoLedgerRow EXCEPT !.request = r, !.declared = d] ELSE ledger[j]]

LedgerAfterIssue(r, t, d, i) ==
  [j \in Intent |-> IF j = i THEN [NoLedgerRow EXCEPT !.request = r, !.declared = d]
                    ELSE IF Active(j, t) THEN [ledger[j] EXCEPT !.retired = TRUE]
                    ELSE ledger[j]]

\* A request id seen before writes nothing: the same call is answered with the
\* same intent, a different one refused.  A new one needs a free slot.
IssueNew(r, t, u, d, i) ==
  /\ OwnerOK(t, u) /\ Open(t)
  /\ ~ \E j \in Intent : ledger[j].request = r
  /\ ~Submitted(t)
  /\ ~ \E j \in Intent : Active(j, t) /\ Unexpired(j)
  /\ ~Issued(i)
  /\ intents' = [intents EXCEPT ![i] = [state |-> "INTENDED", target |-> t, user |-> u,
                                        expires |-> IntentExpiry, file |-> None]]
  /\ ledger' = LedgerAfterIssue(r, t, d, i)
  /\ UNCHANGED <<now, roster, submissions>>

(* verify_authorized_academic_upload: the checksum f and the etag f were   *)
(* computed by the server from the stored object.                          *)
VerifyUpload(i, u, f) ==
  /\ Authorized(i, u)
  /\ \/ intents[i].state = "INTENDED"
     \/ /\ intents[i].file = f
        /\ ledger[i].etag \in {None, f}
  /\ intents' = [intents EXCEPT ![i] = [@ EXCEPT !.state = "VERIFIED", !.file = f]]
  /\ ledger' = [ledger EXCEPT ![i].etag = f]
  /\ UNCHANGED <<now, roster, submissions>>

(* cancel_academic_assignment_upload: allowed after expiry and deadline.   *)
CancelUpload(i, u) ==
  /\ Issued(i)
  /\ intents[i].user = u
  /\ OwnerOK(intents[i].target, u)
  /\ Unreferenced(i)
  /\ ledger' = [ledger EXCEPT ![i].retired = TRUE]
  /\ UNCHANGED <<now, roster, intents, submissions>>

(* The signed upload-completed callback: recordUploadReceipt.              *)
ReceiveUpload(i) ==
  /\ Issued(i)
  /\ ledger' = [ledger EXCEPT ![i].received = TRUE]
  /\ UNCHANGED <<now, roster, intents, submissions>>

(* claim_academic_upload_cleanup returns true.                             *)

Claimable(i) ==
  /\ Issued(i)
  /\ intents[i].expires + Grace <= now
  /\ Unreferenced(i)

ClaimCleanup(i) ==
  /\ Claimable(i)
  /\ ledger' = [ledger EXCEPT ![i] = [@ EXCEPT !.retired = TRUE, !.claimed = TRUE]]
  /\ intents' = [intents EXCEPT ![i].state = IF @ = "INTENDED" THEN "EXPIRED" ELSE @]
  /\ UNCHANGED <<now, roster, submissions>>

-----------------------------------------------------------------------------
(* complete_academic_assignment_submission *)

\* The key already bought exactly this submission: it is answered again, before
\* the deadline, the expiry or the state of the intent is looked at.
Replay(t, u, i, k) ==
  /\ OwnerOK(t, u)
  /\ \E s \in submissions : s.key = k /\ s.target = t /\ s.user = u /\ s.intent = i

\* Neither the key nor the target has a submission.

Vacant(t, u, k) ==
  /\ OwnerOK(t, u)
  /\ ~ \E s \in submissions : s.key = k
  /\ ~Submitted(t)

\* guard_authorized_academic_submission
FinalGuard_RetiredUnchecked(i, t, u) ==
  ledger[i].etag # None /\ intents[i].target = t /\ intents[i].user = u

FinalGuard(i, t, u) ==
  /\ ~ledger[i].retired
  /\ ~ledger[i].claimed
  /\ ledger[i].etag # None
  /\ intents[i].target = t
  /\ intents[i].user = u

\* p_finalize = true: the submission, its file row and the CONSUMED state are
\* written together; the deferred triggers reject any other combination.
Complete(t, u, i, k) ==
  /\ Vacant(t, u, k)
  /\ Unexpired(i)
  /\ intents[i].state = "VERIFIED"
  /\ Open(t)
  /\ FinalGuard(i, t, u)
  /\ submissions' = submissions \cup {[target |-> t, user |-> u, intent |-> i, key |-> k,
                                       file |-> intents[i].file, at |-> now]}
  /\ intents' = [intents EXCEPT ![i].state = "CONSUMED"]
  /\ UNCHANGED <<now, roster, ledger>>

-----------------------------------------------------------------------------
(* The world around: time, staff, roster *)

Tick ==
  /\ now < MaxTime
  /\ now' = now + 1
  /\ UNCHANGED <<roster, tables>>

\* mutate_academic_assignment CLOSE
CloseAssignment(t) ==
  /\ status[t] = "PUBLISHED"
  /\ status' = [status EXCEPT ![t] = "CLOSED"]
  /\ UNCHANGED <<now, owner, members, enrolled, tables>>

\* An administrator takes the MEMBER role away, or gives it.
ChangeRole(u) ==
  /\ members' = IF u \in members THEN members \ {u} ELSE members \cup {u}
  /\ UNCHANGED <<now, status, owner, enrolled, tables>>

\* The enrollment behind the target ends.
EndEnrollment(t) ==
  /\ t \in enrolled
  /\ enrolled' = enrolled \ {t}
  /\ UNCHANGED <<now, status, owner, members, tables>>

\* The student row is bound to another account, or to none:
\* guard_academic_submission_binding refuses it once another user's upload exists.
MayRebind_HistoryUnchecked(t, u) == owner[t] # u

MayRebind(t, u) ==
  /\ owner[t] # u
  /\ ~ \E i \in Intent : Issued(i) /\ intents[i].target = t /\ intents[i].user # u

Rebind(t, u) ==
  /\ MayRebind(t, u)
  /\ owner' = [owner EXCEPT ![t] = u]
  /\ UNCHANGED <<now, status, members, enrolled, tables>>
=============================================================================
