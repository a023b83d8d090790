# Formal models of hra-website

TLA+ models of the parts of this site where several requests, a database, a blob store and a
device's storage have to agree. Each model is checked by TLC on small instances. The safety
properties are proved by TLAPS for instances of every size: on the server those of uploads and
submissions, sessions, administration, the academic registry, limits, forms and content files; in
the app those of the session manager, the cleanup of an account and the submit flow (one of them for
a device with one screen).

Contents: [the system](#the-system) · [modules](#modules-and-the-code-they-model) ·
[runs](#what-the-runs-show) · [fairness](#liveness-and-fairness) · [proofs](#what-is-proved) ·
[limits](#what-is-not-modelled) · [plan](#plan)

Paths below are relative to the repository.

## The system

hra-website is a Next.js application (`src/`) on PostgreSQL and Vercel Blob, with an Expo mobile
application (`apps/mobile`) that talks to it over `/api/v1`. Server code runs as short-lived
functions that hold nothing between requests: all shared state is in PostgreSQL (rows, row locks,
advisory locks) and in the blob store. A handler is a sequence of awaited calls, so every `await` is
a place where other requests act. The mobile app is one process with asynchronous callbacks, a
persisted credential and a file cache.

### Components

| Component | State | Operations | What is hard | What makes it correct |
|---|---|---|---|---|
| **Assignment upload and submission** (`features/academics/assignment-uploads`, `submissions`, three SQL migrations) | `assignment_upload_intents`, `academic_upload_authorizations`, `assignment_submissions`, one object per intent in the blob store | issue, grant token, direct PUT, receipt callback, verify, finalize, cancel, cleanup | two stores without a common transaction; the browser writes the store directly and late; verification reads an object over many awaits; retries; deadline and expiry; cleanup deletes | a submitted file is never lost or altered; one submission per target; nothing retired or late is submitted; orphans are deleted |
| **Mobile session server** (`features/auth/mobile-session`, `lib/api-v1-principal.ts`) | `mobile_sessions`, `mobile_session_refresh_history`, `users.session_version` | login, refresh, logout, logout-all, touch, checkpoint, purge | statements that read candidates first and decide later under locks; reuse of old tokens; account changes in between | a token is exchanged once; every token is recognised; a logout is final; rights follow the account's version |
| **Member administration** (`features/users/admin`) | `users.role`, `cohort_id`, `session_version` | change group, delete | READ COMMITTED re-evaluation, row locks taken in any order, administrators acting on each other | an administrator remains; the version moves exactly with the group; every request is answered |
| **Mobile session manager** (`apps/mobile/src/auth`, `api/client.ts`) | generation, tokens, persisted session, a queue of writes, one refresh in flight | restore, login, refresh, check, logout, API call with one GET retry | late answers, lost answers, failed writes, crashes, two callers | no answer of an older generation has an effect; a credential on disk belongs to the user shown |
| **Mobile account lifecycle, protected files** (`features/account`, `features/files`, `serialized-resume-store.ts`) | chain of cleanups, cached files, one record per account, transfers | change of session, cleanup, download, record write | the cleanup of one account overlaps transfers of the old and of the next one; storage fails | nothing of one account reaches the next; every cleanup and transfer ends |
| **Mobile submit flow** (`features/submission`) | phase, resume record | start, resume, cancel, discard | crash between server intent and record, ambiguous upload, lost finalization answer, two screens | what the server accepted is never forgotten; what was cancelled is never accepted |
| **Academic registry**: assignments, roster, links (`migrate-academic-*.sql`, `features/academics`) | students, links, enrolments, one assignment with version and targets, request ids | register, link, create, save, publish, close | roster changes under a publication; repeated request ids; two editors; locks in different orders | targets are the enrolled students of one instant, as reviewed; no edit lost; one effect per request id |
| **Rate limiting** (`sql/rate-limit-reservations.sql`, `lib/rate-limit.ts`) | one row per reservation and axis | reserve several axes, forgive, clean up | advisory locks over overlapping axes, the moving window | no axis exceeds its limit; the announced wait suffices; no deadlock |
| **Application forms** (`features/applications/actions`) | form, questions, revision, submissions, the decision log | edit, publish, apply, decide, delete | editing under a submission; a batch that commits after its request gave up; two editors | answers keep the questions they were given to; people are told the truth |
| **Content with files** (`lib/create-with-blobs.ts`, `owned-blob.ts`, the actions of class logs, weekly texts, faculty, guidebooks, class materials) | rows, objects, the ledger `markdown_image_assets` | create, replace, save, delete, add, revise, withdraw, maintenance | several uploads of which one fails; lost answers; late batches; other content that cites a file | no content without its file; no file that nobody can find |
| **Ordering of content** (`lib/db/reorder.ts`) | one column | reorder | one atomic statement | — |
| **Web sign-in** (`lib/auth*.ts`) | cookie session | sign-in decision | external library | only known accounts sign in |
| **Other content sections, contracts, pages, tooling** | single rows | create, read, update, delete | — | — |

### Interactions

- Handlers call PostgreSQL functions for uploads and submissions; each call is one transaction. The
  browser writes to the store with a token the server signed; the store calls the server back.
- Member administration moves `session_version`; the mobile session server compares it at login, at
  every refresh and at every authorization checkpoint. Deleting an account cascades to its logins.
- Roster links decide who owns an assignment target; the upload functions re-read the link, and a
  trigger on the students table refuses a rebinding that an existing upload contradicts.
- Rate limits stand in front of logins, refreshes, uploads and applications; the reservation of an
  application is attached to it and deleted with it.
- The mobile session manager is a client of the session server, the submit flow a client of the
  upload server. A change of the session's generation starts the cleanup of the account that left.
- A publication turns the enrolled students of a cohort into targets, which the upload functions
  read again; registrations and links change who is enrolled at the same time.
- Bodies of content may cite a file of another post by its url; the maintenance script looks for
  such references before it deletes.

The hazards this leads to are listed line by line under `hazards` in `PROJECT.json`, each with the
properties that cover it, or the reason why none does.

## Modules and the code they model

### Uploads: `SubmissionContract`, `UploadLedger`, `AcademicUploads`

`SubmissionContract` is the promise: a target is accepted at most once, an acceptance is never
altered, an accepted file stays as it was. It has two variables and two actions.

`UploadLedger` is the database. Each PL/pgSQL function locks its target row before it reads
anything it decides on and runs in one transaction, so each is one action: `IssueNew`,
`VerifyUpload`, `CancelUpload`, `ReceiveUpload`, `ClaimCleanup`, `Complete`/`Replay`. `Open`,
`Authorized`, `FinalGuard` and so on are the conditions the functions and the triggers evaluate.
`status`, `owner`, `members` and `enrolled` are the part of the roster they read again; `Rebind`,
`EndEnrollment`, `ChangeRole` and `CloseAssignment` change it at any time.

`AcademicUploads` extends it with what lies between two transactions:

| State | Code |
|---|---|
| `blob`, `puts`, `tokens` | the object at `academicUploadPath(id)`, uploads under way, client tokens handed out |
| `job[h]` | local variables of `verifyAssignmentUploadIntent` and `finalizeAssignmentSubmission`; `pc` names the next awaited call |
| `sweep[w]` | local variables of `cleanupAcademicUploads` |
| `swept` | `deleted_at`, as an order: only the `ORDER BY` of the candidate query reads it |

A PUT that has started may land at any later time or never (`LandPut`, `LosePut`); the token is not
taken back by a cancellation. `Abandon` is a refusal, an exception, a timeout or the end of the
function at any point. `SkipRow` covers a deletion that failed before or after it took effect. File
contents stand for their etag and checksum; `SizeOf` says which contents are PDFs of which size.

### Member administration: `AdminRoster`, `UserAdministration`

`AdminRoster` is the same administration with atomic changes that look at all administrators.
`UserAdministration` models the single statement the code issues: its snapshot (`Scan`), the CTE's
`FOR UPDATE` locks one row at a time in any order with a re-check of each row (`LockNext`), the count
(`Counted`), and the write, whose `WHERE` clause is evaluated again on the newest row (`Write`).
`DeadlockAbort` is PostgreSQL's detector, `Restricted` a foreign key that forbids the deletion, `Find`
and `Recheck` the handler's separate reads. The `role` and the cohort are one value, `group`: the
code changes them together and compares both. `seen` is a history variable. The actor's role is
tested once, in `Begin`, because `requireAdmin` is a separate read; the actor may be demoted
afterwards and the properties hold all the same. A refusal as "last administrator" may be out of date
when it is given (the target was promoted while the statement waited); the code promises nothing
else. Cohorts are static here.

### Mobile sessions: `TokenFamily`, `MobileSessions`

`TokenFamily` is the promise to the holders of refresh tokens: the tokens of a login form one chain,
only the newest is exchanged, and a login that was closed, for whatever reason, stays closed. It has
two variables and three actions, and is what a model of the app composes with.

A refresh token is a pair of a login and a generation: tokens are 256-bit random values, so equal
tokens are the same token. A statement that reads candidates and later locks them is two actions
(`StartRefresh` and `Rotate`/`RevokeReused`/`RefuseRefresh`, `StartLogout` and `Logout`); the second
decides on the row as it is once both the session and the account row are locked. `Reason` is the
`CASE` of `rotateSessionHash`. The access path is `StartAccess` (the principal look-up), `Touch` or
`SkipTouch` (`FOR UPDATE SKIP LOCKED`), and `Checkpoint`, which a request may pass several times
before `Finish` or `StartLogoutAll`. `mayRotate` is the outcome of the per-session rate limit.
`StorageFailure` includes the deadlock with a cascading account deletion that the comment at
`mobile-session/repository.ts:105` accepts. `proven`, `granted` and `closed` are history variables:
the version the password was checked at, the exchanges made, the logins whose logout was answered.

### Mobile session manager: `MobileAuth`

The app is one JavaScript process, so an action is one callback with the synchronous code up to its
next `await`; `Settled` says that promise reactions (`NextOperation`, `ResumeCall`,
`ResumeLogoutAll`) run before any timer, native callback or touch. The server is an instance of
`TokenFamily` and may also close a login at any time (`ServerCloses`), which stands for the requests
of `logout` and `logoutAll` arriving late, other devices, administrators and the cleanup.

| State | Code |
|---|---|
| `app` | the fields `generation`, `stored`, `tokens`, `retryAt` (as `throttled`) and `state` (`shown`, `error`) |
| `queue`, `running` | the chain of promises in `persistence`; the head has passed its generation check |
| `disk`, `reading` | what SecureStore holds; `restore()` waiting to read it |
| `login[g]`, `refresh[g]`, `leaving`, `call[k]` | the pending `login`, the flight, `logoutAll` and API requests, with the local variables they read again |
| `stray` | refresh requests the app gave up that may still reach the server |
| `lost`, `uncleared` | history: a login with a lost answer or write; a deletion that failed or was cut off |

A failed store operation may or may not have taken effect, a timed-out refresh may or may not have
been handled, the native layer may send a refresh twice (`ResendRefresh`), and the process may be
killed anywhere (`Restart`; a write under way may land). Tokens are pairs of a login and a
generation; whether the access token is about to expire is an input (`expiring`). The screens
matter in two guards: the login form is there only when signed out with no login pending, and the
profile screen of a login disables its buttons during its `logoutAll` (`MayLogout`). Waiters of a refresh that was
answered 401 are rejected at once, not after the deletion queued in the same step. The message an
error shows, query-cache clearing and bodies are left out.

### Cleanup of an account: `AccountCleanup`

An action is the app's code between two awaits. `Init` is a start of the app, with an old record of
every account and an old file on the device.

| State | Code |
|---|---|
| `gen`, `user`, `gone` | the generation and account of `account-runtime.ts`; accounts that left (history) |
| `jobs`, `made`, `broken` | the chain of promises of `session-cleanup.ts`; a gate is the number of the cleanups made before it; `storageError` |
| `stores`, `queue`, `disk` | the serialized stores of this generation, their queued operations, the records in SecureStore |
| `files`, `line` | the protected cache and its `cacheQueue` |
| `transfer[t]` | a submission, a download of the guidebook, or the opening of a submitted file, by its next await |

`Depart` and `SignIn` change the session, `StartJob`, `ClearCache`, `ClearBare`, `EndJob` are one
cleanup, `Read`, `Write`, `Written`, `Undo`, `Clear`, `Purged` the steps of `serialized-resume-store.ts`
(a write that comes to an end after its session is taken back), `Admit` to `CloseFile` those of
`download-protected-file.ts`. Every storage call may fail. A cleanup that failed keeps protected work
out until one succeeds, and the success forgets the failure; `missed` names the accounts whose record
then remains. The temporary copy of a picked PDF and the query cache are left out.

### Submit flow: `SubmitFlow`

`SubmitFlow` extends `UploadLedger`: the server is the ledger itself, with one target and one account.
`screen[s]` is a run of the submit machine by its next await, `disk` the account's only record, `line`
the queue in front of it. A call that is answered takes effect in the step that answers it; one that is
not goes to `late` and takes effect later or never, also after a crash (`Arrive`). `Submit` re-verifies
the upload as the finalization does. `Abort` is leaving the screen, `Shown` says that a command comes
from the screen in front, `Crash` ends the process. `Answered`, `Unanswered`, `Refused` are the outcomes
of a call, `Thrown` the `catch` of the machine. Any refusal of a verification may be a 404 or 409, after
which the machine cancels and erases (an upload that expired, an object that vanished between `head` and
`get`, uploads switched off; `api-v1/http.ts:92`), or another error, after which it keeps the record. A
429 only delays. `known`, `out`, `dropped` are what the user was told.

`Unreadable = TRUE` would show a further way to lose an acceptance on one screen: when an aborted flow
cannot read its record, it clears it, although the record may say "finalizing". The runs leave it
`FALSE` and `AcceptedIsKnown` says what holds otherwise.

### Academic registry: `AcademicRegistry`

Students, links, enrolments and one assignment, changed by the three SQL functions and their
triggers. A call (`txn[p]`) is one transaction: `Begin` takes the request's payload, `Acquire` the next
lock of `todo`, `Check` is everything up to the first write, `Write` the write that may still be refused
by a trigger or an index, `Commit` or `Abort` the end. `FirstLocks` and `WriteLocks` list the locks in the
order of the code: advisory lock of the request id, rows `FOR UPDATE` in the order of their ids, rows a
foreign key shares, and `LOCK TABLE … IN SHARE MODE` against enrolments in `guard_academic_assignment`.
`page[r]` is what the approver's form was rendered from; a request id is sent again when its answer
does not come. `OthersAct` steps are administrators who change accounts, lessons that move and the due date
(`DuePasses`).

`Actor` is the approver configured where a request is served: two deployments overlap for a while, so
the approver's row lock does not exclude everybody and the table lock matters. A registration may wait
in a circle with a publication or a link plan; PostgreSQL then aborts one (`Abort`), and
`CircleNeedsRegistration` says that nothing else can. Creation of a student row, the shared locks of cohorts and
the unique index on the account of a student are left out; a text is a value.

### Rate limits and application forms: `RateLimit`, `ApplicationForms`

`RateLimit` is `reserve_rate_limit` statement by statement: `Lock` takes the advisory locks in the order
of their keys, `ReadClock` reads the clock once all are held, `Count` looks at one axis, `Refuse` and `Allow`
end the transaction, `Break` is any failure (`rate-limit.ts` answers "blocked") including a commit whose
answer is lost. `Forgive` deletes the reservation of a login that succeeded, `Cleanup` is the daily job
with a cutoff read some time before. `standing` (attempts let through and not forgiven) and `told` (the
last refusal of each caller) are history.

`ApplicationForms` extends it: an application reads the form and its questions, validates, reserves, and
sends one batch. `batch` are the transactions the database runs; each shares the form's row from its
assertion of the revision to the commit (`Unshared` is what an administrator's statement has to
wait for) and may commit after its request gave up (`Lose`, then `Verify` looks for the row). `page[a]` is an
editor on an administrator's screen; `OpenPage` reads the form and `LoadPage` the questions. `Save` and `SaveRuns`
are the single statement that replaces the questions, refused when the revision has moved (`Fresh`) or an
answered question would go or change (`Preserved`). `Publish`, `DeleteForm`, `Decide`, `Erase` are the other
statements. The state at the start is a published form with one question, open in every editor.

The revision is compared with the one the server read, not with the page's: the applicant's page may be
older, and the answers are validated against what the server reads. `isPublished` is last-writer-wins.
The editor keeps taking input while it saves and matches the saved ids by position
(`form-builder.tsx:172`). Honeypot, single-field validation, the CSV export and the older
submission log are left out.

### Content with files: `ContentFiles`

A job is one server action with one form. `job[j].pc` names its next await and `up[i]` the state of its
file `i`; `posts`, `rows`, `file` are the content, `book` and `asset` the ledger in the order of its
rows, `store` the objects. `Register`, `Put`, `Record`, `Undo` are the files of `createWithBlobs`, which
uploads all of them in parallel and undoes them when one fails; `Reserve` and `PutReserved` those of the
replacement of a log's images; `Token`, `Transfer`, `Submit` an upload by the browser. `Sends` is a
statement whose answer may be lost or which takes effect only after the job gave up (`pending`, `Late`);
`Verify` and `Compare` look whether it did. `Discard` and `Owned` delete what is not needed, after
asking who else names it (`Unowned`). `Kill` ends a job anywhere. `Cite` is other content that names a
registered url. `Start`, `Recheck`, `Del`, `MarkDeleted` are the maintenance script, which takes its
candidates in the order of the ledger (`Chosen`, `Turn`) and runs while content may not be written
(`HRA_CONTENT_WRITES_STOPPED`, `Quiet`, `Open`; `docs/operations/markdown-image-ownership.md:37`). Each
scenario has a budget of failures and of citations.

Two ways to name a missing file are accepted by the code and exempt (`doubtful`): a batch that takes
effect after its request scrapped the files, or has decided to (the comment at
`class-logs/actions/index.ts:190` and §4 of the same document), and a save of a weekly text that writes
back the document read earlier. "Has decided to" is needed for this order: a creation found the text of
another one under its id (`weekly-texts/actions/index.ts:283`) and is about to scrap its own document,
that text is deleted, and the first batch lands after all. The attempt to prove `FilesKept` found it;
the mix with two creations and a deletion runs it. A call that fails and was the only one to tell of a
file leaves that file to nobody (`blamed`). Legacy files that the ledger does not know are kept by
`revise` and `withdraw` on purpose (`Kept`), and the removal of such a file does not look at other
content. Two overlapping replacements may leave the images of both. Images of a new weekly text that the
browser uploaded itself (`weekly-texts/actions/index.ts:215`) are left out: they are registered and
checked as the direct document is, which is modelled.

## What the runs show

| Run | Instance | Distinct states | Question |
|---|---|---|---|
| `uploads_race` | 1 upload, 2 accounts, 2 handlers, 1 worker, a PDF and a non-PDF, clock 0..2 with expiry and grace 1 | 942,036 | verify, finalize, cancel, overlapping uploads, cleanup and roster changes around one upload |
| `cleanup_liveness` | 2 uploads for 1 target, 2 keys, no handler, 1 worker, batch of 1 | 134,480 | the slot passes on; every orphan is deleted |
| `admin` | 3 accounts, 2 requests, 3 groups | 166,989 | overlapping demotions, promotions, deletions; refinement of `AdminRoster`; every request is answered |
| `sessions` | 1 login, 2 requests, 3 generations, clock 0..4 over a whole absolute lifetime, versions 0..1 | 421,904 | rotation, reuse, touch, logout, purge, account changes; refinement of `TokenFamily` |
| `auth_accounts` | 2 logins with 2 tokens each, 1 request, three lives | 783,316 | shared refresh, failing writes, lost and late answers, restart at any step, one login after another, `logoutAll` |
| `accounts` | 2 accounts, 1 change of session, 2 transfers, 1 untracked screen, cache of 1 file | 210,653 | what an account leaves is erased; every wait ends |
| `accounts_stuck` | as `accounts`, 1 transfer of a submitted file | | violated: see [the findings](#findings) |
| `submit_flow` | 1 screen, 2 attempts, 1 late request, one end of the process or one tick | 415,384 | crashes, lost answers, aborts, failing storage |
| `submit_two_screens` | 2 screens, no crash, no tick | | violated: see [the findings](#findings) |
| `academics` | 2 calls at a time, 2 students, 3 accounts, 2 cohorts, 1 lesson, 9 mixes of requests | 744,262 | registrations, links, saves, publication, closure, each repeated, any failing |
| `applications` | 2 requests, 2 administrators, 2 axes with limits 2 and 1, 2 ticks a second, clock 0..5, 6 mixes | 406,965 | reservations, refusals and retries; applying under edits, closure, deletion; decisions |
| `content` | 1 post, up to 3 jobs, 2 images, LIMIT 1, 21 mixes with 1 or 2 failures | 146,031 | creations, replacements, saves and deletions that overlap and fail; then maintenance |

Why the bounds are enough to be interesting: in `uploads_race` an upload can be verified, expire, be
claimed while a second handler is between head and get, and receive a late PUT of other content after
the claim. In `cleanup_liveness` the batch is smaller than the number of rows, so rows that were swept
compete with new orphans. Two requests in `admin` can wait for each other and leave one administrator of
two. Three generations in `sessions` are the least for which a token leaves the previous-hash column and
is known from the history only; the absolute lifetime is longer than the refresh lifetime and
shorter than two of them, so that a rotation is capped, and access lives two ticks so that a touch can lose a race
against a rotation. Two uploads with handlers, two targets under one key, and more requests are not
enumerated: the proofs cover them for every size.

`auth_accounts` explores three kinds of life (`MCLives`): a busy one with requests and four generations; a
fragile one in which the process may be killed at any step, where three generations suffice because a
restart with a stored session starts the count again; and a long one with five generations and no
requests, in which a first login still waits while the second is in use. `MaxToken` is the number of
rotations; `TokenFamily` treats every consumed token alike, so one suffices.

In the three models with a `Scenario` the instances are mixes of a few operations instead of all
operations at once: each mix brings together the operations that share rows or files, twice where
repetition is the danger, and TLC explores every order and every failure within it. In `academics` each
request is sent up to twice; in `applications` the clock runs only where reservations are the question,
and an application reserves one axis while logins reserve two. Of its two mixes with a clock one has failing calls and
released reservations (`disturbed`); another has none, but four calls and a clock that passes the
longest window (4 ticks), the least in which a caller is refused on one axis or on both, waits as long
as it was told, and is then let through or refused again because it was overtaken, and in which the
daily job finds a row old enough to delete (retention 4); in `content` two failures are what a
compensation that itself fails needs. In `accounts` one change of session is the least that has an old
and a new account (two were tried for the safety properties: 4.6 million states, no violation). In
`submit_flow` two attempts are the least for a record of another attempt.

Every property has a mutant in `PROJECT.json`: a plausible change of one mapped definition (a dropped
guard, a missing history look-up, a sliding absolute expiry, a lock not taken) under which the run
reports that property violated. The operators with a suffix after an underscore (`Unexpired_UpToExpiry`,
`Known_NoHistory`) are these changes; nothing else uses them. Properties that belong together are
checked as one invariant (`SubmissionsSound`, `RowsSound`, `DeviceSound`, `OwnTokens`, `FormSound`,
`AsShown`, `AsReviewed`, `RecordSound`, `WindowsSound`, `FilesSound`); the parts keep their names.

Properties worth knowing (each is stated in words above its definition):

- `SubmittedFileKept`, `VerifiedIsStored`, `DeleteOnlyClaimed`: the object and the ledger agree although
  no transaction spans them.
- `RetiredNeverSubmitted`, `AcceptedInTime`, `UploaderIsOwner`: what was read before the long
  download is not relied on after it.
- `AdminRemains`, `CountedStayAdmin`, `ImplementsRoster`: counting under locks is as good as an atomic
  change.
- `SingleUse`, `FamilyRecognized`: rotation detects every reuse, also when the token left the row
  while the request waited.
- `LogoutHolds`, `EndedIsFinal`, `CheckpointCurrent`: the end of a login is final and noticed.
- `InUseIsSaved`, `SignOutReachesDisk`, `RestLosesNothing`, `NobodyForgotten`: memory and the secure
  store agree whenever it matters, although writes queue up, fail and are skipped; whoever waits for a
  refresh is going to be woken.
- `NoSelfReuse`: the app never makes the server close its login for reuse, unless an answer or a write
  was lost. With such a loss it does, which the code accepts.
- `LogoutAllOwn`: `getAccessToken` does not compare generations after its wait; that the token is still
  the pressed account's follows from the disabled buttons only.
- `SettledIsClean`, `NewAfterCleanup`: one account's files and records end before another's begin, also
  when a write or a download of the old one comes to its end late.
- `AcceptedIsKnown`, `CancelledStaysOut`: a lost finalization is repeated, and a cancellation is final.
- `TargetsComplete`, `PublishedAsReviewed`, `NoEditLost`, `LinkedAsApproved`: what an approver confirmed is
  what happens, or nothing does. `RetryAnswered`: a repeat is never told that it failed.
- `WindowBound`, `RetryHonest`: no window exceeds its limit, and who waits as long as told, over all the
  axes that refused, is refused only if somebody came after.
- `MeaningKept`, `ToldTruly`, `ErasedWholly`, `AuditTrue`: answers keep their questions, messages are true
  although batches commit late, a deleted application leaves no trace, the log names real transitions.
- `FilesKept`, `NeverBare`, `NothingLost`: content has its files at every instant, and no object is
  forgotten.

Deadlock checking is off where the system really stops: the clock, versions, generations and
scenarios are bounded (without crashes the app cannot sign in for ever) and each administration request
is served once. It is on for the upload runs, whose handlers can always be called again.

### Findings

**A cleanup that waits for ever (`accounts_stuck`).** `session-cleanup.ts:2` promises that a change of session
aborts running transfers and erases what the account left. The screen of an assignment
registers the transfer of a submitted file, sweeps the cache and only then asks for its gate
(`assignment-detail-screen.tsx:138`). If the session changes during the sweep, the cleanup waits for the
transfer and the transfer's gate for the cleanup; an abort does not end the wait at the gate
(`download-protected-file.ts:56`). Nothing is erased and protected work of the next account waits until the
app is restarted. `EveryCleanupEnds` is violated; `EveryWaitEnds` says that this is the only such
wait (`Embraced`).

**A forgotten acceptance (`submit_two_screens`).** `resume-store.ts:3` says that the record makes a
lost finalization repeatable. A flow that was left while its intent was being requested clears the
account's only record when that request fails (`submit-flow.ts:27`), although the record may by then be
that of the next screen's flow. If that flow's finalization is accepted and its answer lost, nothing on
the device repeats it.

**Noted, without a run.** `docs/developer/api-v1.md:29` asks of a client that an unsaved
session not be used any further. `accept()` sets `this.stored` before the write (`session-manager.ts:43`) and
nothing takes it back when the write of a login fails: the screen shows the form with an error, but
the next foreground check refreshes with the unsaved token and, if that write succeeds, signs the user in.
`apps/mobile/README.md:304` says that a failed cleanup blocks protected work; it does until a later
cleanup succeeds, which does not erase the record the failed one left (`missed`).

## Liveness and fairness

`OrphanDeleted` assumes that the cleanup endpoint is called again and again with deletion enabled.
Neither is the default: `vercel.json` schedules only the rate-limit cleanup and
`cleanupAcademicUploads` is a dry run until an operator sets its two flags. Under that assumption:
weak fairness for taking a batch, for ending a batch and for the final update; strong fairness for
claims and storage calls, because an invocation may be killed in between (`EndSweep`) and a storage
call may fail (`SkipRow`) any number of times but not for ever. Nothing is assumed of handlers,
browsers or the clock. What the run shows is then a property of the query: rows already marked
deleted come last, so they never keep a new orphan out of a batch.

`EveryRequestAnswered` assumes weak fairness of each begun request: the function runs, the database
schedules its statement, grants a free lock, and its deadlock detector ends a cycle. Nothing is
assumed about the order in which locks are taken.

`MobileAuth` has no liveness run: `NobodyForgotten` states as an invariant that whoever waits has
somebody whose answer or time-out will wake him.

`EveryWaitEnds` assumes weak fairness of the app's callbacks for cleanups and stores, and strong fairness for
each transfer, because transfers interrupt one another: storage and network calls have time-outs.
`EveryCommandEnds` assumes weak fairness of each flow's next callback: every call has a time-out, so every
await ends in some outcome, and the property holds whichever it is.

The `EveryRequestAnswered` of `ApplicationForms` assumes that the database runs every statement that is not
blocked and that a request whose answer came goes on. Since every call takes its advisory locks in the same
order, nothing more is needed for `EveryCallAnswered`.

`OrphansCollected` assumes weak fairness of requests and of statements given up (they run or never
will), strong fairness of the passing of 30 days, and that an operator runs the maintenance script
again and again while writes are stopped, each of its calls failing only finitely often in a
row. Nothing schedules the script; the property is about its order and its retries.

There is no liveness property for `MobileSessions`: expired logins are refused whether purged or
not, and `cleanup-mobile-sessions` is not scheduled.

## What is proved

All theorems are for every value of the constants under the named assumptions in the modules: sets of
any size (`UserAssumption`: the accounts are finitely many), any deadline, lifetime and grace
(`TimeAssumption`), any limits and windows that the retention covers (`RateAssumption`), any lifetimes
with access ≤ refresh ≤ absolute and a positive access lifetime (`LifetimeAssumption`), and placeholders
distinct from the values they stand for (`NoneAssumption`, `AdminAssumption`, `FormAssumption`,
`CleanupAssumption`), any mix of content sections (`ContentAssumption`), and a submit flow with a
target, an account, a file and a size, whose attempts' numbers stand for the ids the app generates for
them (`FlowAssumption`). The clock, generation and step bounds are arbitrary naturals, so they limit TLC
only (`BoundAssumption`). The theorems about the registry assume that one request creates the assignment
(`OneCreator`: the model has one assignment, and its id is that of its creation), and the one about
deadlocks that the database has finitely many connections (`FiniteCalls`).

**`UploadLedger_proofs`, the server.** No safety property of `AcademicUploads` is inductive alone.
`IInv` adds what a handler may rely on between two awaits (`JobOK`: at `persist` the etag it holds is
the object's, unless the intent has been claimed), that a worker touches the store only for a claimed
intent (`SweepOK`), what a claim and a consumption exclude (`IntentOK`) and that a submission was made
of its intent's file before its expiry (`SubmissionOK`). One lemma per action. The heart is that a claim
requires `expires + Grace <= now` while completion requires `now < expires`, both under the target's
lock. Theorems: all seven safety invariants, `DeleteOnlyClaimed`, and `Refinement` (every step is an
`Accept`, a `Change` of an object nobody was promised, or a stutter of `SubmissionContract`).

**`UploadLedger_proofs`, the submit flow.** `RecordIsSound` holds for any number of screens, attempts, crashes
and ticks, for any `MaxLate` and with a device that may fail to read. `FlowInv` adds what a flow has at hand
at each of its awaits (`PlaceOK`), that a record in memory says "finalizing" only of a verified upload
(`FinalOK`), that an attempt belongs to one flow (`OneId`), and why an attempt that is, or is about to be,
reported as cancelled cannot be accepted (`OutOK`, `WipeOK`): it is retired, or nobody can name it any more
(`Unrecorded`: not verified, in no record, and in no request under way that would verify or finalize it).
The steps of a flow have one shape, the effect of requests on the ledger (`Moved`, one lemma per
request), what the step does besides (`Does`) and the row it goes on with (`Placed`); `FlowStep` shows that
such a step keeps `FlowInv`, and one lemma per action that it is such a step.

`AcceptanceIsKnown` assumes `OneScreen`: one screen, and `Unreadable` is `FALSE`. Neither can go: the run
`submit_two_screens` shows the first, and the section on `SubmitFlow` the second. `KnownInv` says where each
await finds the record on the device (`DiskOK`) and that an attempt accepted, or about to be by a late
finalization, is known, discarded, retired, or recorded as "finalizing" (`Safe`).

**`UserAdministration_proofs`.** `IInv` adds that nothing is counted before the statement locks
(`NothingCounted`) and that the record of the current version is the current group (`Recorded`).
Lemma `AnotherAdmin` turns a count above one into an administrator who is locked by the statement and
is not its target; with `CountedStayAdmin` that yields `AdminRemains` and the refinement of
`AdminRoster`.

**`MobileSessions_proofs`.** `IInv` adds what a waiting request knows of its row (`RequestsOK`), that no
two logins become one row (`OneInsert`), that every older generation is in the history (`Consumed`)
and that exchanges form a chain (`Chain`). Most actions only revoke, delete or touch rows: lemma
`TameStep` handles them together; insertion and rotation have their own. The two action properties
`EndedIsFinal` and `CheckpointCurrent` follow from the invariant by `StepFinal` and `StepCheckpoint`.
`Refinement` maps a row to `FamilyState` and its generation: insertion is `Open`, rotation `Exchange`,
and whatever revokes or deletes rows is one `Close` of a set of logins (`ClosingStep`).

**`ApplicationForms_proofs`, the limits.** `IInv` adds that a transaction holds its locks (`Held`), that
nothing on the axes of a call that counts is dated after the time it read (`Clocked`), that an attempt
has its events as long as a window reaches (`Mirrored`), and three statements on numbers of events: no
window, wherever it ends, has more than the limit (`EventBound`); what a call has counted stays true for
it (`Counted`); what a refused caller was told stays true for the events before its refusal
(`Promised`). The heart of `EventBoundStep` is that a window that a new event joins contains no later
event, so the one counted window decides for all. `StandingBound` maps the attempts of a window one to
one to its events. The steps considered include the release of any reservation (`Freed`), so that
`ApplicationForms` can use the result. Theorems: `LimitsHold` and `WaitsAreHonest`.

**`ApplicationForms_proofs`, the form.** `RateStep` shows that every step of the form is, for the
limits, one of their own steps, a release or a stutter; so `IInv` of the limits is an invariant here too
and gives `FormLimitsHold` and `FormWaitsAreHonest`. `FormSound` is not inductive. `FInv` adds shapes of
tables and screens (`FormShape`, `TableShape`, `ScreenShape`) and

- `Numbering`: ids are those of reservations that have ended, so an application under way has a new one;
- `Placed`: an application is in a batch, in the table or erased, never in two of these;
- `Settled`: what was answered for good is in no batch that could still decide otherwise;
- `Unique`: an inserted row shuts out every other of its address until its batch ends;
- `Meant`: answers judged by a revision fit the form as long as it has that revision (`Judged`), and what the
  assertion found stays true, for the batch locks the form (`Unshared`);
- `EditsKnown`: an editor who has the form's revision was shown the form's questions.

The long steps are those of a save: `NumberedQuestions` shows that new questions get ids nobody has, and
`MeantStep` that `Preserved` keeps the meaning of every stored answer while the new revision leaves
answers under way to the assertion. Theorems: `FormIsSound`, `FormIsAsShown` and the two above.

**`AcademicRegistry_proofs`.** Everything rests on what locks exclude: `Apart` (no two calls hold
conflicting locks on a row) and `Armed` (which locks a call holds at each of its statements). `Checked`
and `Read` say what a call has found out and still relies on; lemmas `Kept`, `Alone` and `ChangesAlone`
derive from `Apart` that nobody else can make it false before the call commits. `Rendered`, `Recorded`
and `Created` tie an editor's screen, a request's record and an assignment's targets to the rows they
were made from. Theorems: `RegistryIsSound`, `TargetsAreComplete`, `ActsAsReviewed`,
`RetriesAreAnswered`, `OnlyRegistrationsDeadlock`. The last one takes the calls that wait for each
other, and in them a lock that is greatest in the order all calls but registrations follow (`InOrder`):
its holder waits for nobody. That a finite set of positions has a greatest element follows from the
well-foundedness of `<` on Nat (`Least`, `Greatest`).

**`MobileAuth_proofs`.** `IInv` says first that the app's past is dying out (`Ages`): what is not of the
session's generation has finished or is on its way to. The queue of the storage is in the order of
generations, and behind every operation of an older one stands a clear of the current one
(`Operations`). Who waits has an operation or a flight that will answer him (`Waiters`, `Owing`). For
the tokens: every token was given by the server (`Given`), no two generations work with tokens of one
login (`Apart`), and in each chain of exchanges the newest token is on the device, in flight or lost
(`Newest`). An operation that ends is the same in six actions: `DoneStep`; a restart and the first start
are `StartedIsSound`; the changes of generation are `NewGenerationStep` and `ClearStep`. Theorems:
`DeviceIsSound`, `SigningOutErases`, `TokensAreOwn`, `NobodyIsForgotten`, `AnswersReachTheirOwner`.

**`AccountCleanup_proofs`.** `SettledIsClean` speaks of the end, when the chain of cleanups is empty;
`IInv` says of every state before it who still owes what. A transfer of an account that left is in the
drain of the newest cleanup, and a submission in that of the cleanup that will purge its store
(`Running`); a store of an earlier session with anything queued is purged by a cleanup that has not
started or by a purge behind everything in its queue (`QueueOK`); a record of an account that left is
about to be erased or in `missed` (`RecordOK`); a file of an earlier session means that the newest
cleanup has not cleared the cache yet, or failed to (`CacheOK`, `Excused`). Two orders carry the proof:
a cleanup starts only when the transfers it waits for are over (`ChainOK`), so that nothing joins a
queue behind its purge; and a gate taken in a session opens only when no cleanup is left (`Running`,
`OpOK`), which is `NewAfterCleanup`. The queue of downloads admits one at a time, so room reserved in
the cache stays until the file is created. `Departs` and `StartsJob` are the long steps; `StoreStep` and
`TransferStep` say once what a step of one store or one transfer leaves alone. Theorems:
`DeviceIsSound`, `SettledDeviceIsClean`, `NewOnlyAfterCleanup`. That the cleanups do end is liveness,
and false in one case (the run `accounts_stuck`).

**`ContentFiles_proofs`.** The scenarios are any that `Possible` allows: a post that is not there names
nothing, and the url of a file that is not in the ledger stands in one row or one text only, because
every upload gets a url of its own and only registered urls are offered to other content (`Form`: which
forms the actions accept). `IInv` consists of shapes (`Shape`) and of

- `Named`, `PendingOK`: of which form or which old text a url in the content, in a job's memory or in a statement
  given up can be, and that such a statement belongs to a job that has given up;
- `UploadsOK`, `ScrapOK`: how far the files of a form have got at each await, and that nothing names what a job is about
  to delete, or in doubt;
- `Unborn`, `Unlanded`: nobody names a file before its statement is sent, and no replacement has read one that
  has not landed;
- `Covered`: every log that has an image has one that nobody is about to take away (`Lasting`);
- `SweepOK`, `Traced`: while the script runs no request does, and what it deletes nothing refers to; who still knows of an
  object that the ledger does not.

A step is one of four kinds: it moves one job and no content (`Steady`), no statement takes effect
(`Waiting`), one does (`Taking`), or it is no job's (`Aside`: citations, time, the script). Each kind
has one lemma that it keeps `IInv`, and the actions are shown to be of their kinds. The key is that a
file not in the ledger is named in one place only (`OldOnce`): a job that has taken its name away
(`OwnedGone`) may delete it without asking. Theorems: `ContentInvariant`, `FilesAreSound`,
`FilesAreKept`, `NeverLeftBare`.

**Only model-checked:** the liveness properties, because liveness under fairness needs ENABLED, which
the prover cannot treat. Every safety invariant and action property of a passing run is stated by a
theorem. Also out of reach are RECURSIVE operators and the library's schemes of induction, which take
an operator; where a proof needs induction on numbers it goes by the least number with a property. No
module proved about needs more.

## What is not modelled

Within the modelled components: request parsing, formatting, logging and observation records, hashing
(collision-free by assumption), listing queries, HTTP error wording. In the upload models a refused call
is a handler that stops. In `MobileSessions` the look-ups by three indexes are one predicate, the account
lock is part of the decision, since only the decision reads the account, and the budget of a login is a choice
(`mayRotate`). What each of the newer models leaves out is said at the end of its section above.

Of the content sections, the gallery (its cover may name a photo deleted meanwhile, because `setCover` is
unconditional), the images of alumni stories and the posters are left out; the remaining ones are single
statements on single rows behind a role check. `reorderByCase` is one atomic statement that locks its rows in
the order of their ids. Web sign-in is mostly the external Auth.js library; the decision that is the
site's own is a pure function without state. Contracts and pages have no state of their own.

Outside the repository, PostgreSQL (row and advisory locks, READ COMMITTED, deadlock detection),
the blob store, and the device's storage are modelled as the code relies on them.

## Plan

Done: the server-side protocols, the administration they depend on, the registry, the limits, the
application forms, the content with files, and the mobile app's session, cleanup and submit flow.

Left, in this order:

1. `SubmitFlow` composed with `AccountCleanup`, so that a flow meets the departure of its account.
2. The gallery's cover and the images of alumni stories; the sign-in decision as a bounded check of a
   pure function.
