---------------------------- MODULE ContentFiles ----------------------------
(***************************************************************************)
(* Posts with files (class logs with images, weekly texts with a document  *)
(* and images), the rows that name the files' urls, the ledger             *)
(* markdown_image_assets, the blob store and the maintenance script that   *)
(* deletes what nothing refers to.                                         *)
(*                                                                         *)
(* A job is one server action with one form: it creates a post, replaces a *)
(* log's images, saves a text with or without a new document, or deletes a *)
(* post.  For members of the faculty, guidebooks and class materials, each *)
(* with one file, it adds, revises (if the file is still the one that was  *)
(* read) or withdraws; nothing is cleaned up there.                        *)
(*                                                                         *)
(* An action is the job's code between two awaits with the outcome of the  *)
(* call it had awaited, which may be a failure, an answer that was lost,   *)
(* or a statement that takes effect only after the job gave up.            *)
(***************************************************************************)
EXTENDS SequencesExt, Integers

CONSTANTS
  Post, Job,
  Old,         \* urls of files that are there at the start
  MaxImages,   \* bound on the images of one form
  Batch,       \* LIMIT of the maintenance script
  Scenario,    \* what the jobs do, and what is there at the start
  None

\* File 0 of a form is its document, the others are images.
Index == 0..MaxImages
Url == (Job \X Index) \union Old

Task == [kind : {"create", "replace", "save", "delete", "add", "revise", "withdraw"}, post : Post,
         files : SUBSET Index,   \* files the server action uploads
         direct : BOOLEAN]       \* the document comes straight from the browser

\* A document comes one way; a member has one file; a log's files are images, which
\* the server uploads; who deletes sends no file.
Form(t) ==
  /\ t.direct => 0 \notin t.files
  /\ t.kind = "add" /\ t.direct => t.files = {}
  /\ t.kind = "replace" => ~t.direct /\ 0 \notin t.files
  /\ t.kind \in {"delete", "withdraw"} => ~t.direct /\ t.files = {}

\* A post that is not there names nothing.  The url of a file that was never
\* registered was made for the one row or text that names it.
Possible(s) ==
  /\ DOMAIN s = {"task", "posts", "rows", "file", "listed", "faults", "cites"}
  /\ s.faults \in Nat /\ s.cites \in Nat
  /\ DOMAIN s.task \subseteq Job /\ s.task \in [DOMAIN s.task -> Task]
  /\ \A j \in DOMAIN s.task : Form(s.task[j])
  /\ s.posts \subseteq Post /\ s.rows \subseteq [post : s.posts, url : Old]
  /\ s.file \in [Post -> Old \union {None}]
  /\ s.listed \subseteq Old /\ IsFiniteSet(s.listed)
  /\ \A p \in Post \ s.posts : s.file[p] = None
  /\ \A r \in s.rows : r.url \notin s.listed =>
       /\ \A x \in s.rows : x.url = r.url => x = r
       /\ \A p \in Post : s.file[p] # r.url
  /\ \A p, q \in Post : s.file[p] = s.file[q] /\ s.file[p] \notin s.listed \union {None} => p = q

ASSUME ContentAssumption ==
  /\ MaxImages \in Nat /\ Batch \in Nat \ {0}
  /\ Old \intersect (Job \X Index) = {} /\ None \notin Url
  /\ \A s \in Scenario : Possible(s)

VARIABLES
  plan,      \* the history's scenario, with what is left of its faults and cites
  posts,     \* posts in the database
  rows,      \* rows of the image tables
  file,      \* [Post -> the document a text names]
  cited,     \* urls in the bodies of other content
  book,      \* urls in the ledger, in the order of their registration
  asset,     \* [Url -> none, new, aged (30 days old) or deleted]
  store,     \* urls with an object in the blob store
  job,       \* for each of the scenario's jobs, where it stands
  pending,   \* statements whose job gave up and that may still take effect
  sweep,     \* the maintenance script
  doubtful,  \* urls a late or a stale statement made content refer to
  blamed     \* urls a failed call leaves to nobody

content == <<posts, rows, file>>
ledger == <<book, asset>>
vars == <<plan, content, cited, ledger, store, job, pending, sweep, doubtful, blamed>>

task(j) == plan.task[j]
Doc(j) == IF task(j).direct \/ 0 \in task(j).files THEN <<j, 0>> ELSE None
Uploads(j) == {<<j, i>> : i \in task(j).files}
Images(j) == Uploads(j) \ {<<j, 0>>}
Row(p, S) == [post : {p}, url : S]
UrlsOf(p) == {r.url : r \in {x \in rows : x.post = p}}

Init ==
  /\ plan \in Scenario
  /\ posts = plan.posts /\ rows = plan.rows /\ file = plan.file
  /\ cited = {}
  /\ book = SetToSeq(plan.listed)
  /\ asset = [u \in Url |-> IF u \in plan.listed THEN "aged" ELSE "none"]
  /\ store = {r.url : r \in plan.rows} \union ({plan.file[p] : p \in Post} \ {None})
  /\ job = [j \in DOMAIN plan.task |-> [pc |-> "idle", up |-> [i \in Index |-> "todo"],
                           seen |-> {}, file |-> None, scrap |-> {}]]
  /\ pending = {}
  /\ sweep = [pc |-> "idle", list |-> {}]
  /\ doubtful = {} /\ blamed = {}

-----------------------------------------------------------------------------
\* What holds when.

InBrowser == {"idle", "transfer", "held", "done"}
Working(j) == job[j].pc \notin InBrowser

\* Maintenance runs with content writes stopped and those under way ended.
Open == sweep.pc = "idle"

\* Mutant: the script runs beside the writes.
Quiet_Unchecked == TRUE

Quiet == pending = {} /\ \A j \in DOMAIN job : ~Working(j)

Referenced == {r.url : r \in rows} \union {file[p] : p \in posts} \union cited

\* Registered by the server: only the maintenance script deletes such a file.
Listed(u) == asset[u] # "none"

\* Mutant: what a post named is deleted with it, registered or not.
Unowned_Any(S) == S

Unowned(S) == {u \in S : ~Listed(u)}

Go(j, pc) == job' = [job EXCEPT ![j].pc = pc]
Quietly == UNCHANGED <<content, cited, pending, sweep, doubtful>>

\* A call fails.  What only this call could still have cleaned up is left to nobody.
Fault(S) ==
  /\ plan.faults > 0
  /\ plan' = [plan EXCEPT !.faults = @ - 1]
  /\ blamed' = blamed \union S

Fine == UNCHANGED <<plan, blamed>>

\* Mutant: an upload the ledger does not know is used all the same.
Register_Skipped(u) == UNCHANGED ledger

Register(u) ==
  IF Listed(u) THEN UNCHANGED ledger
  ELSE book' = Append(book, u) /\ asset' = [asset EXCEPT ![u] = "new"]

-----------------------------------------------------------------------------
\* The statements on the content tables.

\* What the job sends: its new files, or those it had read; a save without a new
\* document writes back the one it had read.
Statement(j) ==
  [by |-> j, kind |-> IF task(j).kind = "revise" THEN "revise" ELSE job[j].pc, post |-> task(j).post,
   urls |-> IF job[j].pc = "drop" THEN job[j].seen ELSE Images(j),
   file |-> IF Doc(j) = None THEN job[j].file ELSE Doc(j),
   read |-> job[j].file]

\* The primary key of a post, the foreign key of its images and the condition of a
\* revision.
Fits(s) ==
  /\ s.kind = "insert" => s.post \notin posts
  /\ s.kind = "attach" => s.post \in posts
  /\ s.kind = "revise" => s.post \in posts /\ file[s.post] = s.read

\* What s makes content refer to although its job deleted it, or has not chosen it.
Doubt(s) ==
  CASE s.kind = "insert" /\ s \in pending ->
         {u \in s.urls \union {s.file} :
            u \notin store \/ u \in job[s.by].scrap \/ (u = s.file /\ job[s.by].pc = "compare")}
    [] s.kind = "write" /\ s.file = s.read /\ file[s.post] # s.read -> {s.file}
    [] OTHER -> {}

Takes(s) ==
  LET p == s.post IN
  /\ posts' = CASE s.kind = "insert" -> posts \union {p}
                [] s.kind = "delete" -> posts \ {p}
                [] OTHER -> posts
  /\ rows' = CASE s.kind \in {"insert", "attach"} -> rows \union Row(p, s.urls)
               [] s.kind = "drop" -> {r \in rows : ~(r.post = p /\ r.url \in s.urls)}
               [] s.kind = "delete" -> {r \in rows : r.post # p}
               [] OTHER -> rows
  /\ file' = CASE s.kind = "insert" \/ (s.kind \in {"write", "revise"} /\ p \in posts) -> [file EXCEPT ![p] = s.file]
               [] s.kind = "delete" -> [file EXCEPT ![p] = None]
               [] OTHER -> file
  /\ doubtful' = (doubtful \union Doubt(s)) \ {None}

\* The job's statement is answered, is refused, or ends in an error that does not
\* say whether it took effect, or will.
Sends(j, next, error, S) ==
  LET s == Statement(j) IN
  /\ \/ Fits(s) /\ Takes(s) /\ Go(j, next) /\ Fine /\ UNCHANGED pending
     \/ ~Fits(s) /\ Go(j, error) /\ Fine /\ UNCHANGED <<content, pending, doubtful>>
     \/ /\ Fault(S) /\ Go(j, error)
        /\ \/ UNCHANGED <<content, pending, doubtful>>
           \/ Fits(s) /\ Takes(s) /\ UNCHANGED pending
           \/ pending' = pending \union {s} /\ UNCHANGED <<content, doubtful>>
  /\ UNCHANGED <<cited, ledger, store, sweep>>

\* A statement given up takes effect after all, is refused, or is lost.
Late(s) ==
  /\ s \in pending /\ pending' = pending \ {s}
  /\ \/ Fits(s) /\ Takes(s)
     \/ UNCHANGED <<content, doubtful>>
  /\ UNCHANGED <<plan, cited, ledger, store, job, sweep, blamed>>

-----------------------------------------------------------------------------
\* The form.

\* The browser asks for a token; the route registers the url before it answers.
Token(j) ==
  /\ job[j].pc = "idle" /\ task(j).direct /\ Open
  /\ \/ Register(<<j, 0>>) /\ Go(j, "transfer") /\ Fine
     \/ Fault({}) /\ Go(j, "done") /\ (Register(<<j, 0>>) \/ UNCHANGED ledger)
  /\ UNCHANGED store /\ Quietly

\* The upload, within the token's fifteen minutes; the form stays open.
Transfer(j) ==
  /\ job[j].pc = "transfer" /\ asset[<<j, 0>>] = "new"
  /\ store' = store \union {<<j, 0>>} /\ Go(j, "held")
  /\ Fine /\ UNCHANGED ledger /\ Quietly

Submit(j) ==
  /\ Open /\ job[j].pc = IF task(j).direct THEN "held" ELSE "idle"
  /\ Go(j, IF task(j).kind \notin {"create", "add"} THEN "read"
           ELSE IF task(j).direct THEN "check"
           ELSE IF task(j).kind = "create" THEN "look" ELSE "reserve")
  /\ Fine /\ UNCHANGED <<store, ledger>> /\ Quietly

\* A statement that only reads fails: the request ends.
Unread(j) ==
  /\ job[j].pc \in {"check", "look", "read", "snapshot", "verify", "compare"}
  /\ Fault({}) /\ Go(j, "done")
  /\ UNCHANGED <<store, ledger>> /\ Quietly

Reads(j) == Fine /\ UNCHANGED <<store, ledger>> /\ Quietly

\* Mutant: the form's url is believed.
Usable_Believed(u) == TRUE

\* The object is in the store and the ledger has not marked it deleted.
Usable(u) == u \in store /\ asset[u] \in {"new", "aged"}

Check(j) ==
  /\ job[j].pc = "check"
  /\ Go(j, IF ~Usable(<<j, 0>>) THEN "done"
           ELSE CASE task(j).kind = "create" -> "look"
                  [] task(j).kind = "add" -> "insert"
                  [] OTHER -> "write")
  /\ Reads(j)

-----------------------------------------------------------------------------
\* Creating a post.

\* A form submitted again finds its post.
Look(j) ==
  /\ job[j].pc = "look"
  /\ Go(j, IF task(j).post \in posts THEN "done" ELSE "upload")
  /\ Reads(j)

Step(j, i, from, to) ==
  /\ job[j].pc = "upload" /\ i \in task(j).files /\ job[j].up[i] = from
  /\ job' = [job EXCEPT ![j].up[i] = to]
  /\ Quietly

\* The object gets a random suffix: without an answer nobody knows its url.
Put(j, i) ==
  /\ UNCHANGED ledger
  /\ \/ Step(j, i, "todo", "put") /\ Fine /\ store' = store \union {<<j, i>>}
     \/ /\ Step(j, i, "todo", "bad")
        /\ \/ Fault({}) /\ UNCHANGED store
           \/ Fault({<<j, i>>}) /\ store' = store \union {<<j, i>>}

Record(j, i) ==
  /\ UNCHANGED store
  /\ \/ Step(j, i, "put", "ok") /\ Fine /\ Register(<<j, i>>)
     \/ Step(j, i, "put", "undo") /\ Fault({}) /\ (Register(<<j, i>>) \/ UNCHANGED ledger)

Undo(j, i) ==
  /\ UNCHANGED ledger /\ Step(j, i, "undo", "bad")
  /\ \/ Fine /\ store' = store \ {<<j, i>>}
     \/ Fault({<<j, i>>}) /\ UNCHANGED store

With(j, state) == {<<j, i>> : i \in {k \in task(j).files : job[j].up[k] = state}}

\* Mutant: the request goes on with those of its files that were stored.
Settled_Partly(j) == TRUE

Settled(j) == With(j, "bad") = {}

\* All uploads are over: the post, or nothing.
Uploaded(j) ==
  /\ job[j].pc = "upload" /\ \A i \in task(j).files : job[j].up[i] \in {"ok", "bad"}
  /\ IF Settled(j) THEN Go(j, "insert")
     ELSE job' = [job EXCEPT ![j].pc = "discard", ![j].scrap = With(j, "ok")]
  /\ Reads(j)

Insert(j) ==
  job[j].pc = "insert" /\ Sends(j, "done", IF task(j).kind = "create" THEN "verify" ELSE "done", {})

\* Mutant: an error of the statement means that there is no post.
Missing_Assumed(p) == TRUE

Missing(p) == p \notin posts

\* After an error: is there a post all the same?
Verify(j) ==
  LET p == task(j).post IN
  /\ job[j].pc = "verify"
  /\ job' = IF Missing(p) THEN [job EXCEPT ![j].pc = "discard", ![j].scrap = Uploads(j)]
            ELSE [job EXCEPT ![j].pc = "compare", ![j].seen = {file[p]}]
  /\ Reads(j)

Compare(j) ==
  /\ job[j].pc = "compare"
  /\ job' = [job EXCEPT ![j].pc = "discard",
                        ![j].scrap = Uploads(j) \ (UrlsOf(task(j).post) \union job[j].seen)]
  /\ Reads(j)

\* Deletions go out together; one that fails is logged (at most one does here).
Discard(j) ==
  /\ job[j].pc = "discard"
  /\ job' = [job EXCEPT ![j].pc = "done", ![j].scrap = {}]
  /\ \/ Fine /\ store' = store \ job[j].scrap
     \/ \E u \in job[j].scrap : Fault({u}) /\ store' = store \ (job[j].scrap \ {u})
  /\ UNCHANGED ledger /\ Quietly

-----------------------------------------------------------------------------
\* Replacing, saving and deleting.

Read(j) ==
  LET p == task(j).post
      next == CASE task(j).kind \in {"replace", "delete"} -> "snapshot"
                [] task(j).kind = "withdraw" -> "delete"
                [] task(j).kind \in {"save", "revise"} /\ task(j).direct -> "check"
                [] task(j).kind \in {"save", "revise"} /\ ~task(j).direct /\ task(j).files # {} -> "reserve"
                [] OTHER -> "write"
  IN  /\ job[j].pc = "read"
      /\ job' = [job EXCEPT ![j].pc = IF p \in posts THEN next ELSE "done", ![j].file = file[p]]
      /\ Reads(j)

Snapshot(j) ==
  /\ job[j].pc = "snapshot"
  /\ job' = [job EXCEPT ![j].pc = IF task(j).kind = "delete" THEN "delete" ELSE "reserve",
                        ![j].seen = UrlsOf(task(j).post)]
  /\ Reads(j)

\* The next file of a form, one after the other.
IsNext(j, i) ==
  /\ i \in task(j).files /\ job[j].up[i] # "ok"
  /\ \A k \in task(j).files : k < i => job[j].up[k] = "ok"

\* The ledger first, then the object, at a url the server has chosen.
Reserve(j, i) ==
  /\ job[j].pc = "reserve" /\ IsNext(j, i) /\ job[j].up[i] = "todo"
  /\ \/ Register(<<j, i>>) /\ Fine /\ job' = [job EXCEPT ![j].up[i] = "put"]
     \/ Fault({}) /\ Go(j, "done") /\ (Register(<<j, i>>) \/ UNCHANGED ledger)
  /\ UNCHANGED store /\ Quietly

\* Mutant: a log's old rows go before its new ones are there.
Then_DropFirst(j) == IF task(j).kind = "replace" THEN "drop" ELSE "write"

Then(j) ==
  CASE task(j).kind = "replace" -> "attach" [] task(j).kind = "add" -> "insert" [] OTHER -> "write"

PutReserved(j, i) ==
  /\ job[j].pc = "reserve" /\ IsNext(j, i) /\ job[j].up[i] = "put"
  /\ \/ /\ Fine /\ store' = store \union {<<j, i>>}
        /\ job' = [job EXCEPT ![j].up[i] = "ok",
                              ![j].pc = IF \E k \in task(j).files : k > i THEN "reserve" ELSE Then(j)]
     \/ Fault({}) /\ Go(j, "done") /\ (store' = store \union {<<j, i>>} \/ UNCHANGED store)
  /\ UNCHANGED ledger /\ Quietly

Attach(j) ==
  job[j].pc = "attach" /\ Sends(j, IF job[j].seen = {} THEN "done" ELSE "drop", "done", {})

Drop(j) == job[j].pc = "drop" /\ Sends(j, "owned", "done", job[j].seen)

Write(j) ==
  /\ job[j].pc = "write"
  /\ Sends(j, IF task(j).kind = "revise" \/ Doc(j) = None \/ job[j].file = None THEN "done" ELSE "owned",
           "done", {job[j].file})

Delete(j) ==
  /\ job[j].pc = "delete"
  /\ Sends(j, IF task(j).kind = "withdraw" THEN "done" ELSE "owned", "done", job[j].seen \union {job[j].file})

\* What the job took away.  A browser's upload is left to the maintenance script.
Taken(j) ==
  ((IF task(j).kind = "save" THEN {} ELSE job[j].seen)
     \union (IF task(j).kind = "replace" THEN {} ELSE {job[j].file}))
  \ ({None} \union {<<k, 0>> : k \in {x \in DOMAIN job : task(x).direct}})

Owned(j) ==
  /\ job[j].pc = "owned"
  /\ \/ Fine /\ job' = [job EXCEPT ![j].pc = "discard", ![j].scrap = Unowned(Taken(j))]
     \/ Fault(Taken(j)) /\ Go(j, "done")
  /\ UNCHANGED <<store, ledger>> /\ Quietly

\* The function is killed: what only it knew is left to nobody.
Kill(j) ==
  /\ Working(j)
  /\ Fault((Uploads(j) \union job[j].seen \union {job[j].file} \union job[j].scrap) \ {None})
  /\ Go(j, "done")
  /\ UNCHANGED <<store, ledger>> /\ Quietly

-----------------------------------------------------------------------------
\* Other content and the maintenance script.

\* Somebody copies the address of a registered file into another text.
Cite(u) ==
  /\ Open /\ plan.cites > 0
  /\ u \in Referenced \ {None} /\ Listed(u) /\ u \notin cited
  /\ \A j \in DOMAIN job : Working(j) => u \notin Uploads(j)
  /\ plan' = [plan EXCEPT !.cites = @ - 1] /\ cited' = cited \union {u}
  /\ UNCHANGED <<content, ledger, store, job, pending, sweep, doubtful, blamed>>

Uncite(u) ==
  /\ Open /\ u \in cited /\ cited' = cited \ {u}
  /\ UNCHANGED <<plan, content, ledger, store, job, pending, sweep, doubtful, blamed>>

Others == UNCHANGED <<plan, content, cited, job, pending, doubtful, blamed>>

\* Thirty days pass.
Age ==
  /\ Quiet /\ Open /\ \E u \in Url : asset[u] = "new"
  /\ asset' = [u \in Url |-> IF asset[u] = "new" THEN "aged" ELSE asset[u]]
  /\ UNCHANGED <<book, store, sweep>> /\ Others

Candidate(u) == asset[u] = "aged" /\ u \notin Referenced

\* The first rows of the ledger that qualify, at most Batch.
Chosen ==
  LET found == {n \in DOMAIN book : Candidate(book[n])}
  IN  {book[n] : n \in {k \in found : Cardinality({m \in found : m < k}) < Batch}}

Start ==
  /\ Quiet /\ sweep.pc = "idle" /\ Chosen # {}
  /\ sweep' = [pc |-> "recheck", list |-> Chosen]
  /\ UNCHANGED <<ledger, store>> /\ Others

\* The file the script is at: of those it has left, the first one registered.
Turn == book[Min({n \in DOMAIN book : book[n] \in sweep.list})]

Onward == IF sweep.list = {Turn} THEN [pc |-> "idle", list |-> {}]
         ELSE [pc |-> "recheck", list |-> sweep.list \ {Turn}]

Recheck ==
  /\ sweep.pc = "recheck"
  /\ sweep' = IF Turn \in Referenced THEN Onward ELSE [sweep EXCEPT !.pc = "del"]
  /\ UNCHANGED <<ledger, store>> /\ Others

\* Mutant: an object that is not there is an error, and its file stays a candidate.
Del_Present ==
  /\ sweep.pc = "del" /\ Turn \in store
  /\ store' = store \ {Turn} /\ sweep' = [sweep EXCEPT !.pc = "mark"]
  /\ UNCHANGED ledger /\ Others

\* Mutant: a deletion that failed is marked as done.
Del_Assumed == sweep.pc = "del" /\ sweep' = [sweep EXCEPT !.pc = "mark"]
               /\ (store' = store \ {Turn} \/ UNCHANGED store) /\ UNCHANGED ledger /\ Others

\* An object that is not there counts as deleted.
Del ==
  /\ sweep.pc = "del"
  /\ store' = store \ {Turn} /\ sweep' = [sweep EXCEPT !.pc = "mark"]
  /\ UNCHANGED ledger /\ Others

MarkDeleted ==
  /\ sweep.pc = "mark"
  /\ asset' = [asset EXCEPT ![Turn] = "deleted"] /\ sweep' = Onward
  /\ UNCHANGED <<book, store>> /\ Others

\* A call of the script fails, which skips the file or ends the script.
Trouble ==
  /\ sweep.pc # "idle"
  /\ \/ sweep.pc # "recheck" /\ sweep' = Onward
     \/ sweep' = [pc |-> "idle", list |-> {}]
  /\ UNCHANGED <<ledger, store>> /\ Others

-----------------------------------------------------------------------------
Serve(j) ==
  \/ Unread(j) \/ Check(j) \/ Look(j) \/ Uploaded(j) \/ Insert(j) \/ Verify(j) \/ Compare(j) \/ Discard(j)
  \/ Read(j) \/ Snapshot(j) \/ Attach(j) \/ Drop(j) \/ Write(j) \/ Delete(j) \/ Owned(j) \/ Kill(j)
  \/ \E i \in Index : Put(j, i) \/ Record(j, i) \/ Undo(j, i) \/ Reserve(j, i) \/ PutReserved(j, i)

Next ==
  \/ \E j \in DOMAIN job : Serve(j) \/ Token(j) \/ Transfer(j) \/ Submit(j)
  \/ \E s \in pending : Late(s)
  \/ \E u \in Url : Cite(u) \/ Uncite(u)
  \/ Age \/ Start \/ Recheck \/ Del \/ MarkDeleted \/ Trouble

Spec == Init /\ [][Next]_vars

\* Requests end, statements given up do so or never do, time passes, and the
\* script is run again and again, each of its calls failing only so often.
FairSpec ==
  /\ Spec
  /\ \A j \in Job : WF_vars(j \in DOMAIN job /\ Serve(j))
  /\ WF_vars(\E s \in pending : Late(s))
  /\ SF_vars(Age) /\ SF_vars(Start)
  /\ SF_vars(Recheck) /\ SF_vars(Del) /\ SF_vars(MarkDeleted)

-----------------------------------------------------------------------------
\* The shape of the tables, the ledger and the store
\* (src/lib/db/schema.ts, lib/owned-blob.ts, lib/create-with-blobs.ts).
TypeOK ==
  /\ posts \subseteq Post /\ rows \subseteq [post : posts, url : Url]
  /\ file \in [Post -> Url \union {None}]
  /\ cited \subseteq Url
  /\ asset \in [Url -> {"none", "new", "aged", "deleted"}]
  /\ \A u \in Url : Listed(u) <=> u \in Range(book)
  /\ store \subseteq Url
  /\ \A j \in DOMAIN job :
       /\ job[j].pc \in InBrowser \union {"check", "look", "upload", "insert", "verify", "compare", "discard",
            "read", "snapshot", "reserve", "attach", "drop", "write", "delete", "owned"}
       /\ job[j].up \in [Index -> {"todo", "put", "undo", "ok", "bad"}]
       /\ job[j].seen \union job[j].scrap \subseteq Url \union {None}
       /\ job[j].file \in Url \union {None}

\* Unregistered files are kept for ever where only rows are revised or withdrawn.
Kept == IF \E j \in DOMAIN job : task(j).kind \in {"revise", "withdraw"} THEN Old ELSE {}

\* No leak by a single failure: when no request is under way, an object that no
\* content refers to is one the maintenance script can find, or the very call
\* that would have told of it or deleted it has failed.
NothingLost ==
  Quiet => \A u \in store :
             u \in Referenced \/ asset[u] \in {"new", "aged"} \/ u \in blamed \/ u \in Kept

\* The ledger and the store agree on what there is.
FilesSound == TypeOK /\ NothingLost

\* The files content refers to are in the store, whatever requests overlap, fail
\* or are repeated, and whoever else names the file, unless a statement that
\* took effect after its request had given up, or a save of a text read earlier,
\* made the content refer to it.
FilesKept == (Referenced \ {None}) \subseteq (store \union doubtful)

\* Replacing the images of a log never leaves it without one, at no instant and
\* whatever fails or overlaps: images go only when others have come.
NeverBare ==
  [][\A p \in posts \intersect posts' :
       UrlsOf(p) # {} => \E r \in rows' : r.post = p]_vars

\* Once the requests are over, every registered file that no content refers to is
\* deleted in the end, although the script looks at a few files at a time, is
\* interrupted, and meets reservations for which no object was ever stored.
OrphansCollected == <>[](\A u \in store : Listed(u) => u \in Referenced)
=============================================================================
