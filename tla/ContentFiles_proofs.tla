----------------------- MODULE ContentFiles_proofs -----------------------
(***************************************************************************)
(* Proofs about ContentFiles: the inductive invariant IInv, and from it    *)
(* that the content has its files, that no object is forgotten and that no *)
(* log is left without an image.                                           *)
(***************************************************************************)
EXTENDS ContentFiles, FiniteSetTheorems, SequenceTheorems, WellFoundedInduction, TLAPS

\* What a job has to do with its form: the steps of its kind.
Path(kind) ==
  CASE kind = "create" -> {"check", "look", "upload", "insert", "verify", "compare", "discard"}
    [] kind = "add" -> {"check", "reserve", "insert"}
    [] kind = "replace" -> {"read", "snapshot", "reserve", "attach", "drop", "owned", "discard"}
    [] kind = "save" -> {"read", "check", "reserve", "write", "owned", "discard"}
    [] kind = "revise" -> {"read", "check", "reserve", "write"}
    [] kind = "withdraw" -> {"read", "delete"}
    [] OTHER -> {"read", "snapshot", "delete", "owned", "discard"}

Pcs == InBrowser \union {"check", "look", "upload", "insert", "verify", "compare", "discard",
          "read", "snapshot", "reserve", "attach", "drop", "write", "delete", "owned"}

Stmt == [by : Job, kind : {"insert", "attach", "drop", "write", "revise", "delete"}, post : Post,
         urls : SUBSET Url, file : Url \union {None}, read : Url \union {None}]

Place == [pc : Pcs, up : [Index -> {"todo", "put", "undo", "ok", "bad"}],
          seen : SUBSET (Url \union {None}), file : Url \union {None}, scrap : SUBSET Url]

Shape ==
  /\ Possible(plan)
  /\ posts \subseteq Post /\ rows \subseteq [post : posts, url : Url]
  /\ file \in [Post -> Url \union {None}] /\ \A p \in Post \ posts : file[p] = None
  /\ cited \subseteq Url
  /\ asset \in [Url -> {"none", "new", "aged", "deleted"}]
  /\ book \in Seq(Url) /\ \A u \in Url : Listed(u) <=> u \in Range(book)
  /\ \A u \in plan.listed : Listed(u)
  /\ store \subseteq Url
  /\ job \in [DOMAIN plan.task -> Place]
  /\ pending \subseteq Stmt
  /\ sweep \in [pc : {"idle", "recheck", "del", "mark"}, list : SUBSET Url]

\* u may be the url of a row of post p, or its document.
RowOf(p, u) ==
  \/ u \in Old /\ Row(p, {u}) \subseteq plan.rows
  \/ \E k \in DOMAIN job : \E i \in task(k).files : u = <<k, i>> /\ i # 0 /\ task(k).post = p /\ Listed(u)

FileOf(p, u) ==
  \/ u = None
  \/ u \in Old /\ u = plan.file[p]
  \/ \E k \in DOMAIN job : u = <<k, 0>> /\ task(k).post = p /\ Listed(u)

Named ==
  /\ \A r \in rows : RowOf(r.post, r.url)
  /\ \A p \in Post : FileOf(p, file[p])
  /\ \A u \in cited : Listed(u)
  /\ \A j \in DOMAIN job :
       /\ FileOf(task(j).post, job[j].file)
       /\ \A u \in job[j].seen : IF task(j).kind = "create" THEN FileOf(task(j).post, u) ELSE RowOf(task(j).post, u)
       /\ task(j).kind \in {"create", "add"} => job[j].file = None
       /\ task(j).kind \notin {"create", "replace", "delete"} => job[j].seen = {}

\* What a statement brings into content.
Brings(s) ==
  (IF s.kind \in {"insert", "attach"} THEN s.urls ELSE {})
    \union (IF s.kind \in {"insert", "write", "revise"} /\ s.file # s.read THEN {s.file} ELSE {})

Mine(k) == {<<k, i>> : i \in Index}

Kinds(kind) ==
  CASE kind \in {"create", "add"} -> {"insert"}
    [] kind = "replace" -> {"attach", "drop"}
    [] kind = "save" -> {"write"}
    [] kind = "revise" -> {"revise"}
    [] OTHER -> {"delete"}

StmtOK(s) ==
  /\ s.by \in DOMAIN job /\ s.post = task(s.by).post /\ s.kind \in Kinds(task(s.by).kind)
  /\ FileOf(s.post, s.file) /\ FileOf(s.post, s.read)
  /\ s.kind \in {"insert", "attach", "drop"} => \A u \in s.urls : RowOf(s.post, u)
  /\ Brings(s) \subseteq Mine(s.by) /\ (s.kind # "insert" => Brings(s) \subseteq store)
  /\ s.kind = "drop" => \E u \in Images(s.by) : TRUE
  /\ s.kind = "insert" => s.read = None

PendingOK ==
  /\ \A s \in pending : StmtOK(s)
  /\ \A s, t \in pending : s.by = t.by => s = t
  /\ \A s \in pending : job[s.by].pc \in {"verify", "compare", "discard", "done"}

\* The uploads of a job, and what it may rely on.
UploadsOK(j) ==
  /\ job[j].pc \in InBrowser \union Path(task(j).kind)
  /\ job[j].pc \in {"idle", "transfer", "held", "check", "look", "read", "snapshot"} => \A i \in Index : job[j].up[i] = "todo"
  /\ \A i \in task(j).files :
       /\ job[j].pc # "done" /\ job[j].up[i] = "todo" => asset[<<j, i>>] = "none"
       /\ Working(j) => asset[<<j, i>>] \in {"none", "new"}
       /\ job[j].up[i] = "ok" => Listed(<<j, i>>)
       /\ job[j].pc = "reserve" /\ job[j].up[i] = "put" => Listed(<<j, i>>)
       /\ job[j].pc = "upload" /\ job[j].up[i] = "put" => <<j, i>> \in store
       /\ job[j].pc \in {"upload", "insert", "reserve", "attach", "write"} /\ job[j].up[i] = "ok" => <<j, i>> \in store
       /\ job[j].pc \in {"insert", "attach"} \/ (job[j].pc = "write" /\ ~task(j).direct) => job[j].up[i] = "ok"
  /\ job[j].pc \in {"check", "transfer", "held"} => task(j).direct
  /\ job[j].pc = "reserve" /\ task(j).direct => task(j).kind = "replace"
  /\ job[j].pc \in {"look", "upload", "insert", "write"} /\ task(j).direct => <<j, 0>> \in store /\ Listed(<<j, 0>>)
  /\ job[j].pc \in {"attach", "drop"} => task(j).files # {}
  /\ Working(j) => cited \intersect Uploads(j) = {}

\* Until its statement is sent nobody knows the urls of a form.
Early == {"idle", "transfer", "held", "check", "look", "upload", "insert", "read", "snapshot", "reserve",
          "attach", "write"}

Unborn ==
  \A k \in DOMAIN job : job[k].pc \in Early => \A u \in Mine(k) :
    /\ u \notin Referenced
    /\ \A j \in DOMAIN job : u # job[j].file /\ u \notin job[j].seen
    /\ \A s \in pending : u # s.file /\ u \notin s.urls

Unlanded ==
  \A s \in pending : s.kind \in {"insert", "attach"} => \A u \in s.urls :
    /\ u \notin {r.url : r \in rows}
    /\ \A j \in DOMAIN job : task(j).kind = "replace" => u \notin job[j].seen
    /\ \A t \in pending : t.kind = "drop" => u \notin t.urls

\* A row of p that nobody is about to take away.
Lasting(r) ==
  /\ \A j \in DOMAIN job : job[j].pc = "drop" /\ task(j).post = r.post => r.url \notin job[j].seen
  /\ \A s \in pending : s.kind = "drop" /\ s.post = r.post => r.url \notin s.urls

Covered == \A x \in rows : \E r \in rows : r.post = x.post /\ Lasting(r)

\* What a job deletes, nothing names.
ScrapOK(j) ==
  /\ job[j].scrap \subseteq {u \in Old : ~Listed(u)} \union (IF task(j).kind = "create" THEN Uploads(j) ELSE {})
  /\ job[j].scrap # {} => job[j].pc \in {"discard", "done"}
  /\ job[j].scrap \intersect Referenced \subseteq doubtful
  /\ job[j].pc = "compare" => ({<<j, 0>>} \intersect Uploads(j)) \intersect Referenced \subseteq job[j].seen \union doubtful
  /\ job[j].pc = "owned" => \A u \in Taken(j) : u \in Referenced /\ ~Listed(u) => u \in doubtful

SweepOK ==
  /\ sweep.pc = "idle" <=> sweep.list = {}
  /\ sweep.pc # "idle" => Quiet
  /\ \A u \in sweep.list : asset[u] \in {"aged", "deleted"}
  /\ sweep.pc \in {"del", "mark"} => Turn \notin Referenced
  /\ sweep.pc = "mark" => Turn \notin store

\* Who still knows of an object that the ledger does not.
Held(u) ==
  \E j \in DOMAIN job :
    \/ job[j].pc = "owned" /\ u \in Taken(j)
    \/ job[j].pc = "discard" /\ u \in job[j].scrap

InRow(u) ==
  \E r \in rows :
    /\ r.url = u
    /\ \A j \in DOMAIN job : job[j].pc = "delete" /\ task(j).post = r.post => u \in job[j].seen
    /\ \A s \in pending : s.post = r.post => s.kind # "delete" /\ (s.kind = "drop" => u \notin s.urls)

InText(u) ==
  \E p \in posts :
    /\ file[p] = u
    /\ \A j \in DOMAIN job : job[j].pc \in {"check", "reserve", "write", "snapshot", "delete"}
         /\ task(j).kind \in {"save", "delete"} /\ task(j).post = p => job[j].file = u
    /\ \A s \in pending : s.post = p => s.kind \notin {"write", "delete"}

Traced ==
  /\ \A u \in store : asset[u] # "deleted"
  /\ \A u \in store \ Old : ~Listed(u) => u \in blamed \/ \E k \in DOMAIN job : \E i \in task(k).files :
        u = <<k, i>> /\ job[k].pc = "upload" /\ job[k].up[i] \in {"put", "undo"}
  /\ \A u \in store \intersect Old : ~Listed(u) => u \in blamed \/ u \in Kept \/ Held(u) \/ InRow(u) \/ InText(u)

IInv ==
  /\ Shape /\ Named /\ PendingOK
  /\ \A j \in DOMAIN job : UploadsOK(j) /\ ScrapOK(j)
  /\ Unborn /\ Unlanded /\ Covered /\ SweepOK /\ Traced /\ FilesKept

-----------------------------------------------------------------------------
(* Steps.                                                                  *)

\* The scenario stays, except for its faults and cites.
SamePlan ==
  /\ Possible(plan')
  /\ plan'.task = plan.task /\ plan'.rows = plan.rows /\ plan'.file = plan.file /\ plan'.listed = plan.listed

AfterRead == {"check", "reserve", "write", "snapshot", "delete"}

\* A step of one job that touches no content: what it may change.
Local(j) ==
  /\ SamePlan /\ Quietly /\ j \in DOMAIN job
  /\ job' \in [DOMAIN job -> Place] /\ \A k \in DOMAIN job \ {j} : job'[k] = job[k]
  /\ job'[j].pc # "drop"
  /\ job'[j].pc \in Early => job[j].pc \in Early
  /\ job[j].pc \in {"verify", "compare", "discard", "done"} => job'[j].pc \in {"verify", "compare", "discard", "done"}
  /\ ~Working(j) /\ Working(j)' => job[j].pc \in Early
  /\ \/ job'[j].file = job[j].file
     \/ task(j).kind \notin {"create", "add"} /\ job'[j].file = file[task(j).post]
  /\ \/ job'[j].seen = job[j].seen
     \/ task(j).kind = "create" /\ job'[j].seen = {file[task(j).post]}
     \/ task(j).kind \in {"replace", "delete"} /\ job'[j].seen = UrlsOf(task(j).post)
  /\ job'[j].pc = "delete" => task(j).kind = "withdraw" \/ job'[j].seen = UrlsOf(task(j).post)
  /\ job'[j].pc \in AfterRead /\ task(j).kind \in {"save", "delete"} =>
       \/ job[j].pc \in AfterRead /\ job'[j].file = job[j].file
       \/ job'[j].file = file[task(j).post]

\* What it may change in the ledger and in the store.
Around(j) ==
  /\ asset' \in [Url -> {"none", "new", "aged", "deleted"}]
  /\ \A u \in Url : asset'[u] = asset[u] \/ (u \in Mine(j) /\ asset[u] = "none" /\ asset'[u] = "new")
  /\ book' \in Seq(Url) /\ \A u \in Url : Listed(u)' <=> u \in Range(book')
  /\ store' \subseteq Url /\ blamed \subseteq blamed'
  /\ \A u \in store' \ store : u \in Mine(j) /\ asset'[u] # "deleted"
  /\ \A u \in store \ store' : \/ job[j].pc = "upload" /\ u \in Mine(j)
                               \/ job[j].pc = "discard" /\ u \in job[j].scrap
  /\ sweep.pc # "idle" =>
       /\ ~Working(j)' /\ UNCHANGED ledger
       /\ \A u \in store' \ store : asset[u] = "new"

\* The objects j knew of and nobody else, it still knows of, or a failure is on record.
Tells(j) ==
  /\ \A u \in store' \intersect Mine(j) : Listed(u)' \/ u \in blamed' \/
        \E i \in task(j).files : u = <<j, i>> /\ job'[j].pc = "upload" /\ job'[j].up[i] \in {"put", "undo"}
  /\ \A u \in store' \intersect Old : ~Listed(u) =>
        /\ job[j].pc = "owned" /\ u \in Taken(j) =>
              u \in blamed' \/ (job'[j].pc = "owned" /\ u \in Taken(j)') \/ (job'[j].pc = "discard" /\ u \in job'[j].scrap)
        /\ job[j].pc = "discard" /\ u \in job[j].scrap =>
              u \in blamed' \/ (job'[j].pc = "discard" /\ u \in job'[j].scrap)

-----------------------------------------------------------------------------
(* Types.                                                                  *)

\* The urls of a job's form are urls, its own, and never those of files that were there.
LEMMA Urls ==
  ASSUME NEW j \in Job
  PROVE  /\ 0 \in Index /\ Mine(j) \subseteq Url /\ Mine(j) \intersect Old = {} /\ None \notin Mine(j) /\ None \notin Url
         /\ Old \subseteq Url /\ \A i \in Index : <<j, i>> \in Mine(j)
         /\ \A k \in Job : k # j => Mine(j) \intersect Mine(k) = {}
<1>1. MaxImages \in Nat /\ Old \intersect (Job \X Index) = {} /\ None \notin Url BY ContentAssumption
<1>2. 0 \in Index BY <1>1 DEF Index
<1>3. Mine(j) \subseteq Job \X Index BY DEF Mine
<1>4. \A k \in Job : k # j => Mine(j) \intersect Mine(k) = {} BY DEF Mine
<1> QED BY <1>1, <1>2, <1>3, <1>4 DEF Url, Mine

\* What every job's task and place are.
LEMMA Tasks ==
  ASSUME Shape, NEW j \in DOMAIN job
  PROVE  /\ DOMAIN job = DOMAIN plan.task /\ j \in Job /\ task(j) \in Task /\ Form(task(j))
         /\ task(j).post \in Post /\ task(j).files \subseteq Index /\ task(j).direct \in BOOLEAN
         /\ task(j).kind \in {"create", "replace", "save", "delete", "add", "revise", "withdraw"}
         /\ Uploads(j) \subseteq Mine(j) /\ Images(j) \subseteq Uploads(j)
         /\ Uploads(j) \subseteq Url /\ <<j, 0>> \in Url /\ (Doc(j) = None \/ Doc(j) = <<j, 0>>)
         /\ job[j] \in Place
<1>1. DOMAIN job = DOMAIN plan.task /\ job[j] \in Place BY DEF Shape
<1>2. j \in Job /\ plan.task[j] \in Task /\ Form(plan.task[j]) BY <1>1 DEF Shape, Possible
<1>3. /\ task(j).post \in Post /\ task(j).files \subseteq Index /\ task(j).direct \in BOOLEAN
      /\ task(j).kind \in {"create", "replace", "save", "delete", "add", "revise", "withdraw"}
  BY <1>2 DEF task, Task
<1>4. Uploads(j) \subseteq Mine(j) /\ Images(j) \subseteq Uploads(j) BY <1>3 DEF Uploads, Images, Mine
<1>5. Doc(j) = None \/ Doc(j) = <<j, 0>> BY DEF Doc
<1> QED BY <1>1, <1>2, <1>3, <1>4, <1>5, Urls DEF task

\* The fields of a job's place.
LEMMA Places ==
  ASSUME NEW x \in Place
  PROVE  /\ x.pc \in Pcs
         /\ x.up \in [Index -> {"todo", "put", "undo", "ok", "bad"}]
         /\ x.seen \subseteq Url \union {None} /\ x.file \in Url \union {None} /\ x.scrap \subseteq Url
BY DEF Place

\* The scenario's tasks are the same after a step.
LEMMA SameTasks ==
  ASSUME Shape, SamePlan, DOMAIN job' = DOMAIN job
  PROVE  /\ \A k \in DOMAIN job : /\ task(k)' = task(k) /\ Uploads(k)' = Uploads(k) /\ Images(k)' = Images(k)
                                  /\ Doc(k)' = Doc(k)
         /\ Kept' = Kept
<1>1. \A k \in DOMAIN job : task(k)' = task(k) BY DEF SamePlan, task
<1>2. Kept' = Kept BY <1>1 DEF Kept
<1> QED BY <1>1, <1>2 DEF Uploads, Images, Doc

\* A step without a failure leaves the scenario.
LEMMA FinePlan ==
  ASSUME Shape, Fine
  PROVE  SamePlan /\ blamed' = blamed
BY DEF Shape, Fine, SamePlan

\* A failure takes one from the budget and leaves the rest of the scenario.
LEMMA FaultPlan ==
  ASSUME Shape, NEW S, Fault(S)
  PROVE  SamePlan /\ blamed' = blamed \union S
<1>1. DOMAIN plan = {"task", "posts", "rows", "file", "listed", "faults", "cites"} /\ plan.faults \in Nat
  BY DEF Shape, Possible
<1>2. PICK q : q = [plan EXCEPT !.faults = plan.faults - 1] /\ plan' = q BY DEF Fault
<1>3. /\ DOMAIN q = DOMAIN plan /\ q.task = plan.task /\ q.rows = plan.rows /\ q.file = plan.file
      /\ q.posts = plan.posts /\ q.listed = plan.listed /\ q.cites = plan.cites /\ q.faults = plan.faults - 1
  BY <1>1, <1>2
<1>4. q.faults \in Nat BY <1>1, <1>3 DEF Fault
<1>5. Possible(q) BY <1>3, <1>4 DEF Shape, Possible
<1> QED BY <1>2, <1>3, <1>5 DEF SamePlan, Fault

\* A citation takes one from its budget and leaves the rest of the scenario.
LEMMA CitePlan ==
  ASSUME Shape, NEW u, Cite(u)
  PROVE  SamePlan
<1>1. DOMAIN plan = {"task", "posts", "rows", "file", "listed", "faults", "cites"} /\ plan.cites \in Nat
  BY DEF Shape, Possible
<1>2. PICK q : q = [plan EXCEPT !.cites = plan.cites - 1] /\ plan' = q BY DEF Cite
<1>3. /\ DOMAIN q = DOMAIN plan /\ q.task = plan.task /\ q.rows = plan.rows /\ q.file = plan.file
      /\ q.posts = plan.posts /\ q.listed = plan.listed /\ q.faults = plan.faults /\ q.cites = plan.cites - 1
  BY <1>1, <1>2
<1>4. q.cites \in Nat BY <1>1, <1>3 DEF Cite
<1>5. Possible(q) BY <1>3, <1>4 DEF Shape, Possible
<1> QED BY <1>2, <1>3, <1>5 DEF SamePlan

\* Changing fields of one job.
LEMMA GoFields ==
  ASSUME Shape, NEW j \in DOMAIN job, NEW x \in Pcs, Go(j, x)
  PROVE  /\ job' \in [DOMAIN job -> Place] /\ DOMAIN job' = DOMAIN job
         /\ \A k \in DOMAIN job \ {j} : job'[k] = job[k]
         /\ job'[j].pc = x /\ job'[j].up = job[j].up /\ job'[j].seen = job[j].seen
         /\ job'[j].file = job[j].file /\ job'[j].scrap = job[j].scrap
<1>1. job \in [DOMAIN job -> Place] /\ job[j] \in Place BY DEF Shape
<1>2. PICK y : y = [job[j] EXCEPT !.pc = x] OBVIOUS
<1>3. y \in Place /\ y.pc = x /\ y.up = job[j].up /\ y.seen = job[j].seen /\ y.file = job[j].file /\ y.scrap = job[j].scrap
  BY <1>1, <1>2 DEF Place
<1>4. job' = [job EXCEPT ![j] = y] BY <1>2 DEF Go
<1> QED BY <1>1, <1>3, <1>4

Puts(j, i, x) == job' = [job EXCEPT ![j].up[i] = x]

\* Changing the state of one upload.
LEMMA UpFields ==
  ASSUME Shape, NEW j \in DOMAIN job, NEW i \in Index, NEW x \in {"todo", "put", "undo", "ok", "bad"}, Puts(j, i, x)
  PROVE  /\ job' \in [DOMAIN job -> Place] /\ DOMAIN job' = DOMAIN job
         /\ \A k \in DOMAIN job \ {j} : job'[k] = job[k]
         /\ job'[j].pc = job[j].pc /\ job'[j].seen = job[j].seen
         /\ job'[j].file = job[j].file /\ job'[j].scrap = job[j].scrap
         /\ job'[j].up[i] = x /\ \A n \in Index \ {i} : job'[j].up[n] = job[j].up[n]
<1>1. job \in [DOMAIN job -> Place] /\ job[j] \in Place BY DEF Shape
<1>2. PICK f : f = [job[j].up EXCEPT ![i] = x] OBVIOUS
<1>3. PICK y : y = [job[j] EXCEPT !.up = f] OBVIOUS
<1>4. f \in [Index -> {"todo", "put", "undo", "ok", "bad"}] /\ f[i] = x /\ \A n \in Index \ {i} : f[n] = job[j].up[n]
  BY <1>1, <1>2 DEF Place
<1>5. y \in Place /\ y.pc = job[j].pc /\ y.up = f /\ y.seen = job[j].seen /\ y.file = job[j].file /\ y.scrap = job[j].scrap
  BY <1>1, <1>3, <1>4 DEF Place
<1>6. job' = [job EXCEPT ![j] = y] BY <1>2, <1>3 DEF Puts
<1> QED BY <1>1, <1>4, <1>5, <1>6

\* Registering a url of one's own.
LEMMA RegisterFields ==
  ASSUME Shape, NEW j \in Job, NEW u \in Mine(j), Register(u) \/ UNCHANGED ledger
  PROVE  /\ asset' \in [Url -> {"none", "new", "aged", "deleted"}]
         /\ \A v \in Url : asset'[v] = asset[v] \/ (v = u /\ asset[v] = "none" /\ asset'[v] = "new")
         /\ book' \in Seq(Url) /\ \A v \in Url : Listed(v)' <=> v \in Range(book')
         /\ Register(u) => Listed(u)'
<1>1. u \in Url BY Urls
<1>2. CASE UNCHANGED ledger BY <1>2, <1>1 DEF ledger, Shape, Listed, Register
<1>3. CASE Register(u) /\ Listed(u) BY <1>3, <1>1 DEF ledger, Shape, Listed, Register
<1>4. CASE Register(u) /\ ~Listed(u)
  <2>1. book' = Append(book, u) /\ asset' = [asset EXCEPT ![u] = "new"] /\ asset[u] = "none"
    BY <1>4 DEF Register, Listed
  <2>2. book \in Seq(Url) /\ asset \in [Url -> {"none", "new", "aged", "deleted"}] BY DEF Shape
  <2>3. book' \in Seq(Url) /\ Range(book') = Range(book) \union {u}
    <3>1. book' \in Seq(Url) BY <1>1, <2>1, <2>2
    <3>2. Len(book') = Len(book) + 1 /\ book'[Len(book) + 1] = u /\ \A n \in 1..Len(book) : book'[n] = book[n]
      BY <1>1, <2>1, <2>2
    <3>3. Len(book) \in Nat /\ DOMAIN book = 1..Len(book) /\ DOMAIN book' = 1..(Len(book) + 1) BY <2>2, <3>1, <3>2
    <3> QED BY <3>1, <3>2, <3>3 DEF Range
  <2>4. \A v \in Url : asset'[v] = IF v = u THEN "new" ELSE asset[v] BY <2>1, <2>2
  <2> QED BY <1>1, <2>1, <2>2, <2>3, <2>4 DEF Shape, Listed
<1> QED BY <1>2, <1>3, <1>4

\* The script runs only while no request is under way.
LEMMA SweepIdle ==
  ASSUME IInv, NEW j \in DOMAIN job, Working(j) \/ Open
  PROVE  sweep.pc = "idle"
BY DEF IInv, SweepOK, Quiet, Open

\* What a job took away is the same after a step that leaves what it knows.
LEMMA SameTaken ==
  ASSUME Shape, SamePlan, DOMAIN job' = DOMAIN job, NEW k \in DOMAIN job,
         job'[k].seen = job[k].seen, job'[k].file = job[k].file
  PROVE  Taken(k)' = Taken(k)
<1>1. \A x \in DOMAIN job : task(x)' = task(x) BY SameTasks
<1>2. {x \in DOMAIN job : task(x).direct}' = {x \in DOMAIN job : task(x).direct} BY <1>1
<1> QED BY <1>1, <1>2 DEF Taken

\* Nothing a step of one job does to the content, the ledger or the scenario
\* matters to what another deletes.
SameContent == UNCHANGED <<content, cited, doubtful>> /\ \A u \in Old : asset'[u] = asset[u]

\* What content refers to changes only with the content.
LEMMA SameReferenced ==
  ASSUME UNCHANGED <<content, cited>>
  PROVE  Referenced' = Referenced /\ \A p : UrlsOf(p)' = UrlsOf(p)
BY DEF content, Referenced, UrlsOf

\* A job that only goes on.
LEMMA MoveLocal ==
  ASSUME IInv, NEW j \in DOMAIN job, NEW x \in Pcs, Go(j, x), SamePlan, Quietly,
         \A u \in Old : asset'[u] = asset[u],
         x \in InBrowser \union Path(task(j).kind), x \notin {"drop", "compare", "owned"},
         job[j].pc # "done", x \in Early => job[j].pc \in Early,
         job[j].pc \in {"verify", "compare", "discard"} => x \in {"verify", "discard", "done"},
         job[j].pc = "discard" => x = "done",
         job[j].pc \in InBrowser /\ x \notin InBrowser => job[j].pc \in Early,
         x = "delete" => task(j).kind = "withdraw",
         x \in AfterRead /\ task(j).kind \in {"save", "delete"} => job[j].pc \in AfterRead
  PROVE  Local(j) /\ ScrapOK(j)'
<1>1. Shape /\ UploadsOK(j) /\ ScrapOK(j) BY DEF IInv
<1>2. /\ job' \in [DOMAIN job -> Place] /\ DOMAIN job' = DOMAIN job
      /\ \A k \in DOMAIN job \ {j} : job'[k] = job[k]
      /\ job'[j].pc = x /\ job'[j].up = job[j].up /\ job'[j].seen = job[j].seen
      /\ job'[j].file = job[j].file /\ job'[j].scrap = job[j].scrap
  BY <1>1, GoFields
<1>3. ~Working(j) /\ Working(j)' => job[j].pc \in Early BY <1>2 DEF Working, InBrowser
<1>4. Local(j) BY <1>2, <1>3 DEF Local, AfterRead
<1>5. task(j)' = task(j) /\ Uploads(j)' = Uploads(j) BY <1>1, <1>2, SameTasks
<1>6. Referenced' = Referenced /\ doubtful' = doubtful BY SameReferenced DEF Quietly
<1>7. \A u \in Old : Listed(u)' <=> Listed(u) BY DEF Listed
<1>8. job'[j].scrap # {} => job'[j].pc \in {"discard", "done"} BY <1>1, <1>2 DEF ScrapOK
<1>9. job'[j].scrap \subseteq {u \in Old : ~Listed(u)'} \union (IF task(j)'.kind = "create" THEN Uploads(j)' ELSE {})
  BY <1>1, <1>2, <1>5, <1>7 DEF ScrapOK
<1> QED BY <1>1, <1>2, <1>4, <1>5, <1>6, <1>8, <1>9 DEF ScrapOK

\* A step that leaves the ledger and the store.
LEMMA Still ==
  ASSUME IInv, NEW j \in DOMAIN job, UNCHANGED <<store, ledger>>, blamed \subseteq blamed',
         sweep.pc # "idle" => ~Working(j)'
  PROVE  Around(j)
<1>1. Shape BY DEF IInv
<1>2. \A u \in Url : Listed(u)' <=> Listed(u) BY DEF Listed, ledger
<1> QED BY <1>1, <1>2 DEF Around, Shape, ledger, Listed

\* A step of a job that has no unregistered object in hand.
LEMMA TellsNothing ==
  ASSUME IInv, NEW j \in DOMAIN job, job[j].pc \notin {"upload", "owned", "discard"}, blamed \subseteq blamed',
         \A u \in Url : Listed(u) => Listed(u)',
         \A u \in store' \ store : Listed(u)'
  PROVE  Tells(j)
<1>1. Shape /\ Traced BY DEF IInv
<1>2. j \in Job /\ Mine(j) \intersect Old = {} /\ Mine(j) \subseteq Url BY <1>1, Tasks, Urls
<1>3. ASSUME NEW u \in store' \intersect Mine(j) PROVE Listed(u)' \/ u \in blamed'
  <2>1. CASE u \in store /\ ~Listed(u)
    <3>1. u \in store \ Old BY <1>2, <2>1
    <3>2. ASSUME NEW k \in DOMAIN job, NEW i \in task(k).files, u = <<k, i>> PROVE k = j
      BY <1>3, <3>2 DEF Mine
    <3> QED BY <1>1, <2>1, <3>1, <3>2 DEF Traced
  <2> QED BY <1>2, <1>3, <2>1
<1> QED BY <1>3 DEF Tells

\* The uploads of a job that goes on and changes neither ledger nor store.
LEMMA GoneUploads ==
  ASSUME IInv, NEW j \in DOMAIN job, NEW x \in Pcs, SamePlan, Quietly, UNCHANGED <<store, ledger>>,
         DOMAIN job' = DOMAIN job, job'[j].pc = x, job'[j].up = job[j].up,
         x \in InBrowser \union Path(task(j).kind), x \notin {"transfer", "held", "drop"},
         job[j].pc # "done",
         x \in {"idle", "check", "look", "read", "snapshot", "reserve"} =>
            job[j].pc \in {"idle", "transfer", "held", "check", "look", "read", "snapshot"},
         x = "upload" => job[j].pc = "look",
         x = "write" => job[j].pc \in {"read", "check"} /\ (task(j).direct \/ task(j).files = {}),
         x = "insert" => task(j).files = {} \/ (job[j].pc = "upload" /\ \A i \in task(j).files : job[j].up[i] = "ok"),
         x # "attach",
         x = "check" => task(j).direct,
         x = "reserve" /\ task(j).direct => task(j).kind = "replace",
         x \in {"look", "upload", "insert", "write"} /\ task(j).direct =>
            (<<j, 0>> \in store /\ Listed(<<j, 0>>)) \/ job[j].pc \in {"look", "upload", "insert", "write"},
         Working(j)' => Working(j) \/ job[j].pc \in {"idle", "held"}
  PROVE  UploadsOK(j)'
<1>1. Shape /\ UploadsOK(j) BY DEF IInv
<1>2. /\ DOMAIN job' = DOMAIN job /\ job'[j].pc = x /\ job'[j].up = job[j].up OBVIOUS
<1>3. task(j)' = task(j) /\ Uploads(j)' = Uploads(j) /\ task(j).files \subseteq Index /\ Uploads(j) \subseteq Mine(j)
  BY <1>1, <1>2, SameTasks, Tasks
<1>4. store' = store /\ asset' = asset /\ cited' = cited BY DEF Quietly, ledger
<1>5. \A u \in Url : Listed(u)' <=> Listed(u) BY <1>4 DEF Listed
<1>6. \A i \in Index : <<j, i>> \in Url BY <1>1, Tasks, Urls
<1>7. Working(j)' => cited' \intersect Uploads(j)' = {}
  <2>1. CASE Working(j) BY <1>1, <1>3, <1>4, <2>1 DEF UploadsOK
  <2>2. CASE job[j].pc \in {"idle", "held"}
    <3>1. Unborn /\ cited \subseteq Referenced BY DEF IInv, Referenced
    <3>2. \A u \in Mine(j) : u \notin Referenced BY <2>2, <3>1 DEF Unborn, Early
    <3> QED BY <1>3, <1>4, <3>1, <3>2
  <2> QED BY <2>1, <2>2
<1>8. ASSUME NEW i \in task(j).files
      PROVE  /\ x # "done" /\ job[j].up[i] = "todo" => asset[<<j, i>>] = "none"
             /\ Working(j)' => asset[<<j, i>>] \in {"none", "new"}
             /\ job[j].up[i] = "ok" => Listed(<<j, i>>)
             /\ x = "reserve" /\ job[j].up[i] = "put" => Listed(<<j, i>>)
             /\ x = "upload" /\ job[j].up[i] = "put" => <<j, i>> \in store
             /\ x \in {"upload", "insert", "reserve", "attach", "write"} /\ job[j].up[i] = "ok" => <<j, i>> \in store
             /\ x \in {"insert", "attach"} \/ (x = "write" /\ ~task(j).direct) => job[j].up[i] = "ok"
  <2>1. x # "done" /\ job[j].up[i] = "todo" => asset[<<j, i>>] = "none" BY <1>1, <1>8 DEF UploadsOK
  <2>2. Working(j)' => asset[<<j, i>>] \in {"none", "new"}
    <3>1. CASE Working(j) BY <1>1, <1>8, <3>1 DEF UploadsOK
    <3>2. CASE job[j].pc \in {"idle", "held"} BY <1>1, <1>3, <1>8, <3>2 DEF UploadsOK
    <3> QED BY <3>1, <3>2
  <2>3. job[j].up[i] = "ok" => Listed(<<j, i>>) BY <1>1, <1>8 DEF UploadsOK
  <2>4. x \in {"reserve", "upload", "write"} => job[j].up[i] = "todo" BY <1>1, <1>3, <1>8 DEF UploadsOK
  <2>5. x = "insert" /\ job[j].up[i] = "ok" => <<j, i>> \in store BY <1>1, <1>8 DEF UploadsOK
  <2>6. x = "insert" => job[j].up[i] = "ok" BY <1>8
  <2>7. x = "write" => task(j).direct BY <1>8
  <2> QED BY <2>1, <2>2, <2>3, <2>4, <2>5, <2>6, <2>7
<1>9. x \in {"look", "upload", "insert", "write"} /\ task(j).direct => <<j, 0>> \in store /\ Listed(<<j, 0>>)
  BY <1>1 DEF UploadsOK
<1>10. x \notin {"attach", "drop"} OBVIOUS
<1>11. <<j, 0>> \in Url BY <1>1, Tasks
<1>12. \A i \in task(j).files : i \in Index /\ <<j, i>> \in Url BY <1>3, <1>6
<1>13. x \in {"idle", "transfer", "held", "check", "look", "read", "snapshot"} => \A i \in Index : job[j].up[i] = "todo"
  BY <1>1 DEF UploadsOK
<1> QED
  <2>1. job'[j].pc \in InBrowser \union Path(task(j)'.kind) BY <1>2, <1>3
  <2>2. job'[j].pc \in {"idle", "transfer", "held", "check", "look", "read", "snapshot"} => \A i \in Index : job'[j].up[i] = "todo"
    BY <1>2, <1>13
  <2>3. \A i \in task(j)'.files :
       /\ job'[j].pc # "done" /\ job'[j].up[i] = "todo" => asset'[<<j, i>>] = "none"
       /\ Working(j)' => asset'[<<j, i>>] \in {"none", "new"}
       /\ job'[j].up[i] = "ok" => Listed(<<j, i>>)'
       /\ job'[j].pc = "reserve" /\ job'[j].up[i] = "put" => Listed(<<j, i>>)'
       /\ job'[j].pc = "upload" /\ job'[j].up[i] = "put" => <<j, i>> \in store'
       /\ job'[j].pc \in {"upload", "insert", "reserve", "attach", "write"} /\ job'[j].up[i] = "ok" => <<j, i>> \in store'
       /\ job'[j].pc \in {"insert", "attach"} \/ (job'[j].pc = "write" /\ ~task(j)'.direct) => job'[j].up[i] = "ok"
    BY <1>2, <1>3, <1>4, <1>5, <1>8, <1>12
  <2>4. job'[j].pc \in {"check", "transfer", "held"} => task(j)'.direct BY <1>2, <1>3
  <2>5. job'[j].pc = "reserve" /\ task(j)'.direct => task(j)'.kind = "replace" BY <1>2, <1>3
  <2>6. job'[j].pc \in {"look", "upload", "insert", "write"} /\ task(j)'.direct => <<j, 0>> \in store' /\ Listed(<<j, 0>>)'
    BY <1>2, <1>3, <1>4, <1>5, <1>9, <1>11
  <2>7. job'[j].pc \in {"attach", "drop"} => task(j)'.files # {} BY <1>2, <1>10
  <2> QED BY <1>7, <2>1, <2>2, <2>3, <2>4, <2>5, <2>6, <2>7 DEF UploadsOK

\* The same for a job whose place is set by Go.
LEMMA MoveUploads ==
  ASSUME IInv, NEW j \in DOMAIN job, NEW x \in Pcs, Go(j, x), SamePlan, Quietly, UNCHANGED <<store, ledger>>,
         x \in InBrowser \union Path(task(j).kind), x \notin {"transfer", "held", "drop"},
         job[j].pc # "done",
         x \in {"idle", "check", "look", "read", "snapshot", "reserve"} =>
            job[j].pc \in {"idle", "transfer", "held", "check", "look", "read", "snapshot"},
         x = "upload" => job[j].pc = "look",
         x = "write" => job[j].pc \in {"read", "check"} /\ (task(j).direct \/ task(j).files = {}),
         x = "insert" => task(j).files = {} \/ (job[j].pc = "upload" /\ \A i \in task(j).files : job[j].up[i] = "ok"),
         x # "attach",
         x = "check" => task(j).direct,
         x = "reserve" /\ task(j).direct => task(j).kind = "replace",
         x \in {"look", "upload", "insert", "write"} /\ task(j).direct =>
            (<<j, 0>> \in store /\ Listed(<<j, 0>>)) \/ job[j].pc \in {"look", "upload", "insert", "write"},
         Working(j)' => Working(j) \/ job[j].pc \in {"idle", "held"}
  PROVE  UploadsOK(j)'
<1>1. DOMAIN job' = DOMAIN job /\ job'[j].pc = x /\ job'[j].up = job[j].up BY GoFields DEF IInv
<1> QED BY <1>1, GoneUploads

\* All that a step of one job that touches no content has to keep.
Steady(j) == Local(j) /\ Around(j) /\ Tells(j) /\ UploadsOK(j)' /\ ScrapOK(j)'

\* The ledger as it was lists what it listed.
LEMMA LedgerStays ==
  ASSUME UNCHANGED ledger
  PROVE  asset' = asset /\ book' = book /\ \A u : Listed(u)' <=> Listed(u)
BY DEF ledger, Listed

\* Submitting a form is a steady step.
LEMMA SubmitSteady ==
  ASSUME IInv, NEW j \in DOMAIN job, Submit(j)
  PROVE  Steady(j)
<1>1. Shape /\ UploadsOK(j) /\ sweep.pc = "idle" BY DEF IInv, Submit, Open
<1>2. PICK x : x = IF task(j).kind \notin {"create", "add"} THEN "read"
                   ELSE IF task(j).direct THEN "check"
                   ELSE IF task(j).kind = "create" THEN "look" ELSE "reserve" OBVIOUS
<1>3. Go(j, x) /\ Fine /\ UNCHANGED <<store, ledger>> /\ Quietly BY <1>2 DEF Submit
<1>4. SamePlan /\ blamed' = blamed BY <1>1, <1>3, FinePlan
<1>5. job[j].pc = (IF task(j).direct THEN "held" ELSE "idle") BY DEF Submit
<1>6. task(j).kind \in {"create", "replace", "save", "delete", "add", "revise", "withdraw"} /\ task(j).direct \in BOOLEAN
  BY <1>1, Tasks
<1>7. /\ x \in Pcs /\ x \in Path(task(j).kind) /\ x \in {"read", "check", "look", "reserve"}
      /\ x = "check" => task(j).direct
      /\ x \in {"check", "reserve"} => task(j).kind \in {"create", "add"}
      /\ x \in {"look", "reserve"} => ~task(j).direct
      /\ x = "reserve" => task(j).kind = "add"
  <2>1. CASE task(j).kind \notin {"create", "add"} BY <1>2, <1>6, <2>1 DEF Pcs, Path
  <2>2. CASE task(j).kind = "create" /\ task(j).direct BY <1>2, <2>2 DEF Pcs, Path
  <2>3. CASE task(j).kind = "create" /\ ~task(j).direct BY <1>2, <2>3 DEF Pcs, Path
  <2>4. CASE task(j).kind = "add" /\ task(j).direct BY <1>2, <2>4 DEF Pcs, Path
  <2>5. CASE task(j).kind = "add" /\ ~task(j).direct BY <1>2, <2>5 DEF Pcs, Path
  <2> QED BY <1>6, <2>1, <2>2, <2>3, <2>4, <2>5
<1>8. asset' = asset /\ \A u : Listed(u)' <=> Listed(u) BY <1>3, LedgerStays
<1>9. job[j].pc \in {"held", "idle"} BY <1>5
<1>10. Local(j) /\ ScrapOK(j)' BY <1>3, <1>4, <1>7, <1>8, <1>9, MoveLocal DEF Early, AfterRead
<1>11. UploadsOK(j)' BY <1>3, <1>4, <1>7, <1>9, MoveUploads
<1>12. Around(j) BY <1>1, <1>3, <1>4, Still
<1>13. Tells(j) BY <1>3, <1>4, <1>8, <1>9, TellsNothing
<1> QED BY <1>10, <1>11, <1>12, <1>13 DEF Steady

\* A request that ends without having sent anything, or whose end costs what it knew.
LEMMA StopSteady ==
  ASSUME IInv, NEW j \in DOMAIN job, Working(j), NEW S, Fault(S), Go(j, "done"),
         UNCHANGED <<store, ledger>>, Quietly,
         \/ job[j].pc \in {"check", "look", "read", "snapshot", "verify", "compare"}
         \/ S = (Uploads(j) \union job[j].seen \union {job[j].file} \union job[j].scrap) \ {None}
  PROVE  Steady(j)
<1>1. Shape /\ UploadsOK(j) /\ ScrapOK(j) /\ Traced BY DEF IInv
<1>2. SamePlan /\ blamed' = blamed \union S BY <1>1, FaultPlan
<1>3. asset' = asset /\ \A u : Listed(u)' <=> Listed(u) BY LedgerStays
<1>4. "done" \in Pcs /\ "done" \in InBrowser BY DEF Pcs, InBrowser
<1>5. job[j].pc # "done" /\ job[j].pc \notin InBrowser BY DEF Working, InBrowser
<1>6. Local(j) /\ ScrapOK(j)' BY <1>2, <1>3, <1>4, <1>5, MoveLocal DEF Early, AfterRead
<1>7. DOMAIN job' = DOMAIN job /\ job'[j].pc = "done" BY <1>1, <1>4, GoFields
<1>8. ~Working(j)' BY <1>4, <1>7 DEF Working
<1>9. UploadsOK(j)' BY <1>2, <1>4, <1>5, <1>8, MoveUploads
<1>10. Around(j) BY <1>2, <1>8, Still
<1>11. Tells(j)
  <2>1. CASE job[j].pc \in {"check", "look", "read", "snapshot", "verify", "compare"}
    BY <1>2, <1>3, <2>1, TellsNothing
  <2>2. CASE S = (Uploads(j) \union job[j].seen \union {job[j].file} \union job[j].scrap) \ {None}
    <3>1. ASSUME NEW u \in store' \intersect Mine(j) PROVE Listed(u)' \/ u \in blamed'
      <4>1. j \in Job /\ u \in Url /\ u \notin Old /\ None \notin Url BY <1>1, Tasks, Urls
      <4>2. CASE ~Listed(u)
        <5>1. u \in blamed \/ \E k \in DOMAIN job : \E i \in task(k).files :
                   u = <<k, i>> /\ job[k].pc = "upload" /\ job[k].up[i] \in {"put", "undo"}
          BY <1>1, <4>1, <4>2 DEF Traced
        <5>2. ASSUME NEW k \in DOMAIN job, NEW i \in task(k).files, u = <<k, i>> PROVE u \in Uploads(j)
          BY <3>1, <5>2 DEF Mine, Uploads
        <5> QED BY <1>2, <2>2, <4>1, <5>1, <5>2
      <4> QED BY <1>3, <4>2
    <3>2. \A u \in Url : u \in Taken(j) \/ u \in job[j].scrap => u \in S
      <4>1. None \notin Url BY <1>1, Tasks, Urls
      <4> QED BY <2>2, <4>1 DEF Taken
    <3>3. Old \subseteq Url BY DEF Url
    <3> QED BY <1>2, <3>1, <3>2, <3>3 DEF Tells
  <2> QED BY <2>1, <2>2
<1> QED BY <1>6, <1>9, <1>10, <1>11 DEF Steady

\* A failed read is a steady step.
LEMMA UnreadSteady ==
  ASSUME IInv, NEW j \in DOMAIN job, Unread(j)
  PROVE  Steady(j)
<1>1. Working(j) BY DEF Unread, Working, InBrowser
<1> QED BY <1>1, StopSteady DEF Unread

\* So is the end of a function in the middle.
LEMMA KillSteady ==
  ASSUME IInv, NEW j \in DOMAIN job, Kill(j)
  PROVE  Steady(j)
BY StopSteady DEF Kill

\* So is the check of an uploaded document.
LEMMA CheckSteady ==
  ASSUME IInv, NEW j \in DOMAIN job, Check(j)
  PROVE  Steady(j)
<1>1. Shape /\ UploadsOK(j) BY DEF IInv
<1>2. job[j].pc = "check" /\ task(j).direct /\ task(j).kind \in {"create", "add", "save", "revise"}
  BY <1>1, Tasks DEF Check, UploadsOK, Path, InBrowser
<1>3. PICK x : x = IF ~Usable(<<j, 0>>) THEN "done"
                   ELSE CASE task(j).kind = "create" -> "look"
                          [] task(j).kind = "add" -> "insert"
                          [] OTHER -> "write" OBVIOUS
<1>4. Go(j, x) /\ Fine /\ UNCHANGED <<store, ledger>> /\ Quietly BY <1>3 DEF Check, Reads
<1>5. SamePlan /\ blamed' = blamed BY <1>1, <1>4, FinePlan
<1>6. /\ x \in Pcs /\ x \in InBrowser \union Path(task(j).kind) /\ x \in {"done", "look", "insert", "write"}
      /\ x = "insert" => task(j).kind = "add"
      /\ x # "done" => Usable(<<j, 0>>)
  <2>1. CASE ~Usable(<<j, 0>>) BY <1>3, <2>1 DEF Pcs, InBrowser
  <2>2. CASE Usable(<<j, 0>>) /\ task(j).kind = "create" BY <1>3, <2>2 DEF Pcs, Path
  <2>3. CASE Usable(<<j, 0>>) /\ task(j).kind = "add" BY <1>3, <2>3 DEF Pcs, Path
  <2>4. CASE Usable(<<j, 0>>) /\ task(j).kind \in {"save", "revise"} BY <1>3, <2>4 DEF Pcs, Path
  <2> QED BY <1>2, <2>1, <2>2, <2>3, <2>4
<1>7. x # "done" => <<j, 0>> \in store /\ Listed(<<j, 0>>) BY <1>6 DEF Usable, Listed
<1>8. x = "insert" => task(j).files = {} BY <1>1, <1>2, <1>6, Tasks DEF Form
<1>9. asset' = asset /\ \A u : Listed(u)' <=> Listed(u) BY <1>4, LedgerStays
<1>10. Working(j) BY <1>2 DEF Working, InBrowser
<1>11. "check" \in Early /\ "check" \in AfterRead /\ "check" \notin InBrowser BY DEF Early, AfterRead, InBrowser
<1>12. Local(j) /\ ScrapOK(j)' BY <1>2, <1>4, <1>5, <1>6, <1>9, <1>11, MoveLocal
<1>13. UploadsOK(j)' BY <1>2, <1>4, <1>5, <1>6, <1>7, <1>8, <1>10, MoveUploads
<1>14. Around(j) BY <1>4, <1>5, <1>10, SweepIdle, Still
<1>15. Tells(j) BY <1>2, <1>4, <1>5, <1>9, TellsNothing
<1> QED BY <1>12, <1>13, <1>14, <1>15 DEF Steady

\* So is the look for a post of an earlier submission.
LEMMA LookSteady ==
  ASSUME IInv, NEW j \in DOMAIN job, Look(j)
  PROVE  Steady(j)
<1>1. Shape /\ UploadsOK(j) BY DEF IInv
<1>2. job[j].pc = "look" /\ task(j).kind = "create" BY <1>1, Tasks DEF Look, UploadsOK, Path, InBrowser
<1>3. PICK x : x = IF task(j).post \in posts THEN "done" ELSE "upload" OBVIOUS
<1>4. Go(j, x) /\ Fine /\ UNCHANGED <<store, ledger>> /\ Quietly BY <1>3 DEF Look, Reads
<1>5. SamePlan /\ blamed' = blamed BY <1>1, <1>4, FinePlan
<1>6. x \in Pcs /\ x \in InBrowser \union Path(task(j).kind) /\ x \in {"done", "upload"}
  BY <1>2, <1>3 DEF Pcs, Path, InBrowser
<1>7. asset' = asset /\ \A u : Listed(u)' <=> Listed(u) BY <1>4, LedgerStays
<1>8. Working(j) BY <1>2 DEF Working, InBrowser
<1>9. "look" \in Early /\ "look" \notin InBrowser BY DEF Early, InBrowser
<1>10. Local(j) /\ ScrapOK(j)' BY <1>2, <1>4, <1>5, <1>6, <1>7, <1>9, MoveLocal DEF AfterRead
<1>11. UploadsOK(j)' BY <1>2, <1>4, <1>5, <1>6, <1>8, MoveUploads
<1>12. Around(j) BY <1>4, <1>5, <1>8, SweepIdle, Still
<1>13. Tells(j) BY <1>2, <1>4, <1>5, <1>7, TellsNothing
<1> QED BY <1>10, <1>11, <1>12, <1>13 DEF Steady

\* The parts of a job's ScrapOK that a step leaves when the job deletes nothing.
LEMMA NoScrap ==
  ASSUME IInv, NEW j \in DOMAIN job, Local(j), \A u \in Old : asset'[u] = asset[u],
         job[j].pc \notin {"discard", "done"}, job'[j].scrap = job[j].scrap, job'[j].pc \notin {"compare", "owned"}
  PROVE  ScrapOK(j)'
<1>1. Shape /\ ScrapOK(j) BY DEF IInv
<1>2. job'[j].scrap = {} BY <1>1 DEF ScrapOK
<1> QED BY <1>2 DEF ScrapOK

\* So is a token for the browser.
LEMMA TokenSteady ==
  ASSUME IInv, NEW j \in DOMAIN job, Token(j)
  PROVE  Steady(j)
<1>1. Shape /\ UploadsOK(j) /\ sweep.pc = "idle" BY DEF IInv, Token, Open
<1>2. j \in Job /\ <<j, 0>> \in Mine(j) /\ <<j, 0>> \in Url /\ Mine(j) \intersect Old = {} /\ Mine(j) \subseteq Url
  BY <1>1, Tasks, Urls
<1>3. job[j].pc = "idle" /\ task(j).direct /\ store' = store /\ Quietly BY DEF Token
<1>4. 0 \notin task(j).files /\ task(j).files \subseteq Index BY <1>1, <1>3, Tasks DEF Form
<1>5. PICK x \in {"transfer", "done"} : Go(j, x) /\ (x = "transfer" => Register(<<j, 0>>)) BY DEF Token
<1>6. Register(<<j, 0>>) \/ UNCHANGED ledger BY DEF Token
<1>7. SamePlan /\ blamed \subseteq blamed' BY <1>1, FinePlan, FaultPlan DEF Token
<1>8. x \in Pcs /\ x \in InBrowser BY DEF Pcs, InBrowser
<1>9. /\ DOMAIN job' = DOMAIN job /\ job'[j].pc = x /\ job'[j].up = job[j].up /\ job'[j].scrap = job[j].scrap
  BY <1>1, <1>5, <1>8, GoFields
<1>10. /\ asset' \in [Url -> {"none", "new", "aged", "deleted"}]
       /\ \A v \in Url : asset'[v] = asset[v] \/ (v = <<j, 0>> /\ asset[v] = "none" /\ asset'[v] = "new")
       /\ book' \in Seq(Url) /\ \A v \in Url : Listed(v)' <=> v \in Range(book')
       /\ Register(<<j, 0>>) => Listed(<<j, 0>>)'
  BY <1>1, <1>2, <1>6, RegisterFields
<1>11. \A u \in Old : asset'[u] = asset[u] BY <1>2, <1>10 DEF Url
<1>12. \A u \in Url : Listed(u) => Listed(u)' BY <1>10 DEF Listed
<1>13. Local(j) /\ ScrapOK(j)'
  BY <1>3, <1>5, <1>7, <1>8, <1>11, MoveLocal DEF Early, AfterRead
<1>14. ~Working(j)' BY <1>8, <1>9 DEF Working
<1>15. Around(j) BY <1>1, <1>2, <1>3, <1>7, <1>10 DEF Around, Shape
<1>16. Tells(j) BY <1>3, <1>7, <1>12, TellsNothing
<1>17. task(j)' = task(j) BY <1>1, <1>7, <1>9, SameTasks
<1>18. \A i \in task(j).files : asset'[<<j, i>>] = asset[<<j, i>>]
  <2>1. \A i \in task(j).files : <<j, i>> \in Url /\ <<j, i>> # <<j, 0>> BY <1>2, <1>4, Urls
  <2> QED BY <1>10, <2>1
<1>19. \A i \in Index : job'[j].up[i] = "todo" BY <1>1, <1>3, <1>9 DEF UploadsOK
<1>20. \A i \in task(j).files : i \in Index /\ asset[<<j, i>>] = "none" BY <1>1, <1>3, <1>4 DEF UploadsOK
<1>21. x \in {"transfer", "done"} /\ x \in InBrowser BY <1>8
<1>22. UploadsOK(j)' BY <1>3, <1>9, <1>14, <1>17, <1>18, <1>19, <1>20, <1>21 DEF UploadsOK
<1> QED BY <1>13, <1>15, <1>16, <1>22 DEF Steady

\* So is the browser's upload.
LEMMA TransferSteady ==
  ASSUME IInv, NEW j \in DOMAIN job, Transfer(j)
  PROVE  Steady(j)
<1>1. Shape /\ UploadsOK(j) BY DEF IInv
<1>2. j \in Job /\ <<j, 0>> \in Mine(j) /\ <<j, 0>> \in Url /\ Mine(j) \intersect Old = {} /\ Mine(j) \subseteq Url
  BY <1>1, Tasks, Urls
<1>3. /\ job[j].pc = "transfer" /\ asset[<<j, 0>>] = "new" /\ store' = store \union {<<j, 0>>} /\ Go(j, "held")
      /\ Fine /\ UNCHANGED ledger /\ Quietly
  BY DEF Transfer
<1>4. SamePlan /\ blamed' = blamed BY <1>1, <1>3, FinePlan
<1>5. "held" \in Pcs /\ "held" \in InBrowser BY DEF Pcs, InBrowser
<1>6. DOMAIN job' = DOMAIN job /\ job'[j].pc = "held" /\ job'[j].up = job[j].up BY <1>1, <1>3, <1>5, GoFields
<1>7. asset' = asset /\ book' = book /\ \A u : Listed(u)' <=> Listed(u) BY <1>3, LedgerStays
<1>8. Local(j) /\ ScrapOK(j)' BY <1>3, <1>4, <1>5, <1>7, MoveLocal DEF Early, AfterRead
<1>9. ~Working(j)' BY <1>5, <1>6 DEF Working
<1>10. Around(j) BY <1>1, <1>2, <1>3, <1>4, <1>7, <1>9 DEF Around, Shape
<1>11. Listed(<<j, 0>>)' BY <1>3, <1>7 DEF Listed
<1>12. Tells(j) BY <1>3, <1>4, <1>7, <1>11, TellsNothing
<1>13. task(j)' = task(j) /\ task(j).files \subseteq Index BY <1>1, <1>4, <1>6, SameTasks, Tasks
<1>14. \A i \in Index : job'[j].up[i] = "todo" BY <1>1, <1>3, <1>6 DEF UploadsOK
<1>15. \A i \in task(j).files : i \in Index /\ asset[<<j, i>>] = "none" BY <1>1, <1>3, <1>13 DEF UploadsOK
<1>16. task(j).direct BY <1>1, <1>3 DEF UploadsOK
<1>17. UploadsOK(j)' BY <1>5, <1>6, <1>7, <1>9, <1>13, <1>14, <1>15, <1>16 DEF UploadsOK
<1> QED BY <1>8, <1>10, <1>12, <1>17 DEF Steady

\* A file of a creation goes from one state to the next.
LEMMA StepLocal ==
  ASSUME IInv, NEW j \in DOMAIN job, NEW i, NEW from, NEW to \in {"todo", "put", "undo", "ok", "bad"},
         Step(j, i, from, to), SamePlan, \A u \in Old : asset'[u] = asset[u]
  PROVE  /\ Local(j) /\ ScrapOK(j)' /\ sweep.pc = "idle" /\ task(j).kind = "create"
         /\ i \in task(j).files /\ i \in Index /\ job[j].pc = "upload" /\ job[j].up[i] = from
         /\ DOMAIN job' = DOMAIN job /\ job'[j].pc = "upload"
         /\ job'[j].up[i] = to /\ \A n \in Index \ {i} : job'[j].up[n] = job[j].up[n]
<1>1. Shape /\ UploadsOK(j) BY DEF IInv
<1>2. /\ job[j].pc = "upload" /\ i \in task(j).files /\ job[j].up[i] = from
      /\ job' = [job EXCEPT ![j].up[i] = to] /\ Quietly
  BY DEF Step
<1>3. i \in Index /\ task(j).kind = "create" BY <1>1, <1>2, Tasks DEF UploadsOK, Path, InBrowser
<1>4. /\ job' \in [DOMAIN job -> Place] /\ DOMAIN job' = DOMAIN job
      /\ \A k \in DOMAIN job \ {j} : job'[k] = job[k]
      /\ job'[j].pc = job[j].pc /\ job'[j].seen = job[j].seen
      /\ job'[j].file = job[j].file /\ job'[j].scrap = job[j].scrap
      /\ job'[j].up[i] = to /\ \A n \in Index \ {i} : job'[j].up[n] = job[j].up[n]
  <2>1. Puts(j, i, to) BY <1>2 DEF Puts
  <2> QED BY <1>1, <1>3, <2>1, UpFields
<1>5. Local(j)
  <2>1. job'[j].pc = "upload" /\ (Working(j)' <=> Working(j)) BY <1>2, <1>4 DEF Working
  <2>2. job'[j].pc \notin AfterRead BY <2>1 DEF AfterRead
  <2> QED BY <1>2, <1>4, <2>1, <2>2 DEF Local
<1>6. ScrapOK(j)' BY <1>2, <1>4, <1>5, NoScrap
<1>7. sweep.pc = "idle" BY <1>2, SweepIdle DEF Working, InBrowser
<1> QED BY <1>2, <1>3, <1>4, <1>5, <1>6, <1>7

\* A step of one upload leaves the others of its form.
LEMMA UploadingKeeps ==
  ASSUME IInv, NEW j \in DOMAIN job, NEW i \in task(j).files, i \in Index, Local(j),
         task(j).kind = "create", job[j].pc = "upload", job'[j].pc = "upload", DOMAIN job' = DOMAIN job,
         \A n \in Index \ {i} : job'[j].up[n] = job[j].up[n],
         job'[j].up[i] # "todo",
         \A u \in Url : u = <<j, i>> \/ (asset'[u] = asset[u] /\ (u \in store <=> u \in store')),
         asset'[<<j, i>>] \in {"none", "new"},
         job'[j].up[i] \in {"put", "ok"} => <<j, i>> \in store',
         job'[j].up[i] = "ok" => Listed(<<j, i>>)'
  PROVE  UploadsOK(j)'
<1>1. Shape /\ UploadsOK(j) BY DEF IInv
<1>2. task(j)' = task(j) /\ task(j).files \subseteq Index /\ Uploads(j)' = Uploads(j)
  BY <1>1, SameTasks, Tasks DEF Local
<1>3. cited' = cited BY DEF Local, Quietly
<1>4. Working(j) BY DEF Working, InBrowser
<1>5. \A n \in Index : <<j, n>> \in Url /\ (n # i => <<j, n>> # <<j, i>>) BY <1>1, Tasks, Urls
<1>6. \A n \in Index \ {i} : (Listed(<<j, n>>)' <=> Listed(<<j, n>>)) /\ asset'[<<j, n>>] = asset[<<j, n>>]
         /\ (<<j, n>> \in store' <=> <<j, n>> \in store)
  BY <1>5 DEF Listed
<1>7. cited' \intersect Uploads(j)' = {} BY <1>1, <1>2, <1>3, <1>4 DEF UploadsOK
<1>8. task(j).direct => i # 0 BY <1>1, Tasks DEF Form
<1>9. task(j)'.direct => <<j, 0>> \in store' /\ Listed(<<j, 0>>)'
  <2>1. 0 \in Index BY <1>1, Tasks, Urls
  <2> QED BY <1>1, <1>2, <1>6, <1>8, <2>1 DEF UploadsOK
<1>10. "upload" \in Path("create") BY DEF Path
<1>11. \A n \in task(j).files \ {i} :
       /\ job'[j].up[n] = "todo" => asset'[<<j, n>>] = "none"
       /\ asset'[<<j, n>>] \in {"none", "new"}
       /\ job'[j].up[n] = "ok" => Listed(<<j, n>>)'
       /\ job'[j].up[n] \in {"put", "ok"} => <<j, n>> \in store'
  BY <1>1, <1>2, <1>4, <1>6 DEF UploadsOK
<1> QED BY <1>2, <1>7, <1>9, <1>10, <1>11 DEF UploadsOK

\* A step of one upload keeps its object known of.
LEMMA UploadingTells ==
  ASSUME IInv, NEW j \in DOMAIN job, NEW i \in task(j).files, i \in Index, Local(j),
         job[j].pc = "upload", job'[j].pc = "upload", blamed \subseteq blamed',
         \A n \in Index \ {i} : job'[j].up[n] = job[j].up[n],
         \A u \in Url : u = <<j, i>> \/ (asset'[u] = asset[u] /\ (u \in store <=> u \in store')),
         <<j, i>> \in store' => Listed(<<j, i>>)' \/ <<j, i>> \in blamed' \/ job'[j].up[i] \in {"put", "undo"}
  PROVE  Tells(j)
<1>1. Shape /\ Traced BY DEF IInv
<1>2. j \in Job /\ Mine(j) \intersect Old = {} /\ Mine(j) \subseteq Url /\ task(j).files \subseteq Index BY <1>1, Tasks, Urls
<1>3. ASSUME NEW u \in store' \intersect Mine(j), ~Listed(u)', u \notin blamed'
      PROVE  \E n \in task(j).files : u = <<j, n>> /\ job'[j].up[n] \in {"put", "undo"}
  <2>1. CASE u = <<j, i>> BY <1>3, <2>1
  <2>2. CASE u # <<j, i>>
    <3>1. u \in store \ Old /\ ~Listed(u) /\ u \notin blamed BY <1>2, <1>3, <2>2 DEF Listed
    <3>2. PICK k \in DOMAIN job : \E n \in task(k).files : u = <<k, n>> /\ job[k].up[n] \in {"put", "undo"}
      BY <1>1, <3>1 DEF Traced
    <3>3. PICK n \in task(k).files : u = <<k, n>> /\ job[k].up[n] \in {"put", "undo"} BY <3>2
    <3>4. k = j BY <1>3, <3>3 DEF Mine
    <3>5. n \in Index \ {i} BY <1>2, <2>2, <3>3, <3>4
    <3> QED BY <3>3, <3>4, <3>5
  <2> QED BY <2>1, <2>2
<1> QED BY <1>3 DEF Tells

\* Storing an object is a steady step.
LEMMA PutSteady ==
  ASSUME IInv, NEW j \in DOMAIN job, NEW i \in Index, Put(j, i)
  PROVE  Steady(j)
<1>1. Shape /\ UploadsOK(j) /\ Traced BY DEF IInv
<1>2. UNCHANGED ledger BY DEF Put
<1>3. asset' = asset /\ book' = book /\ \A u : Listed(u)' <=> Listed(u) BY <1>2, LedgerStays
<1>4. PICK to \in {"put", "bad"} : Step(j, i, "todo", to) /\ (to = "put" => Fine /\ store' = store \union {<<j, i>>})
        /\ (to = "bad" => \/ Fault({}) /\ UNCHANGED store
                          \/ Fault({<<j, i>>}) /\ store' = store \union {<<j, i>>})
  BY DEF Put
<1>5. SamePlan /\ blamed \subseteq blamed' /\ (<<j, i>> \in store' => <<j, i>> \in store \/ to = "put" \/ <<j, i>> \in blamed')
  <2>1. CASE to = "put" BY <1>1, <1>4, <2>1, FinePlan
  <2>2. CASE to = "bad" /\ Fault({}) /\ UNCHANGED store BY <1>1, <2>2, FaultPlan
  <2>3. CASE to = "bad" /\ Fault({<<j, i>>}) BY <1>1, <2>3, FaultPlan
  <2> QED BY <1>4, <2>1, <2>2, <2>3
<1>6. /\ Local(j) /\ ScrapOK(j)' /\ sweep.pc = "idle" /\ task(j).kind = "create"
      /\ i \in task(j).files /\ i \in Index /\ job[j].pc = "upload" /\ job[j].up[i] = "todo"
      /\ DOMAIN job' = DOMAIN job /\ job'[j].pc = "upload"
      /\ job'[j].up[i] = to /\ \A n \in Index \ {i} : job'[j].up[n] = job[j].up[n]
  BY <1>3, <1>4, <1>5, StepLocal
<1>7. <<j, i>> \in Mine(j) /\ Mine(j) \subseteq Url BY <1>1, <1>6, Tasks, Urls
<1>8. store' \subseteq store \union {<<j, i>>} /\ store \subseteq store' /\ (to = "put" => <<j, i>> \in store') BY <1>4
<1>9. asset[<<j, i>>] = "none" BY <1>1, <1>6 DEF UploadsOK
<1>10. Around(j) BY <1>1, <1>3, <1>5, <1>6, <1>7, <1>8, <1>9 DEF Around, Shape
<1>11. \A u \in Url : u = <<j, i>> \/ (asset'[u] = asset[u] /\ (u \in store <=> u \in store')) BY <1>3, <1>8
<1>12. UploadsOK(j)' BY <1>3, <1>6, <1>8, <1>9, <1>11, UploadingKeeps
<1>13. <<j, i>> \in store => <<j, i>> \in blamed
  <2>1. ASSUME <<j, i>> \in store, NEW k \in DOMAIN job, NEW n \in task(k).files, <<j, i>> = <<k, n>>,
               job[k].up[n] \in {"put", "undo"}
        PROVE FALSE
    BY <1>6, <2>1
  <2>2. ~Listed(<<j, i>>) /\ <<j, i>> \notin Old BY <1>1, <1>7, <1>9, Tasks, Urls DEF Listed
  <2> QED BY <1>1, <2>1, <2>2 DEF Traced
<1>14. Tells(j) BY <1>5, <1>6, <1>11, <1>13, UploadingTells
<1> QED BY <1>6, <1>10, <1>12, <1>14 DEF Steady

\* So is registering it.
LEMMA RecordSteady ==
  ASSUME IInv, NEW j \in DOMAIN job, NEW i \in Index, Record(j, i)
  PROVE  Steady(j)
<1>1. Shape /\ UploadsOK(j) BY DEF IInv
<1>2. PICK to \in {"ok", "undo"} : Step(j, i, "put", to) /\ (to = "ok" => Register(<<j, i>>)) BY DEF Record
<1>3. UNCHANGED store /\ (Register(<<j, i>>) \/ UNCHANGED ledger) BY DEF Record
<1>4. SamePlan /\ blamed \subseteq blamed' BY <1>1, FinePlan, FaultPlan DEF Record
<1>5. i \in Index /\ j \in Job /\ <<j, i>> \in Mine(j) /\ Mine(j) \subseteq Url /\ Mine(j) \intersect Old = {}
  BY <1>1, Tasks, Urls
<1>6. /\ asset' \in [Url -> {"none", "new", "aged", "deleted"}]
      /\ \A v \in Url : asset'[v] = asset[v] \/ (v = <<j, i>> /\ asset[v] = "none" /\ asset'[v] = "new")
      /\ book' \in Seq(Url) /\ \A v \in Url : Listed(v)' <=> v \in Range(book')
      /\ Register(<<j, i>>) => Listed(<<j, i>>)'
  BY <1>1, <1>3, <1>5, RegisterFields
<1>7. \A u \in Old : asset'[u] = asset[u] BY <1>5, <1>6 DEF Url
<1>8. /\ Local(j) /\ ScrapOK(j)' /\ sweep.pc = "idle" /\ task(j).kind = "create"
      /\ i \in task(j).files /\ job[j].pc = "upload" /\ job[j].up[i] = "put"
      /\ DOMAIN job' = DOMAIN job /\ job'[j].pc = "upload"
      /\ job'[j].up[i] = to /\ \A n \in Index \ {i} : job'[j].up[n] = job[j].up[n]
  BY <1>2, <1>4, <1>7, StepLocal
<1>9. asset[<<j, i>>] \in {"none", "new"} /\ <<j, i>> \in store
  <2>1. Working(j) BY <1>8 DEF Working, InBrowser
  <2> QED BY <1>1, <1>8, <2>1 DEF UploadsOK
<1>10. asset'[<<j, i>>] \in {"none", "new"} BY <1>5, <1>6, <1>9
<1>11. Around(j) BY <1>1, <1>3, <1>4, <1>5, <1>6, <1>8 DEF Around, Shape
<1>12. \A u \in Url : u = <<j, i>> \/ (asset'[u] = asset[u] /\ (u \in store <=> u \in store')) BY <1>3, <1>6
<1>13. to = "ok" => Listed(<<j, i>>)' BY <1>2, <1>6
<1>14. UploadsOK(j)' BY <1>3, <1>5, <1>8, <1>9, <1>10, <1>12, <1>13, UploadingKeeps
<1>15. Tells(j) BY <1>4, <1>5, <1>8, <1>12, <1>13, UploadingTells
<1> QED BY <1>8, <1>11, <1>14, <1>15 DEF Steady

\* So is deleting it again.
LEMMA UndoSteady ==
  ASSUME IInv, NEW j \in DOMAIN job, NEW i \in Index, Undo(j, i)
  PROVE  Steady(j)
<1>1. Shape /\ UploadsOK(j) BY DEF IInv
<1>2. Step(j, i, "undo", "bad") /\ UNCHANGED ledger BY DEF Undo
<1>3. asset' = asset /\ book' = book /\ \A u : Listed(u)' <=> Listed(u) BY <1>2, LedgerStays
<1>4. SamePlan /\ blamed \subseteq blamed' /\ store' \subseteq store /\ store \subseteq store' \union {<<j, i>>}
      /\ (<<j, i>> \in store' => <<j, i>> \in blamed')
  <2>1. CASE Fine /\ store' = store \ {<<j, i>>} BY <1>1, <2>1, FinePlan
  <2>2. CASE Fault({<<j, i>>}) /\ UNCHANGED store BY <1>1, <2>2, FaultPlan
  <2> QED BY <2>1, <2>2 DEF Undo
<1>5. i \in Index /\ j \in Job /\ <<j, i>> \in Mine(j) /\ Mine(j) \subseteq Url /\ Mine(j) \intersect Old = {}
  BY <1>1, Tasks, Urls
<1>6. /\ Local(j) /\ ScrapOK(j)' /\ sweep.pc = "idle" /\ task(j).kind = "create"
      /\ i \in task(j).files /\ job[j].pc = "upload" /\ job[j].up[i] = "undo"
      /\ DOMAIN job' = DOMAIN job /\ job'[j].pc = "upload"
      /\ job'[j].up[i] = "bad" /\ \A n \in Index \ {i} : job'[j].up[n] = job[j].up[n]
  BY <1>2, <1>3, <1>4, StepLocal
<1>7. asset[<<j, i>>] \in {"none", "new"}
  <2>1. Working(j) BY <1>6 DEF Working, InBrowser
  <2> QED BY <1>1, <1>6, <2>1 DEF UploadsOK
<1>8. Around(j) BY <1>1, <1>3, <1>4, <1>5, <1>6 DEF Around, Shape
<1>9. \A u \in Url : u = <<j, i>> \/ (asset'[u] = asset[u] /\ (u \in store <=> u \in store')) BY <1>3, <1>4
<1>10. UploadsOK(j)' BY <1>3, <1>5, <1>6, <1>7, <1>9, UploadingKeeps
<1>11. Tells(j) BY <1>4, <1>5, <1>6, <1>9, UploadingTells
<1> QED BY <1>6, <1>8, <1>10, <1>11 DEF Steady

\* All uploads are over.
LEMMA UploadedSteady ==
  ASSUME IInv, NEW j \in DOMAIN job, Uploaded(j)
  PROVE  Steady(j)
<1>1. Shape /\ UploadsOK(j) /\ ScrapOK(j) /\ Traced /\ Unborn BY DEF IInv
<1>2. /\ job[j].pc = "upload" /\ \A i \in task(j).files : job[j].up[i] \in {"ok", "bad"}
      /\ Fine /\ UNCHANGED <<store, ledger>> /\ Quietly
  BY DEF Uploaded, Reads
<1>3. SamePlan /\ blamed' = blamed BY <1>1, <1>2, FinePlan
<1>4. asset' = asset /\ \A u : Listed(u)' <=> Listed(u) BY <1>2, LedgerStays
<1>5. task(j).kind = "create" BY <1>1, <1>2, Tasks DEF UploadsOK, Path, InBrowser
<1>6. Working(j) /\ sweep.pc = "idle" BY <1>2, SweepIdle DEF Working, InBrowser
<1>7. Around(j) BY <1>2, <1>3, <1>6, Still
<1>8. ASSUME NEW u \in store' \intersect Mine(j), ~Listed(u)' PROVE u \in blamed'
  <2>1. j \in Job /\ u \in Url /\ u \notin Old BY <1>1, <1>8, Tasks, Urls
  <2>2. u \in blamed \/ \E k \in DOMAIN job : \E i \in task(k).files :
             u = <<k, i>> /\ job[k].pc = "upload" /\ job[k].up[i] \in {"put", "undo"}
    BY <1>1, <1>2, <1>4, <1>8, <2>1 DEF Traced
  <2>3. ASSUME NEW k \in DOMAIN job, NEW i \in task(k).files, u = <<k, i>>, job[k].up[i] \in {"put", "undo"} PROVE FALSE
    <3>1. k = j BY <1>8, <2>3 DEF Mine
    <3> QED BY <1>2, <2>3, <3>1
  <2> QED BY <1>3, <2>2, <2>3
<1>9. Tells(j) BY <1>2, <1>8 DEF Tells
<1>10. CASE Settled(j)
  <2>1. Go(j, "insert") BY <1>10 DEF Uploaded
  <2>2. "insert" \in Pcs /\ "insert" \in Path(task(j).kind) BY <1>5 DEF Pcs, Path
  <2>3. \A i \in task(j).files : job[j].up[i] = "ok"
    <3>1. ASSUME NEW i \in task(j).files, job[j].up[i] = "bad" PROVE FALSE
      <4>1. <<j, i>> \in With(j, "bad") BY <3>1 DEF With
      <4> QED BY <1>10, <4>1 DEF Settled
    <3> QED BY <1>2, <3>1
  <2>4. Local(j) /\ ScrapOK(j)' BY <1>2, <1>3, <1>4, <2>1, <2>2, MoveLocal DEF Early, AfterRead, InBrowser
  <2>5. UploadsOK(j)' BY <1>2, <1>3, <1>6, <2>1, <2>2, <2>3, MoveUploads
  <2> QED BY <1>7, <1>9, <2>4, <2>5 DEF Steady
<1>11. CASE ~Settled(j)
  <2>1. PICK y : y = [job[j] EXCEPT !.pc = "discard", !.scrap = With(j, "ok")] OBVIOUS
  <2>2. job' = [job EXCEPT ![j] = y] BY <1>11, <2>1 DEF Uploaded
  <2>3. With(j, "ok") \subseteq Uploads(j) BY DEF With, Uploads
  <2>4. /\ y \in Place /\ y.pc = "discard" /\ y.up = job[j].up /\ y.seen = job[j].seen /\ y.file = job[j].file
        /\ y.scrap = With(j, "ok")
    BY <1>1, <2>1, <2>3, Tasks DEF Place, Pcs
  <2>5. job' \in [DOMAIN job -> Place] /\ DOMAIN job' = DOMAIN job /\ job'[j] = y
        /\ \A k \in DOMAIN job \ {j} : job'[k] = job[k]
    BY <1>1, <2>2, <2>4 DEF Shape
  <2>6. task(j)' = task(j) /\ Uploads(j)' = Uploads(j) /\ Uploads(j) \subseteq Mine(j) /\ Uploads(j) \subseteq Url
        /\ task(j).files \subseteq Index
    BY <1>1, <1>3, <2>5, SameTasks, Tasks
  <2>7. Local(j)
    <3>1. job[j].pc \in Early BY <1>2 DEF Early
    <3> QED BY <1>2, <1>3, <2>4, <2>5, <3>1 DEF Local, AfterRead, Early
  <2>8. Referenced' = Referenced BY <1>2, SameReferenced DEF Quietly
  <2>9. \A u \in Mine(j) : u \notin Referenced BY <1>1, <1>2 DEF Unborn, Early
  <2>10. ScrapOK(j)' BY <1>5, <2>3, <2>4, <2>5, <2>6, <2>8, <2>9 DEF ScrapOK
  <2>11. UploadsOK(j)'
    <3>1. "discard" \in Path("create") BY DEF Path
    <3>2. cited' = cited BY <1>2 DEF Quietly
    <3>3. job'[j].pc = "discard" /\ job'[j].up = job[j].up BY <2>4, <2>5
    <3> QED BY <1>1, <1>2, <1>4, <1>5, <1>6, <2>6, <3>1, <3>2, <3>3 DEF UploadsOK
  <2> QED BY <1>7, <1>9, <2>7, <2>10, <2>11 DEF Steady
<1> QED BY <1>10, <1>11

\* The uploads of a job matter little once its statement is sent.
LEMMA LateUploads ==
  ASSUME IInv, NEW j \in DOMAIN job, SamePlan, DOMAIN job' = DOMAIN job, cited' = cited, asset' = asset,
         job'[j].up = job[j].up, Working(j),
         job'[j].pc \in InBrowser \union Path(task(j).kind),
         job'[j].pc \in {"verify", "compare", "discard", "owned", "delete", "done"},
         job[j].pc # "done"
  PROVE  UploadsOK(j)'
<1>1. Shape /\ UploadsOK(j) BY DEF IInv
<1>2. task(j)' = task(j) /\ Uploads(j)' = Uploads(j) BY <1>1, SameTasks
<1>3. \A u : Listed(u)' <=> Listed(u) BY DEF Listed
<1> QED BY <1>1, <1>2, <1>3 DEF UploadsOK

\* What refers to a file of a job under way: a row or the document of its post.
LEMMA OwnReferenced ==
  ASSUME IInv, NEW j \in DOMAIN job, Working(j), NEW u \in Uploads(j), u \in Referenced
  PROVE  /\ task(j).post \in posts
         /\ u \in UrlsOf(task(j).post) \/ (u = <<j, 0>> /\ file[task(j).post] = u)
         /\ u = <<j, 0>> => file[task(j).post] = u
<1>1. Shape /\ Named /\ UploadsOK(j) BY DEF IInv
<1>2. u \notin cited BY <1>1 DEF UploadsOK
<1>3. j \in Job /\ u \in Mine(j) /\ u \notin Old /\ u # None
  <2>1. j \in Job /\ u \in Mine(j) BY <1>1, Tasks
  <2> QED BY <2>1, Urls
<1>4. CASE \E r \in rows : r.url = u
  <2>1. PICK r \in rows : r.url = u BY <1>4
  <2>2. r.post \in posts /\ RowOf(r.post, u) BY <1>1, <2>1 DEF Shape, Named
  <2>3. PICK k \in DOMAIN job : \E i \in task(k).files : u = <<k, i>> /\ i # 0 /\ task(k).post = r.post
    BY <1>3, <2>2 DEF RowOf
  <2>4. k = j /\ u # <<j, 0>> BY <1>3, <2>3 DEF Mine
  <2> QED BY <2>1, <2>2, <2>3, <2>4 DEF UrlsOf
<1>5. CASE \E p \in posts : file[p] = u
  <2>1. PICK p \in posts : file[p] = u BY <1>5
  <2>2. p \in Post BY <1>1 DEF Shape
  <2>3. FileOf(p, u) BY <1>1, <2>1, <2>2 DEF Named
  <2>4. PICK k \in DOMAIN job : u = <<k, 0>> /\ task(k).post = p BY <1>3, <2>3 DEF FileOf
  <2>5. k = j BY <1>3, <2>4 DEF Mine
  <2> QED BY <2>1, <2>4, <2>5
<1> QED BY <1>2, <1>4, <1>5 DEF Referenced

\* So is the look for the post after an error.
LEMMA VerifySteady ==
  ASSUME IInv, NEW j \in DOMAIN job, Verify(j)
  PROVE  Steady(j)
<1>1. Shape /\ UploadsOK(j) /\ ScrapOK(j) /\ Named BY DEF IInv
<1>2. job[j].pc = "verify" /\ Fine /\ UNCHANGED <<store, ledger>> /\ Quietly BY DEF Verify, Reads
<1>3. SamePlan /\ blamed' = blamed BY <1>1, <1>2, FinePlan
<1>4. asset' = asset /\ cited' = cited /\ \A u : Listed(u)' <=> Listed(u) BY <1>2, LedgerStays DEF Quietly
<1>5. task(j).kind = "create" BY <1>1, <1>2, Tasks DEF UploadsOK, Path, InBrowser
<1>6. Working(j) /\ sweep.pc = "idle" BY <1>2, SweepIdle DEF Working, InBrowser
<1>7. Around(j) BY <1>2, <1>3, <1>6, Still
<1>8. Tells(j) BY <1>2, <1>3, <1>4, TellsNothing
<1>9. task(j).post \in Post /\ Uploads(j) \subseteq Url /\ file[task(j).post] \in Url \union {None} BY <1>1, Tasks DEF Shape
<1>10. PICK y : y = IF Missing(task(j).post) THEN [job[j] EXCEPT !.pc = "discard", !.scrap = Uploads(j)]
                    ELSE [job[j] EXCEPT !.pc = "compare", !.seen = {file[task(j).post]}] OBVIOUS
<1>11. job' = [job EXCEPT ![j] = y] BY <1>10 DEF Verify
<1>12. /\ y \in Place /\ y.up = job[j].up /\ y.file = job[j].file
       /\ Missing(task(j).post) => y.pc = "discard" /\ y.scrap = Uploads(j) /\ y.seen = job[j].seen
       /\ ~Missing(task(j).post) => y.pc = "compare" /\ y.scrap = job[j].scrap /\ y.seen = {file[task(j).post]}
  BY <1>1, <1>9, <1>10, Tasks DEF Place, Pcs
<1>13. job' \in [DOMAIN job -> Place] /\ DOMAIN job' = DOMAIN job /\ job'[j] = y
       /\ \A k \in DOMAIN job \ {j} : job'[k] = job[k]
  BY <1>1, <1>11, <1>12 DEF Shape
<1>14. Local(j)
  <2>1. y.pc \in {"discard", "compare"} BY <1>12
  <2> QED BY <1>2, <1>3, <1>5, <1>12, <1>13, <2>1 DEF Local, AfterRead, Early, Working, InBrowser
<1>15. task(j)' = task(j) /\ Uploads(j)' = Uploads(j) /\ Referenced' = Referenced /\ doubtful' = doubtful
  BY <1>1, <1>2, <1>3, <1>13, SameTasks, SameReferenced DEF Quietly
<1>16. UploadsOK(j)'
  <2>1. y.pc \in {"discard", "compare"} /\ y.pc \in Path("create") BY <1>12 DEF Path
  <2> QED BY <1>2, <1>3, <1>4, <1>5, <1>6, <1>12, <1>13, <2>1, LateUploads
<1>17. job[j].scrap = {} BY <1>1, <1>2 DEF ScrapOK
<1>18. ScrapOK(j)'
  <2>1. CASE Missing(task(j).post)
    <3>1. Uploads(j) \intersect Referenced = {} BY <1>6, <2>1, OwnReferenced DEF Missing
    <3> QED BY <1>5, <1>12, <1>13, <1>15, <2>1, <3>1 DEF ScrapOK
  <2>2. CASE ~Missing(task(j).post)
    <3>1. ({<<j, 0>>} \intersect Uploads(j)) \intersect Referenced \subseteq {file[task(j).post]}
      BY <1>6, OwnReferenced
    <3> QED BY <1>12, <1>13, <1>15, <1>17, <2>2, <3>1 DEF ScrapOK
  <2> QED BY <2>1, <2>2
<1> QED BY <1>7, <1>8, <1>14, <1>16, <1>18 DEF Steady

\* So is the comparison with what the post names.
LEMMA CompareSteady ==
  ASSUME IInv, NEW j \in DOMAIN job, Compare(j)
  PROVE  Steady(j)
<1>1. Shape /\ UploadsOK(j) /\ ScrapOK(j) /\ Named BY DEF IInv
<1>2. job[j].pc = "compare" /\ Fine /\ UNCHANGED <<store, ledger>> /\ Quietly BY DEF Compare, Reads
<1>3. SamePlan /\ blamed' = blamed BY <1>1, <1>2, FinePlan
<1>4. asset' = asset /\ cited' = cited /\ \A u : Listed(u)' <=> Listed(u) BY <1>2, LedgerStays DEF Quietly
<1>5. task(j).kind = "create" BY <1>1, <1>2, Tasks DEF UploadsOK, Path, InBrowser
<1>6. Working(j) /\ sweep.pc = "idle" BY <1>2, SweepIdle DEF Working, InBrowser
<1>7. Around(j) BY <1>2, <1>3, <1>6, Still
<1>8. Tells(j) BY <1>2, <1>3, <1>4, TellsNothing
<1>9. PICK S : S = Uploads(j) \ (UrlsOf(task(j).post) \union job[j].seen) OBVIOUS
<1>10. PICK y : y = [job[j] EXCEPT !.pc = "discard", !.scrap = S] OBVIOUS
<1>11. job' = [job EXCEPT ![j] = y] BY <1>9, <1>10 DEF Compare
<1>12. S \subseteq Uploads(j) /\ S \subseteq Url BY <1>1, <1>9, Tasks
<1>13. y \in Place /\ y.up = job[j].up /\ y.file = job[j].file /\ y.pc = "discard" /\ y.scrap = S /\ y.seen = job[j].seen
  BY <1>1, <1>10, <1>12, Tasks DEF Place, Pcs
<1>14. job' \in [DOMAIN job -> Place] /\ DOMAIN job' = DOMAIN job /\ job'[j] = y
       /\ \A k \in DOMAIN job \ {j} : job'[k] = job[k]
  BY <1>1, <1>11, <1>13 DEF Shape
<1>15. Local(j) BY <1>2, <1>3, <1>13, <1>14 DEF Local, AfterRead, Early, Working, InBrowser
<1>16. task(j)' = task(j) /\ Uploads(j)' = Uploads(j) /\ Referenced' = Referenced /\ doubtful' = doubtful
  BY <1>1, <1>2, <1>3, <1>14, SameTasks, SameReferenced DEF Quietly
<1>17. UploadsOK(j)'
  <2>1. "discard" \in Path("create") BY DEF Path
  <2> QED BY <1>2, <1>3, <1>4, <1>5, <1>6, <1>13, <1>14, <2>1, LateUploads
<1>18. S \intersect Referenced \subseteq doubtful
  <2>1. ASSUME NEW u \in S, u \in Referenced PROVE u \in doubtful
    <3>1. u = <<j, 0>> /\ u \in Uploads(j) /\ u \notin job[j].seen BY <1>6, <1>9, <2>1, OwnReferenced
    <3> QED BY <1>1, <1>2, <2>1, <3>1 DEF ScrapOK
  <2> QED BY <2>1
<1>19. ScrapOK(j)' BY <1>5, <1>12, <1>13, <1>14, <1>16, <1>18 DEF ScrapOK
<1> QED BY <1>7, <1>8, <1>15, <1>17, <1>19 DEF Steady

\* So is the deletion of what is not needed.
LEMMA DiscardSteady ==
  ASSUME IInv, NEW j \in DOMAIN job, Discard(j)
  PROVE  Steady(j)
<1>1. Shape /\ UploadsOK(j) /\ ScrapOK(j) /\ Traced BY DEF IInv
<1>2. job[j].pc = "discard" /\ UNCHANGED ledger /\ Quietly BY DEF Discard
<1>3. /\ SamePlan /\ blamed \subseteq blamed' /\ store' \subseteq store
      /\ \A u \in store \ store' : u \in job[j].scrap
      /\ \A u \in store' : u \in job[j].scrap => u \in blamed'
  <2>1. CASE Fine /\ store' = store \ job[j].scrap BY <1>1, <2>1, FinePlan
  <2>2. CASE \E u \in job[j].scrap : Fault({u}) /\ store' = store \ (job[j].scrap \ {u})
    <3>1. PICK u \in job[j].scrap : Fault({u}) /\ store' = store \ (job[j].scrap \ {u}) BY <2>2
    <3>2. SamePlan /\ blamed' = blamed \union {u} BY <1>1, <3>1, FaultPlan
    <3> QED BY <3>1, <3>2
  <2> QED BY <2>1, <2>2 DEF Discard
<1>4. asset' = asset /\ book' = book /\ cited' = cited /\ \A u : Listed(u)' <=> Listed(u) BY <1>2, LedgerStays DEF Quietly
<1>5. Working(j) /\ sweep.pc = "idle" BY <1>2, SweepIdle DEF Working, InBrowser
<1>6. PICK y : y = [job[j] EXCEPT !.pc = "done", !.scrap = {}] OBVIOUS
<1>7. job' = [job EXCEPT ![j] = y] BY <1>6 DEF Discard
<1>8. y \in Place /\ y.up = job[j].up /\ y.file = job[j].file /\ y.pc = "done" /\ y.scrap = {} /\ y.seen = job[j].seen
  BY <1>1, <1>6, Tasks DEF Place, Pcs, InBrowser
<1>9. job' \in [DOMAIN job -> Place] /\ DOMAIN job' = DOMAIN job /\ job'[j] = y
      /\ \A k \in DOMAIN job \ {j} : job'[k] = job[k]
  BY <1>1, <1>7, <1>8 DEF Shape
<1>10. Local(j) BY <1>2, <1>3, <1>8, <1>9 DEF Local, AfterRead, Early, Working, InBrowser
<1>11. Around(j) BY <1>1, <1>2, <1>3, <1>4, <1>5 DEF Around, Shape
<1>12. UploadsOK(j)'
  <2>1. "done" \in InBrowser BY DEF InBrowser
  <2> QED BY <1>2, <1>3, <1>4, <1>5, <1>8, <1>9, <2>1, LateUploads
<1>13. ScrapOK(j)' BY <1>8, <1>9 DEF ScrapOK
<1>14. ASSUME NEW u \in store' \intersect Mine(j), ~Listed(u)' PROVE u \in blamed'
  <2>1. j \in Job /\ u \in Url /\ u \notin Old /\ u \in store BY <1>1, <1>3, <1>14, Tasks, Urls
  <2>2. u \in blamed \/ \E k \in DOMAIN job : \E i \in task(k).files : u = <<k, i>> /\ job[k].pc = "upload"
    BY <1>1, <1>4, <1>14, <2>1 DEF Traced
  <2>3. ASSUME NEW k \in DOMAIN job, NEW i \in task(k).files, u = <<k, i>>, job[k].pc = "upload" PROVE FALSE
    <3>1. k = j BY <1>14, <2>3 DEF Mine
    <3> QED BY <1>2, <2>3, <3>1
  <2> QED BY <1>3, <2>2, <2>3
<1>15. Tells(j) BY <1>2, <1>3, <1>14 DEF Tells
<1> QED BY <1>10, <1>11, <1>12, <1>13, <1>15 DEF Steady

\* Reading the post is a steady step.
LEMMA ReadSteady ==
  ASSUME IInv, NEW j \in DOMAIN job, Read(j)
  PROVE  Steady(j)
<1>1. Shape /\ UploadsOK(j) /\ ScrapOK(j) BY DEF IInv
<1>2. job[j].pc = "read" /\ Fine /\ UNCHANGED <<store, ledger>> /\ Quietly BY DEF Read, Reads
<1>3. SamePlan /\ blamed' = blamed BY <1>1, <1>2, FinePlan
<1>4. asset' = asset /\ \A u : Listed(u)' <=> Listed(u) BY <1>2, LedgerStays
<1>5. task(j).kind \in {"replace", "save", "revise", "withdraw", "delete"}
  BY <1>1, <1>2, Tasks DEF UploadsOK, Path, InBrowser
<1>6. Working(j) BY <1>2 DEF Working, InBrowser
<1>7. Around(j) BY <1>2, <1>3, <1>6, SweepIdle, Still
<1>8. Tells(j) BY <1>2, <1>3, <1>4, TellsNothing
<1>9. PICK n : n = CASE task(j).kind \in {"replace", "delete"} -> "snapshot"
                     [] task(j).kind = "withdraw" -> "delete"
                     [] task(j).kind \in {"save", "revise"} /\ task(j).direct -> "check"
                     [] task(j).kind \in {"save", "revise"} /\ ~task(j).direct /\ task(j).files # {} -> "reserve"
                     [] OTHER -> "write" OBVIOUS
<1>10. /\ n \in {"snapshot", "delete", "check", "reserve", "write"} /\ n \in Path(task(j).kind)
       /\ n = "delete" => task(j).kind = "withdraw"
       /\ n = "check" => task(j).direct
       /\ n = "reserve" => ~task(j).direct
       /\ n = "write" => ~task(j).direct /\ task(j).files = {}
  <2>1. CASE task(j).kind \in {"replace", "delete"} BY <1>9, <2>1 DEF Path
  <2>2. CASE task(j).kind = "withdraw" BY <1>9, <2>2 DEF Path
  <2>3. CASE task(j).kind \in {"save", "revise"} /\ task(j).direct BY <1>9, <2>3 DEF Path
  <2>4. CASE task(j).kind \in {"save", "revise"} /\ ~task(j).direct /\ task(j).files # {} BY <1>9, <2>4 DEF Path
  <2>5. CASE task(j).kind \in {"save", "revise"} /\ ~task(j).direct /\ task(j).files = {} BY <1>9, <2>5 DEF Path
  <2> QED BY <1>5, <2>1, <2>2, <2>3, <2>4, <2>5
<1>11. PICK x : x = IF task(j).post \in posts THEN n ELSE "done" OBVIOUS
<1>12. x \in Pcs /\ (x = n \/ x = "done") BY <1>10, <1>11 DEF Pcs, InBrowser
<1>13. file[task(j).post] \in Url \union {None} BY <1>1, Tasks DEF Shape
<1>14. PICK y : y = [job[j] EXCEPT !.pc = x, !.file = file[task(j).post]] OBVIOUS
<1>15. job' = [job EXCEPT ![j] = y] BY <1>9, <1>11, <1>14 DEF Read
<1>16. /\ y \in Place /\ y.pc = x /\ y.up = job[j].up /\ y.seen = job[j].seen
       /\ y.file = file[task(j).post] /\ y.scrap = job[j].scrap
  BY <1>1, <1>12, <1>13, <1>14, Tasks DEF Place
<1>17. job' \in [DOMAIN job -> Place] /\ DOMAIN job' = DOMAIN job /\ job'[j] = y
       /\ \A k \in DOMAIN job \ {j} : job'[k] = job[k]
  BY <1>1, <1>15, <1>16 DEF Shape
<1>18. Local(j)
  <2>1. x \in {"snapshot", "delete", "check", "reserve", "write", "done"} BY <1>10, <1>12
  <2>2. job[j].pc \in Early BY <1>2 DEF Early
  <2>3. x # "drop" BY <2>1
  <2> QED BY <1>2, <1>3, <1>5, <1>6, <1>10, <1>12, <1>16, <1>17, <2>1, <2>2, <2>3 DEF Local
<1>19. UploadsOK(j)'
  <2>1. "done" \in InBrowser BY DEF InBrowser
  <2>2. job'[j].pc = x /\ job'[j].up = job[j].up BY <1>16, <1>17
  <2> QED BY <1>2, <1>3, <1>6, <1>10, <1>12, <1>17, <2>1, <2>2, GoneUploads
<1>20. ScrapOK(j)' BY <1>2, <1>4, <1>10, <1>12, <1>16, <1>17, <1>18, NoScrap
<1> QED BY <1>7, <1>8, <1>18, <1>19, <1>20 DEF Steady

\* So is reading its images.
LEMMA SnapshotSteady ==
  ASSUME IInv, NEW j \in DOMAIN job, Snapshot(j)
  PROVE  Steady(j)
<1>1. Shape /\ UploadsOK(j) /\ ScrapOK(j) BY DEF IInv
<1>2. job[j].pc = "snapshot" /\ Fine /\ UNCHANGED <<store, ledger>> /\ Quietly BY DEF Snapshot, Reads
<1>3. SamePlan /\ blamed' = blamed BY <1>1, <1>2, FinePlan
<1>4. asset' = asset /\ \A u : Listed(u)' <=> Listed(u) BY <1>2, LedgerStays
<1>5. task(j).kind \in {"replace", "delete"} BY <1>1, <1>2, Tasks DEF UploadsOK, Path, InBrowser
<1>6. Working(j) BY <1>2 DEF Working, InBrowser
<1>7. Around(j) BY <1>2, <1>3, <1>6, SweepIdle, Still
<1>8. Tells(j) BY <1>2, <1>3, <1>4, TellsNothing
<1>9. PICK x : x = IF task(j).kind = "delete" THEN "delete" ELSE "reserve" OBVIOUS
<1>10. PICK S : S = UrlsOf(task(j).post) OBVIOUS
<1>11. S \subseteq Url BY <1>1, <1>10 DEF UrlsOf, Shape
<1>12. x \in Pcs /\ x \in {"delete", "reserve"} /\ (x = "delete" => task(j).kind = "delete")
       /\ (x = "reserve" => task(j).kind = "replace")
  BY <1>5, <1>9 DEF Pcs
<1>13. PICK y : y = [job[j] EXCEPT !.pc = x, !.seen = S] OBVIOUS
<1>14. job' = [job EXCEPT ![j] = y] BY <1>9, <1>10, <1>13 DEF Snapshot
<1>15. /\ y \in Place /\ y.pc = x /\ y.up = job[j].up /\ y.seen = S /\ y.file = job[j].file /\ y.scrap = job[j].scrap
  BY <1>1, <1>11, <1>12, <1>13, Tasks DEF Place
<1>16. job' \in [DOMAIN job -> Place] /\ DOMAIN job' = DOMAIN job /\ job'[j] = y
       /\ \A k \in DOMAIN job \ {j} : job'[k] = job[k]
  BY <1>1, <1>14, <1>15 DEF Shape
<1>17. Local(j)
  <2>1. job[j].pc \in Early /\ job[j].pc \in AfterRead BY <1>2 DEF Early, AfterRead
  <2> QED BY <1>2, <1>3, <1>5, <1>6, <1>10, <1>12, <1>15, <1>16, <2>1 DEF Local
<1>18. x \in Path(task(j).kind) BY <1>12 DEF Path
<1>19. UploadsOK(j)' 
  <2>1. job'[j].pc = x /\ job'[j].up = job[j].up BY <1>15, <1>16
  <2> QED BY <1>2, <1>3, <1>6, <1>12, <1>16, <1>18, <2>1, GoneUploads
<1>20. ScrapOK(j)' BY <1>2, <1>4, <1>12, <1>15, <1>16, <1>17, NoScrap
<1> QED BY <1>7, <1>8, <1>17, <1>19, <1>20 DEF Steady

\* So is asking the ledger what was never registered.
LEMMA OwnedSteady ==
  ASSUME IInv, NEW j \in DOMAIN job, Owned(j)
  PROVE  Steady(j)
<1>1. Shape /\ UploadsOK(j) /\ ScrapOK(j) /\ Named BY DEF IInv
<1>2. job[j].pc = "owned" /\ UNCHANGED <<store, ledger>> /\ Quietly BY DEF Owned
<1>3. SamePlan /\ blamed \subseteq blamed' BY <1>1, FinePlan, FaultPlan DEF Owned
<1>4. asset' = asset /\ cited' = cited /\ \A u : Listed(u)' <=> Listed(u) BY <1>2, LedgerStays DEF Quietly
<1>5. task(j).kind \in {"replace", "save", "delete"} BY <1>1, <1>2, Tasks DEF UploadsOK, Path, InBrowser
<1>6. Working(j) BY <1>2 DEF Working, InBrowser
<1>7. Around(j) BY <1>2, <1>3, <1>6, SweepIdle, Still
<1>8. job[j].scrap = {} BY <1>1, <1>2 DEF ScrapOK
<1>9. \A u \in Mine(j) : u \in store => Listed(u) \/ u \in blamed
  <2>1. ASSUME NEW u \in Mine(j), u \in store, ~Listed(u) PROVE u \in blamed
    <3>1. j \in Job /\ u \notin Old BY <1>1, <2>1, Tasks, Urls
    <3>2. Traced BY DEF IInv
    <3>3. ASSUME NEW k \in DOMAIN job, NEW i \in task(k).files, u = <<k, i>>, job[k].pc = "upload" PROVE FALSE
      <4>1. k = j BY <2>1, <3>3 DEF Mine
      <4> QED BY <1>2, <3>3, <4>1
    <3> QED BY <2>1, <3>1, <3>2, <3>3 DEF Traced
  <2> QED BY <2>1
<1>10. CASE Fine /\ job' = [job EXCEPT ![j].pc = "discard", ![j].scrap = Unowned(Taken(j))]
  <2>1. PICK S : S = Unowned(Taken(j)) OBVIOUS
  <2>2. S \subseteq {u \in Old : ~Listed(u)}
    <3>1. ASSUME NEW u \in S PROVE u \in Old /\ ~Listed(u)
      <4>1. ~Listed(u) /\ u \in Taken(j) BY <2>1, <3>1 DEF Unowned
      <4>2. u # None /\ (u \in job[j].seen \/ u = job[j].file) BY <4>1 DEF Taken
      <4>3. RowOf(task(j).post, u) \/ FileOf(task(j).post, u) BY <1>1, <1>5, <4>2 DEF Named
      <4> QED BY <4>1, <4>2, <4>3 DEF RowOf, FileOf
    <3> QED BY <3>1
  <2>3. PICK y : y = [job[j] EXCEPT !.pc = "discard", !.scrap = S] OBVIOUS
  <2>4. job' = [job EXCEPT ![j] = y] BY <1>10, <2>1, <2>3
  <2>5. Old \subseteq Url BY DEF Url
  <2>6. y \in Place /\ y.pc = "discard" /\ y.up = job[j].up /\ y.seen = job[j].seen /\ y.file = job[j].file /\ y.scrap = S
    BY <1>1, <2>2, <2>3, <2>5, Tasks DEF Place, Pcs
  <2>7. job' \in [DOMAIN job -> Place] /\ DOMAIN job' = DOMAIN job /\ job'[j] = y
        /\ \A k \in DOMAIN job \ {j} : job'[k] = job[k]
    BY <1>1, <2>4, <2>6 DEF Shape
  <2>8. Local(j) BY <1>2, <1>3, <2>6, <2>7 DEF Local, AfterRead, Early, Working, InBrowser
  <2>9. UploadsOK(j)'
    <3>1. "discard" \in Path(task(j).kind) BY <1>5 DEF Path
    <3> QED BY <1>2, <1>3, <1>4, <1>6, <2>6, <2>7, <3>1, LateUploads
  <2>10. S \intersect Referenced \subseteq doubtful BY <1>1, <1>2, <2>1 DEF ScrapOK, Unowned
  <2>11. Referenced' = Referenced /\ doubtful' = doubtful BY <1>2, SameReferenced DEF Quietly
  <2>12. ScrapOK(j)' BY <1>4, <2>2, <2>6, <2>7, <2>10, <2>11 DEF ScrapOK
  <2>13. Tells(j)
    <3>1. \A u \in Old : ~Listed(u) /\ u \in Taken(j) => u \in job'[j].scrap BY <2>1, <2>6, <2>7 DEF Unowned
    <3>2. job'[j].pc = "discard" BY <2>6, <2>7
    <3> QED BY <1>2, <1>3, <1>4, <1>9, <3>1, <3>2 DEF Tells
  <2> QED BY <1>7, <2>8, <2>9, <2>12, <2>13 DEF Steady
<1>11. CASE Fault(Taken(j)) /\ Go(j, "done")
  <2>1. "done" \in Pcs /\ "done" \in InBrowser BY DEF Pcs, InBrowser
  <2>2. Local(j) /\ ScrapOK(j)'
    BY <1>2, <1>3, <1>4, <1>11, <2>1, MoveLocal DEF Early, AfterRead, InBrowser
  <2>3. DOMAIN job' = DOMAIN job /\ job'[j].pc = "done" /\ job'[j].up = job[j].up BY <1>1, <1>11, <2>1, GoFields
  <2>4. UploadsOK(j)' BY <1>2, <1>3, <1>4, <1>6, <2>1, <2>3, LateUploads
  <2>5. blamed' = blamed \union Taken(j) BY <1>1, <1>11, FaultPlan
  <2>6. Tells(j) BY <1>2, <1>3, <1>4, <1>9, <2>5 DEF Tells
  <2> QED BY <1>7, <2>2, <2>4, <2>6 DEF Steady
<1> QED BY <1>10, <1>11 DEF Owned

\* A file of a form is reserved: its url is registered before there is an object.
LEMMA ReserveSteady ==
  ASSUME IInv, NEW j \in DOMAIN job, NEW i \in Index, Reserve(j, i)
  PROVE  Steady(j)
<1>1. Shape /\ UploadsOK(j) /\ ScrapOK(j) BY DEF IInv
<1>2. /\ job[j].pc = "reserve" /\ i \in task(j).files /\ job[j].up[i] = "todo"
      /\ store' = store /\ Quietly /\ (Register(<<j, i>>) \/ UNCHANGED ledger)
  BY DEF Reserve, IsNext
<1>3. SamePlan /\ blamed \subseteq blamed' BY <1>1, FinePlan, FaultPlan DEF Reserve
<1>4. /\ j \in Job /\ <<j, i>> \in Mine(j) /\ Mine(j) \subseteq Url /\ Mine(j) \intersect Old = {}
      /\ \A n \in Index : <<j, n>> \in Url /\ (n # i => <<j, n>> # <<j, i>>)
  BY <1>1, Tasks, Urls
<1>5. /\ asset' \in [Url -> {"none", "new", "aged", "deleted"}]
      /\ \A v \in Url : asset'[v] = asset[v] \/ (v = <<j, i>> /\ asset[v] = "none" /\ asset'[v] = "new")
      /\ book' \in Seq(Url) /\ \A v \in Url : Listed(v)' <=> v \in Range(book')
      /\ Register(<<j, i>>) => Listed(<<j, i>>)'
  BY <1>1, <1>2, <1>4, RegisterFields
<1>6. \A u \in Old : asset'[u] = asset[u] BY <1>4, <1>5 DEF Url
<1>7. \A u \in Url : Listed(u) => Listed(u)' BY <1>5 DEF Listed
<1>8. Working(j) /\ sweep.pc = "idle" BY <1>2, SweepIdle DEF Working, InBrowser
<1>9. Around(j) BY <1>1, <1>2, <1>3, <1>4, <1>5, <1>8 DEF Around, Shape
<1>10. Tells(j) BY <1>2, <1>3, <1>7, TellsNothing
<1>11. "reserve" \in Early /\ "reserve" \in AfterRead /\ "reserve" \notin InBrowser BY DEF Early, AfterRead, InBrowser
<1>12. task(j).files \subseteq Index /\ cited \intersect Uploads(j) = {} BY <1>1, <1>8, Tasks DEF UploadsOK
<1>13. asset[<<j, i>>] = "none" BY <1>1, <1>2 DEF UploadsOK
<1>14. asset'[<<j, i>>] \in {"none", "new"} BY <1>4, <1>5, <1>13
<1>15. \A n \in Index \ {i} : asset'[<<j, n>>] = asset[<<j, n>>] /\ (Listed(<<j, n>>)' <=> Listed(<<j, n>>))
  BY <1>4, <1>5 DEF Listed
<1>16. CASE Fault({}) /\ Go(j, "done")
  <2>1. "done" \in Pcs /\ "done" \in InBrowser BY DEF Pcs, InBrowser
  <2>2. Local(j) /\ ScrapOK(j)' BY <1>2, <1>3, <1>6, <1>11, <1>16, <2>1, MoveLocal DEF Early, AfterRead
  <2>3. DOMAIN job' = DOMAIN job /\ job'[j].pc = "done" /\ job'[j].up = job[j].up BY <1>1, <1>16, <2>1, GoFields
  <2>4. ~Working(j)' BY <2>1, <2>3 DEF Working
  <2>5. task(j)' = task(j) BY <1>1, <1>3, <2>3, SameTasks
  <2>6. \A n \in task(j).files : job'[j].up[n] = "ok" => Listed(<<j, n>>)'
    BY <1>1, <1>4, <1>7, <1>12, <2>3 DEF UploadsOK
  <2>7. UploadsOK(j)' BY <2>1, <2>3, <2>4, <2>5, <2>6 DEF UploadsOK
  <2> QED BY <1>9, <1>10, <2>2, <2>7 DEF Steady
<1>17. CASE Register(<<j, i>>) /\ Fine /\ job' = [job EXCEPT ![j].up[i] = "put"]
  <2>1. Puts(j, i, "put") BY <1>17 DEF Puts
  <2>2. /\ job' \in [DOMAIN job -> Place] /\ DOMAIN job' = DOMAIN job
        /\ \A k \in DOMAIN job \ {j} : job'[k] = job[k]
        /\ job'[j].pc = "reserve" /\ job'[j].seen = job[j].seen
        /\ job'[j].file = job[j].file /\ job'[j].scrap = job[j].scrap
        /\ job'[j].up[i] = "put" /\ \A n \in Index \ {i} : job'[j].up[n] = job[j].up[n]
    BY <1>1, <1>2, <2>1, UpFields
  <2>3. Working(j)' BY <1>11, <2>2 DEF Working
  <2>4. Local(j) BY <1>2, <1>3, <1>8, <1>11, <2>2 DEF Local
  <2>5. ScrapOK(j)' BY <1>2, <1>6, <2>2, <2>4, NoScrap
  <2>6. task(j)' = task(j) /\ Uploads(j)' = Uploads(j) /\ cited' = cited BY <1>1, <1>2, <1>3, <2>2, SameTasks DEF Quietly
  <2>7. Listed(<<j, i>>)' BY <1>5, <1>17
  <2>8. ASSUME NEW n \in task(j).files \ {i}
        PROVE  /\ job'[j].up[n] = "todo" => asset'[<<j, n>>] = "none"
               /\ asset'[<<j, n>>] \in {"none", "new"}
               /\ job'[j].up[n] \in {"ok", "put"} => Listed(<<j, n>>)'
               /\ job'[j].up[n] = "ok" => <<j, n>> \in store'
    <3>1. n \in Index \ {i} BY <1>12
    <3>2. /\ job[j].up[n] = "todo" => asset[<<j, n>>] = "none"
          /\ asset[<<j, n>>] \in {"none", "new"}
          /\ job[j].up[n] \in {"ok", "put"} => Listed(<<j, n>>)
          /\ job[j].up[n] = "ok" => <<j, n>> \in store
      BY <1>1, <1>2, <1>8, <2>8 DEF UploadsOK
    <3> QED BY <1>2, <1>15, <2>2, <3>1, <3>2
  <2>9. UploadsOK(j)'
    BY <1>1, <1>2, <1>11, <1>12, <1>14, <2>2, <2>3, <2>6, <2>7, <2>8 DEF UploadsOK
  <2> QED BY <1>9, <1>10, <2>4, <2>5, <2>9 DEF Steady
<1> QED BY <1>16, <1>17 DEF Reserve

\* The object of a reserved file is stored, or the request ends.
LEMMA PutReservedSteady ==
  ASSUME IInv, NEW j \in DOMAIN job, NEW i \in Index, PutReserved(j, i)
  PROVE  Steady(j)
<1>1. Shape /\ UploadsOK(j) /\ ScrapOK(j) BY DEF IInv
<1>2. /\ job[j].pc = "reserve" /\ i \in task(j).files /\ job[j].up[i] = "put"
      /\ \A k \in task(j).files : k < i => job[j].up[k] = "ok"
      /\ UNCHANGED ledger /\ Quietly /\ (store' = store \union {<<j, i>>} \/ store' = store)
  BY DEF PutReserved, IsNext
<1>3. SamePlan /\ blamed \subseteq blamed' BY <1>1, FinePlan, FaultPlan DEF PutReserved
<1>4. /\ j \in Job /\ <<j, i>> \in Mine(j) /\ Mine(j) \subseteq Url /\ Mine(j) \intersect Old = {}
      /\ \A n \in Index : <<j, n>> \in Url /\ (n # i => <<j, n>> # <<j, i>>)
  BY <1>1, Tasks, Urls
<1>5. asset' = asset /\ book' = book /\ \A u : Listed(u)' <=> Listed(u) BY <1>2, LedgerStays
<1>6. Working(j) /\ sweep.pc = "idle" BY <1>2, SweepIdle DEF Working, InBrowser
<1>7. Listed(<<j, i>>) /\ asset[<<j, i>>] = "new" BY <1>1, <1>2, <1>6 DEF UploadsOK, Listed
<1>8. Around(j) BY <1>1, <1>2, <1>3, <1>4, <1>5, <1>6, <1>7 DEF Around, Shape
<1>9. Tells(j) BY <1>2, <1>3, <1>5, <1>7, TellsNothing
<1>10. "reserve" \in Early /\ "reserve" \in AfterRead /\ "reserve" \notin InBrowser BY DEF Early, AfterRead, InBrowser
<1>11. task(j).files \subseteq Index /\ cited \intersect Uploads(j) = {} BY <1>1, <1>6, Tasks DEF UploadsOK
<1>12. task(j).kind \in {"add", "replace", "save", "revise"} BY <1>1, <1>2, Tasks DEF UploadsOK, Path, InBrowser
<1>13. CASE Fault({}) /\ Go(j, "done")
  <2>1. "done" \in Pcs /\ "done" \in InBrowser BY DEF Pcs, InBrowser
  <2>2. Local(j) /\ ScrapOK(j)' BY <1>2, <1>3, <1>5, <1>10, <1>13, <2>1, MoveLocal DEF Early, AfterRead
  <2>3. DOMAIN job' = DOMAIN job /\ job'[j].pc = "done" /\ job'[j].up = job[j].up BY <1>1, <1>13, <2>1, GoFields
  <2>4. ~Working(j)' BY <2>1, <2>3 DEF Working
  <2>5. task(j)' = task(j) BY <1>1, <1>3, <2>3, SameTasks
  <2>6. \A n \in task(j).files : job'[j].up[n] = "ok" => Listed(<<j, n>>)' BY <1>1, <1>5, <2>3 DEF UploadsOK
  <2>7. UploadsOK(j)' BY <2>1, <2>3, <2>4, <2>5, <2>6 DEF UploadsOK
  <2> QED BY <1>8, <1>9, <2>2, <2>7 DEF Steady
<1>14. CASE /\ Fine /\ store' = store \union {<<j, i>>}
            /\ job' = [job EXCEPT ![j].up[i] = "ok",
                              ![j].pc = IF \E k \in task(j).files : k > i THEN "reserve" ELSE Then(j)]
  <2>1. PICK x : x = IF \E k \in task(j).files : k > i THEN "reserve" ELSE Then(j) OBVIOUS
  <2>2. /\ x \in {"reserve", "attach", "insert", "write"} /\ x \in Path(task(j).kind)
        /\ x = "attach" => task(j).kind = "replace"
        /\ x = "insert" => task(j).kind = "add"
        /\ x = "write" => task(j).kind \in {"save", "revise"}
        /\ x # "reserve" => \A k \in task(j).files : ~(k > i)
    <3>1. CASE \E k \in task(j).files : k > i BY <1>12, <2>1, <3>1 DEF Path
    <3>2. CASE (\A k \in task(j).files : ~(k > i)) /\ task(j).kind = "replace" BY <2>1, <3>2 DEF Path, Then
    <3>3. CASE (\A k \in task(j).files : ~(k > i)) /\ task(j).kind = "add" BY <2>1, <3>3 DEF Path, Then
    <3>4. CASE (\A k \in task(j).files : ~(k > i)) /\ task(j).kind \in {"save", "revise"} BY <2>1, <3>4 DEF Path, Then
    <3> QED BY <1>12, <3>1, <3>2, <3>3, <3>4
  <2>3. PICK f : f = [job[j].up EXCEPT ![i] = "ok"] OBVIOUS
  <2>4. PICK y : y = [job[j] EXCEPT !.up = f, !.pc = x] OBVIOUS
  <2>5. job' = [job EXCEPT ![j] = y] BY <1>14, <2>1, <2>3, <2>4
  <2>6. f \in [Index -> {"todo", "put", "undo", "ok", "bad"}] /\ f[i] = "ok" /\ \A n \in Index \ {i} : f[n] = job[j].up[n]
    BY <1>1, <2>3, Tasks DEF Place
  <2>7. x \in Pcs /\ x \notin InBrowser /\ x \in Early /\ x \notin {"drop", "delete", "compare", "owned"}
    BY <2>2 DEF Pcs, Early, InBrowser
  <2>8. y \in Place /\ y.pc = x /\ y.up = f /\ y.seen = job[j].seen /\ y.file = job[j].file /\ y.scrap = job[j].scrap
    <3>1. job[j] \in Place BY <1>1, Tasks
    <3>2. f \in [Index -> {"todo", "put", "undo", "ok", "bad"}] /\ x \in Pcs BY <2>6, <2>7
    <3> QED BY <2>4, <3>1, <3>2 DEF Place
  <2>9. job' \in [DOMAIN job -> Place] /\ DOMAIN job' = DOMAIN job /\ job'[j] = y
        /\ \A k \in DOMAIN job \ {j} : job'[k] = job[k]
    BY <1>1, <2>5, <2>8 DEF Shape
  <2>10. Working(j)' BY <2>7, <2>8, <2>9 DEF Working
  <2>11. Local(j) BY <1>2, <1>3, <1>6, <1>10, <2>7, <2>8, <2>9 DEF Local
  <2>12. ScrapOK(j)' BY <1>2, <1>5, <2>7, <2>8, <2>9, <2>11, NoScrap
  <2>13. task(j)' = task(j) /\ Uploads(j)' = Uploads(j) /\ cited' = cited BY <1>1, <1>2, <1>3, <2>9, SameTasks DEF Quietly
  <2>14. ASSUME NEW n \in task(j).files \ {i}
        PROVE  /\ f[n] = "todo" => asset[<<j, n>>] = "none"
               /\ asset[<<j, n>>] \in {"none", "new"}
               /\ f[n] \in {"ok", "put"} => Listed(<<j, n>>)
               /\ f[n] = "ok" => <<j, n>> \in store'
               /\ x # "reserve" => f[n] = "ok"
    <3>1. n \in Index \ {i} BY <1>11
    <3>2. n \in Int /\ i \in Int BY <3>1, ContentAssumption DEF Index
    <3>3. x # "reserve" => job[j].up[n] = "ok" BY <1>2, <2>2, <2>14, <3>1, <3>2
    <3>4. /\ job[j].up[n] = "todo" => asset[<<j, n>>] = "none"
          /\ asset[<<j, n>>] \in {"none", "new"}
          /\ job[j].up[n] \in {"ok", "put"} => Listed(<<j, n>>)
          /\ job[j].up[n] = "ok" => <<j, n>> \in store
      BY <1>1, <1>2, <1>6, <2>14 DEF UploadsOK
    <3> QED BY <1>14, <2>6, <3>1, <3>3, <3>4
  <2>15. task(j).direct => task(j).kind = "replace" BY <1>1, <1>2 DEF UploadsOK
  <2>16. x \in {"insert", "write"} => ~task(j).direct BY <2>2, <2>15
  <2>17. \A n \in task(j).files :
       /\ f[n] = "todo" => asset[<<j, n>>] = "none"
       /\ asset[<<j, n>>] \in {"none", "new"}
       /\ f[n] \in {"ok", "put"} => Listed(<<j, n>>)
       /\ f[n] = "ok" => <<j, n>> \in store'
       /\ x # "reserve" => f[n] = "ok"
    <3>1. f[i] = "ok" /\ <<j, i>> \in store' BY <1>14, <2>6
    <3> QED BY <1>7, <2>14, <3>1
  <2>18. UploadsOK(j)'
    <3>1. job'[j].pc = x /\ job'[j].up = f BY <2>8, <2>9
    <3>2. task(j).files # {} BY <1>2
    <3>3. x # "upload" BY <2>2
    <3> QED BY <1>5, <1>11, <2>2, <2>13, <2>15, <2>16, <2>17, <3>1, <3>2, <3>3 DEF UploadsOK
  <2> QED BY <1>8, <1>9, <2>11, <2>12, <2>18 DEF Steady
<1> QED BY <1>13, <1>14 DEF PutReserved

\* What a post may name stays so when the ledger only grows.
LEMMA NamesStay ==
  ASSUME Shape, SamePlan, DOMAIN job' = DOMAIN job, \A u \in Url : Listed(u) => Listed(u)'
  PROVE  \A p, u : (RowOf(p, u) => RowOf(p, u)') /\ (FileOf(p, u) => FileOf(p, u)')
<1>1. \A k \in DOMAIN job : task(k)' = task(k) BY SameTasks
<1>2. plan'.rows = plan.rows /\ plan'.file = plan.file BY DEF SamePlan
<1>3. \A k \in DOMAIN job : <<k, 0>> \in Url /\ \A i \in task(k).files : <<k, i>> \in Url
  <2>1. ASSUME NEW k \in DOMAIN job PROVE <<k, 0>> \in Url /\ \A i \in task(k).files : <<k, i>> \in Url
    <3>1. k \in Job /\ task(k).files \subseteq Index /\ <<k, 0>> \in Url BY Tasks
    <3> QED BY <3>1 DEF Url
  <2> QED BY <2>1
<1>4. ASSUME NEW p, NEW u, RowOf(p, u) PROVE RowOf(p, u)'
  <2>1. CASE u \in Old /\ Row(p, {u}) \subseteq plan.rows BY <1>2, <2>1 DEF RowOf, Row
  <2>2. CASE \E k \in DOMAIN job : \E i \in task(k).files : u = <<k, i>> /\ i # 0 /\ task(k).post = p /\ Listed(u)
    <3>1. PICK k \in DOMAIN job : \E i \in task(k).files : u = <<k, i>> /\ i # 0 /\ task(k).post = p /\ Listed(u) BY <2>2
    <3>2. PICK i \in task(k).files : u = <<k, i>> /\ i # 0 /\ task(k).post = p /\ Listed(u) BY <3>1
    <3>3. Listed(u)' BY <1>3, <3>2
    <3> QED BY <1>1, <3>2, <3>3 DEF RowOf
  <2> QED BY <1>4, <2>1, <2>2 DEF RowOf
<1>5. ASSUME NEW p, NEW u, FileOf(p, u) PROVE FileOf(p, u)'
  <2>1. CASE u = None BY <2>1 DEF FileOf
  <2>2. CASE u \in Old /\ u = plan.file[p] BY <1>2, <2>2 DEF FileOf
  <2>3. CASE \E k \in DOMAIN job : u = <<k, 0>> /\ task(k).post = p /\ Listed(u)
    BY <1>1, <1>3, <2>3 DEF FileOf
  <2> QED BY <1>5, <2>1, <2>2, <2>3 DEF FileOf
<1> QED BY <1>4, <1>5

\* What content, jobs and statements name stays so too.
LEMMA NamedStays ==
  ASSUME Shape, Named, SamePlan, DOMAIN job' = DOMAIN job, \A u \in Url : Listed(u) => Listed(u)',
         rows' = rows, file' = file, \A u \in cited' : Listed(u)',
         \A k \in DOMAIN job : job'[k].seen = job[k].seen /\ job'[k].file = job[k].file
  PROVE  Named'
<1>1. \A k \in DOMAIN job : task(k)' = task(k) BY SameTasks
<1>2. \A p, u : (RowOf(p, u) => RowOf(p, u)') /\ (FileOf(p, u) => FileOf(p, u)') BY NamesStay
<1>3. \A r \in rows' : RowOf(r.post, r.url)'
  <2>1. ASSUME NEW r \in rows PROVE RowOf(r.post, r.url)'
    <3>1. PICK p, u : p = r.post /\ u = r.url OBVIOUS
    <3> QED BY <1>2, <2>1, <3>1 DEF Named
  <2> QED BY <2>1
<1>4. \A p \in Post : FileOf(p, file[p])'
  <2>1. ASSUME NEW p \in Post PROVE FileOf(p, file[p])'
    <3>1. PICK u : u = file[p] OBVIOUS
    <3>2. FileOf(p, u)' BY <1>2, <3>1 DEF Named
    <3> QED BY <3>1, <3>2
  <2> QED BY <2>1
<1>5. ASSUME NEW k \in DOMAIN job
      PROVE  /\ FileOf(task(k).post, job[k].file)'
             /\ \A u \in job'[k].seen : IF task(k)'.kind = "create" THEN FileOf(task(k).post, u)' ELSE RowOf(task(k).post, u)'
             /\ task(k)'.kind \in {"create", "add"} => job'[k].file = None
             /\ task(k)'.kind \notin {"create", "replace", "delete"} => job'[k].seen = {}
  <2>1. PICK p, g, d : p = task(k).post /\ g = job[k].file /\ d = task(k).kind OBVIOUS
  <2>2. task(k)'.post = p /\ task(k)'.kind = d /\ job'[k].seen = job[k].seen /\ job'[k].file = g BY <1>1, <2>1
  <2>3. FileOf(p, g) /\ (d \in {"create", "add"} => g = None)
        /\ (d \notin {"create", "replace", "delete"} => job[k].seen = {})
        /\ \A u \in job[k].seen : IF d = "create" THEN FileOf(p, u) ELSE RowOf(p, u)
    BY <2>1 DEF Named
  <2>4. FileOf(p, g)' /\ \A u \in job[k].seen : IF d = "create" THEN FileOf(p, u)' ELSE RowOf(p, u)' BY <1>2, <2>3
  <2> QED BY <2>1, <2>2, <2>3, <2>4
<1> QED BY <1>3, <1>4, <1>5 DEF Named

\* A statement stays what it was when the ledger only grows.
LEMMA StmtStays ==
  ASSUME Shape, SamePlan, DOMAIN job' = DOMAIN job, \A u \in Url : Listed(u) => Listed(u)',
         NEW s, StmtOK(s), s.kind # "insert" => Brings(s) \subseteq store'
  PROVE  StmtOK(s)'
<1>1. \A p, u : (RowOf(p, u) => RowOf(p, u)') /\ (FileOf(p, u) => FileOf(p, u)') BY NamesStay
<1>2. PICK p, f, g, b : p = s.post /\ f = s.file /\ g = s.read /\ b = s.by OBVIOUS
<1>3. FileOf(p, f)' /\ FileOf(p, g)' /\ (s.kind \in {"insert", "attach", "drop"} => \A u \in s.urls : RowOf(p, u)')
  BY <1>1, <1>2 DEF StmtOK
<1>4. task(b)' = task(b) /\ Images(b)' = Images(b) /\ b \in DOMAIN job' BY <1>2, SameTasks DEF StmtOK
<1> QED BY <1>2, <1>3, <1>4 DEF StmtOK, Brings, Mine, Kinds

\* What a steady step leaves.
LEMMA SteadyFrame ==
  ASSUME IInv, NEW j \in DOMAIN job, Steady(j)
  PROVE  /\ SamePlan /\ DOMAIN job' = DOMAIN job /\ \A k \in DOMAIN job \ {j} : job'[k] = job[k]
         /\ \A k \in DOMAIN job : task(k)' = task(k) /\ Uploads(k)' = Uploads(k) /\ Images(k)' = Images(k)
         /\ UNCHANGED <<posts, rows, file, cited, pending, sweep, doubtful>>
         /\ Referenced' = Referenced /\ Kept' = Kept
         /\ \A u \in Url : Listed(u) => Listed(u)'
         /\ j \in Job /\ Mine(j) \intersect Old = {} /\ Mine(j) \subseteq Url /\ Old \subseteq Url
         /\ \A k \in DOMAIN job : k # j => Mine(k) \intersect Mine(j) = {}
         /\ \A u \in Url \ Mine(j) : asset'[u] = asset[u] /\ (Listed(u)' <=> Listed(u)) /\ (u \in store' => u \in store)
<1>1. Local(j) /\ Around(j) /\ Shape BY DEF Steady, IInv
<1>2. SamePlan /\ DOMAIN job' = DOMAIN job /\ \A k \in DOMAIN job \ {j} : job'[k] = job[k] BY <1>1 DEF Local
<1>3. /\ \A k \in DOMAIN job : task(k)' = task(k) /\ Uploads(k)' = Uploads(k) /\ Images(k)' = Images(k)
      /\ Kept' = Kept
  BY <1>1, <1>2, SameTasks
<1>4. UNCHANGED <<posts, rows, file, cited, pending, sweep, doubtful>> BY <1>1 DEF Local, Quietly, content
<1>5. Referenced' = Referenced BY <1>1, SameReferenced DEF Local, Quietly
<1>6. \A u \in Url : Listed(u) => Listed(u)' BY <1>1 DEF Around, Listed
<1>7. j \in Job /\ \A k \in DOMAIN job : k \in Job BY <1>1, Tasks
<1>8. /\ Mine(j) \intersect Old = {} /\ Mine(j) \subseteq Url /\ Old \subseteq Url
      /\ \A k \in DOMAIN job : k # j => Mine(k) \intersect Mine(j) = {}
  BY <1>7, Urls
<1>9. \A u \in Url \ Mine(j) : asset'[u] = asset[u] /\ (Listed(u)' <=> Listed(u)) /\ (u \in store' => u \in store)
  BY <1>1 DEF Around, Listed
<1> QED BY <1>2, <1>3, <1>4, <1>5, <1>6, <1>7, <1>8, <1>9

\* A steady step keeps the shape.
LEMMA SteadyShape ==
  ASSUME IInv, NEW j \in DOMAIN job, Steady(j)
  PROVE  Shape'
<1>1. Shape /\ Local(j) /\ Around(j) BY DEF Steady, IInv
<1>2. UNCHANGED <<posts, rows, file, cited, pending, sweep, doubtful>> BY SteadyFrame
<1>3. Possible(plan') /\ plan'.task = plan.task /\ plan'.listed = plan.listed /\ plan.listed \subseteq Url
  BY <1>1 DEF Local, SamePlan, Shape, Possible, Url
<1>6. \A u \in plan'.listed : Listed(u)' BY <1>1, <1>3, SteadyFrame DEF Shape
<1>4. job' \in [DOMAIN plan'.task -> Place] BY <1>1, <1>3 DEF Shape, Local
<1>5. /\ asset' \in [Url -> {"none", "new", "aged", "deleted"}] /\ store' \subseteq Url
      /\ book' \in Seq(Url) /\ \A u \in Url : Listed(u)' <=> u \in Range(book')
  BY <1>1 DEF Around
<1> QED BY <1>1, <1>2, <1>3, <1>4, <1>5, <1>6 DEF Shape

\* It keeps what posts and jobs may name.
LEMMA SteadyNamed ==
  ASSUME IInv, NEW j \in DOMAIN job, Steady(j)
  PROVE  Named'
<1>1. Shape /\ Named /\ Local(j) BY DEF Steady, IInv
<1>2. /\ SamePlan /\ DOMAIN job' = DOMAIN job /\ \A k \in DOMAIN job \ {j} : job'[k] = job[k]
      /\ \A k \in DOMAIN job : task(k)' = task(k)
      /\ rows' = rows /\ file' = file /\ cited' = cited
      /\ \A u \in Url : Listed(u) => Listed(u)'
  BY SteadyFrame
<1>3. \A p, u : (RowOf(p, u) => RowOf(p, u)') /\ (FileOf(p, u) => FileOf(p, u)') BY <1>1, <1>2, NamesStay
<1>4. \A r \in rows' : RowOf(r.post, r.url)'
  <2>1. ASSUME NEW r \in rows PROVE RowOf(r.post, r.url)'
    <3>1. PICK p, u : p = r.post /\ u = r.url OBVIOUS
    <3>2. RowOf(p, u)' BY <1>1, <1>3, <3>1 DEF Named
    <3> QED BY <3>1, <3>2
  <2> QED BY <1>2, <2>1
<1>5. \A p \in Post : FileOf(p, file[p])'
  <2>1. ASSUME NEW p \in Post PROVE FileOf(p, file[p])'
    <3>1. PICK u : u = file[p] OBVIOUS
    <3>2. FileOf(p, u)' BY <1>1, <1>3, <3>1 DEF Named
    <3> QED BY <1>2, <3>1, <3>2
  <2> QED BY <2>1
<1>6. \A u \in cited' : Listed(u)' BY <1>1, <1>2 DEF Named, Shape
<1>7. ASSUME NEW k \in DOMAIN job
      PROVE  /\ FileOf(task(k).post, job[k].file)'
             /\ \A u \in job'[k].seen : IF task(k)'.kind = "create" THEN FileOf(task(k).post, u)' ELSE RowOf(task(k).post, u)'
             /\ task(k)'.kind \in {"create", "add"} => job'[k].file = None
             /\ task(k)'.kind \notin {"create", "replace", "delete"} => job'[k].seen = {}
  <2>1. PICK p, g, d : p = task(k).post /\ g = job'[k].file /\ d = task(k).kind OBVIOUS
  <2>2. task(k)'.post = p /\ task(k)'.kind = d BY <1>2, <2>1
  <2>3. FileOf(p, job[k].file) /\ (d \in {"create", "add"} => job[k].file = None)
        /\ (d \notin {"create", "replace", "delete"} => job[k].seen = {})
        /\ \A u \in job[k].seen : IF d = "create" THEN FileOf(p, u) ELSE RowOf(p, u)
    BY <1>1, <2>1 DEF Named
  <2>4. FileOf(p, file[p]) /\ \A u \in UrlsOf(p) : RowOf(p, u)
    <3>1. p \in Post BY <1>1, <2>1, Tasks
    <3> QED BY <1>1, <3>1 DEF Named, UrlsOf
  <2>5. /\ FileOf(p, g) /\ (d \in {"create", "add"} => g = None)
        /\ (d \notin {"create", "replace", "delete"} => job'[k].seen = {})
        /\ \A u \in job'[k].seen : IF d = "create" THEN FileOf(p, u) ELSE RowOf(p, u)
    <3>1. CASE k # j BY <1>2, <2>1, <2>3, <3>1
    <3>2. CASE k = j
      <4>1. \/ g = job[k].file
            \/ d \notin {"create", "add"} /\ g = file[p]
        BY <1>1, <2>1, <3>2 DEF Local
      <4>2. \/ job'[k].seen = job[k].seen
            \/ d = "create" /\ job'[k].seen = {file[p]}
            \/ d \in {"replace", "delete"} /\ job'[k].seen = UrlsOf(p)
        BY <1>1, <2>1, <3>2 DEF Local
      <4> QED BY <2>3, <2>4, <4>1, <4>2
    <3> QED BY <3>1, <3>2
  <2>6. FileOf(p, g)' /\ \A u \in job'[k].seen : IF d = "create" THEN FileOf(p, u)' ELSE RowOf(p, u)' BY <1>3, <2>5
  <2> QED BY <2>1, <2>2, <2>5, <2>6
<1> QED BY <1>2, <1>4, <1>5, <1>6, <1>7 DEF Named

\* What a job deletes is never what another has stored.
LEMMA LossIsOwn ==
  ASSUME IInv, NEW j \in DOMAIN job, Steady(j), NEW k \in DOMAIN job, k # j, NEW u \in Mine(k), u \in store
  PROVE  u \in store'
<1>1. Shape /\ ScrapOK(j) /\ Around(j) BY DEF Steady, IInv
<1>2. j \in Job /\ k \in Job /\ Uploads(j) \subseteq Mine(j) BY <1>1, Tasks
<1>3. u \notin Old /\ u \notin Mine(j) BY <1>2, Urls
<1>4. u \notin job[j].scrap BY <1>1, <1>2, <1>3 DEF ScrapOK
<1> QED BY <1>1, <1>3, <1>4 DEF Around

\* It keeps the statements given up.
LEMMA SteadyPending ==
  ASSUME IInv, NEW j \in DOMAIN job, Steady(j)
  PROVE  PendingOK'
<1>1. Shape /\ PendingOK /\ Local(j) /\ Around(j) /\ ScrapOK(j) BY DEF Steady, IInv
<1>2. /\ SamePlan /\ DOMAIN job' = DOMAIN job /\ \A k \in DOMAIN job \ {j} : job'[k] = job[k]
      /\ \A k \in DOMAIN job : task(k)' = task(k) /\ Images(k)' = Images(k)
      /\ pending' = pending
      /\ \A u \in Url : Listed(u) => Listed(u)'
      /\ Mine(j) \intersect Old = {}
  BY SteadyFrame
<1>4. \A s \in pending : job'[s.by].pc \in {"verify", "compare", "discard", "done"}
  <2>1. ASSUME NEW s \in pending PROVE job'[s.by].pc \in {"verify", "compare", "discard", "done"}
    <3>1. s.by \in DOMAIN job /\ job[s.by].pc \in {"verify", "compare", "discard", "done"} BY <1>1 DEF PendingOK, StmtOK
    <3> QED BY <1>1, <1>2, <3>1 DEF Local
  <2> QED BY <2>1
<1>5. ASSUME NEW s \in pending PROVE StmtOK(s)'
  <2>1. StmtOK(s) /\ s.by \in DOMAIN job /\ job[s.by].pc \in {"verify", "compare", "discard", "done"} BY <1>1 DEF PendingOK, StmtOK
  <2>4. s.kind # "insert" => Brings(s) \subseteq store'
    <3>1. ASSUME s.kind # "insert", NEW u \in Brings(s) PROVE u \in store'
      <4>1. u \in store /\ u \in Mine(s.by) BY <2>1, <3>1 DEF StmtOK
      <4>2. CASE s.by # j BY <2>1, <4>1, <4>2, LossIsOwn
      <4>3. CASE s.by = j
        <5>1. task(j).kind # "create" BY <2>1, <3>1, <4>3 DEF StmtOK, Kinds
        <5>2. u \notin job[j].scrap BY <1>1, <1>2, <4>1, <4>3, <5>1 DEF ScrapOK
        <5>3. job[j].pc # "upload" BY <2>1, <4>3
        <5> QED BY <1>1, <4>1, <5>2, <5>3 DEF Around
      <4> QED BY <4>2, <4>3
    <3> QED BY <3>1
  <2> QED BY <1>1, <1>2, <2>1, <2>4, StmtStays
<1> QED BY <1>1, <1>2, <1>4, <1>5 DEF PendingOK

\* It keeps what the other jobs rely on.
LEMMA SteadyOthers ==
  ASSUME IInv, NEW j \in DOMAIN job, Steady(j), NEW k \in DOMAIN job, k # j
  PROVE  UploadsOK(k)' /\ ScrapOK(k)'
<1>1. Shape /\ UploadsOK(k) /\ ScrapOK(k) BY DEF Steady, IInv
<1>2. /\ SamePlan /\ DOMAIN job' = DOMAIN job /\ job'[k] = job[k]
      /\ task(k)' = task(k) /\ Uploads(k)' = Uploads(k)
      /\ cited' = cited /\ doubtful' = doubtful /\ Referenced' = Referenced
      /\ \A u \in Url \ Mine(j) : asset'[u] = asset[u] /\ (Listed(u)' <=> Listed(u)) /\ (u \in store' => u \in store)
      /\ Mine(j) \intersect Old = {} /\ Mine(k) \intersect Mine(j) = {} /\ Old \subseteq Url
      /\ \A u \in Url : Listed(u) => Listed(u)'
  BY SteadyFrame
<1>3. task(k).files \subseteq Index /\ k \in Job BY <1>1, Tasks
<1>4. \A i \in Index : /\ asset'[<<k, i>>] = asset[<<k, i>>] /\ (Listed(<<k, i>>)' <=> Listed(<<k, i>>))
                       /\ (<<k, i>> \in store => <<k, i>> \in store')
  <2>1. \A i \in Index : <<k, i>> \in Mine(k) /\ Mine(k) \subseteq Url BY <1>3, Urls
  <2> QED BY <1>2, <2>1, LossIsOwn
<1>5. UploadsOK(k)'
  <2>1. Working(k)' <=> Working(k) BY <1>2 DEF Working
  <2>2. 0 \in Index BY <1>3, Urls
  <2>3. \A i \in task(k).files : /\ asset'[<<k, i>>] = asset[<<k, i>>] /\ (Listed(<<k, i>>)' <=> Listed(<<k, i>>))
                                 /\ (<<k, i>> \in store => <<k, i>> \in store')
    BY <1>3, <1>4
  <2>4. (<<k, 0>> \in store => <<k, 0>> \in store') /\ (Listed(<<k, 0>>)' <=> Listed(<<k, 0>>)) BY <1>4, <2>2
  <2> QED BY <1>1, <1>2, <2>1, <2>3, <2>4 DEF UploadsOK
<1>6. ScrapOK(k)'
  <2>1. Taken(k)' = Taken(k) BY <1>1, <1>2, SameTaken
  <2>2. Taken(k) \subseteq Url
    <3>1. job[k].seen \subseteq Url \union {None} /\ job[k].file \in Url \union {None} BY <1>1, Tasks DEF Place
    <3> QED BY <3>1 DEF Taken
  <2>3. \A u \in Old : Listed(u)' <=> Listed(u) BY <1>2
  <2>4. {u \in Old : ~Listed(u)}' = {u \in Old : ~Listed(u)} BY <2>3
  <2> QED BY <1>1, <1>2, <2>1, <2>2, <2>4 DEF ScrapOK
<1> QED BY <1>5, <1>6

\* The order of the naturals is well founded.
LEMMA LessThan == \E R : IsWellFoundedOn(R, Nat) /\ \A x, y \in Nat : <<x, y>> \in R <=> x < y
<1>1. \A x, y \in Nat : <<x, y>> \in OpToRel(<, Nat) <=> x < y BY DEF OpToRel
<1> QED BY <1>1, NatLessThanWellFounded, Zenon

\* A set of naturals that is not empty has a least member.
LEMMA Least ==
  ASSUME NEW T \in SUBSET Nat, T # {}
  PROVE  \E x \in T : \A y \in T : x <= y
<1>1. PICK R : IsWellFoundedOn(R, Nat) /\ \A x, y \in Nat : <<x, y>> \in R <=> x < y BY LessThan
<1>2. T \subseteq Nat OBVIOUS
<1>3. IsWellFoundedOn(R, Nat) BY <1>1
<1>4. PICK x \in T : \A y \in T : ~(<<y, x>> \in R) BY <1>2, <1>3, WFMin
<1>5. \A y \in T : y \in Nat /\ x \in Nat /\ ~(y < x) BY <1>1, <1>4
<1> QED BY <1>5

\* The file the script is at is one of those it has left.
LEMMA TurnListed ==
  ASSUME Shape, SweepOK, sweep.pc # "idle"
  PROVE  Turn \in sweep.list /\ Turn \in Url
<1>1. sweep.list \subseteq Url /\ sweep.list # {} /\ \A u \in sweep.list : Listed(u)
  BY DEF Shape, SweepOK, Listed
<1>2. book \in Seq(Url) /\ \A u \in Url : Listed(u) <=> u \in Range(book) BY DEF Shape
<1>3. PICK T : T = {n \in DOMAIN book : book[n] \in sweep.list} OBVIOUS
<1>4. T \subseteq Nat
  <2>1. DOMAIN book = 1..Len(book) /\ Len(book) \in Nat BY <1>2
  <2> QED BY <1>3, <2>1
<1>5. T # {} BY <1>1, <1>2, <1>3 DEF Range
<1>6. \E x \in T : \A y \in T : x <= y BY <1>4, <1>5, Least
<1>7. Min(T) \in T BY <1>6 DEF Min
<1>8. Turn = book[Min(T)] BY <1>3 DEF Turn
<1> QED BY <1>1, <1>3, <1>7, <1>8

\* A steady step keeps new files unknown and posts covered.
LEMMA SteadyUnborn ==
  ASSUME IInv, NEW j \in DOMAIN job, Steady(j)
  PROVE  Unborn' /\ Unlanded' /\ Covered'
<1>1. Shape /\ Unborn /\ Unlanded /\ Covered /\ Local(j) BY DEF Steady, IInv
<1>2. /\ DOMAIN job' = DOMAIN job /\ \A k \in DOMAIN job \ {j} : job'[k] = job[k]
      /\ \A k \in DOMAIN job : task(k)' = task(k)
      /\ UNCHANGED <<posts, rows, file, cited, pending, sweep, doubtful>>
      /\ Referenced' = Referenced
  BY SteadyFrame
<1>3. \A k \in DOMAIN job : job'[k].pc \in Early => job[k].pc \in Early BY <1>1, <1>2 DEF Local
<1>4. \A u : u \in UrlsOf(task(j).post) => u \in {r.url : r \in rows} BY DEF UrlsOf
<1>5. file[task(j).post] \in Referenced \union {None}
  <2>1. task(j).post \in Post BY <1>1, Tasks
  <2> QED BY <1>1, <2>1 DEF Shape, Referenced
<1>6. Unborn'
  <2>1. ASSUME NEW k \in DOMAIN job, job'[k].pc \in Early, NEW u \in Mine(k)
        PROVE  /\ u \notin Referenced
               /\ \A i \in DOMAIN job : u # job'[i].file /\ u \notin job'[i].seen
               /\ \A s \in pending : u # s.file /\ u \notin s.urls
    <3>1. /\ u \notin Referenced
          /\ \A i \in DOMAIN job : u # job[i].file /\ u \notin job[i].seen
          /\ \A s \in pending : u # s.file /\ u \notin s.urls
      BY <1>1, <1>3, <2>1 DEF Unborn
    <3>2. u # None
      <4>1. k \in Job BY <1>1, <2>1, Tasks
      <4> QED BY <2>1, <4>1, Urls
    <3>3. u # file[task(j).post] /\ u \notin UrlsOf(task(j).post) BY <1>4, <1>5, <3>1, <3>2 DEF Referenced
    <3>4. u # job'[j].file /\ u \notin job'[j].seen BY <1>1, <3>1, <3>3 DEF Local
    <3> QED BY <1>2, <3>1, <3>4
  <2> QED BY <1>2, <2>1 DEF Unborn, Early, Mine
<1>7. Unlanded'
  <2>1. ASSUME NEW s \in pending, s.kind \in {"insert", "attach"}, NEW u \in s.urls,
               NEW k \in DOMAIN job, task(k).kind = "replace"
        PROVE  u \notin job'[k].seen
    <3>1. u \notin {r.url : r \in rows} /\ u \notin job[k].seen BY <1>1, <2>1 DEF Unlanded
    <3>2. CASE k # j BY <1>2, <3>1, <3>2
    <3>3. CASE k = j BY <1>1, <1>4, <2>1, <3>1, <3>3 DEF Local
    <3> QED BY <3>2, <3>3
  <2> QED BY <1>1, <1>2, <2>1 DEF Unlanded
<1>8. Covered'
  <2>1. ASSUME NEW r, Lasting(r) PROVE Lasting(r)'
    <3>1. \A k \in DOMAIN job : job'[k].pc = "drop" => job[k] = job'[k] BY <1>1, <1>2 DEF Local
    <3> QED BY <1>2, <2>1, <3>1 DEF Lasting
  <2>2. ASSUME NEW x \in rows PROVE \E r \in rows' : r.post = x.post /\ Lasting(r)'
    BY <1>1, <1>2, <2>1 DEF Covered
  <2> QED BY <1>2, <2>2 DEF Covered
<1> QED BY <1>6, <1>7, <1>8

\* It leaves the script alone.
LEMMA SteadySweep ==
  ASSUME IInv, NEW j \in DOMAIN job, Steady(j)
  PROVE  SweepOK'
<1>1. Shape /\ SweepOK /\ Around(j) BY DEF Steady, IInv
<1>2. /\ DOMAIN job' = DOMAIN job /\ \A k \in DOMAIN job \ {j} : job'[k] = job[k]
      /\ pending' = pending /\ sweep' = sweep /\ Referenced' = Referenced
  BY SteadyFrame
<1>3. CASE sweep.pc = "idle" BY <1>1, <1>2, <1>3 DEF SweepOK
<1>4. CASE sweep.pc # "idle"
  <2>1. ~Working(j)' /\ asset' = asset /\ book' = book /\ \A u \in store' \ store : asset[u] = "new"
    BY <1>1, <1>4 DEF Around, ledger
  <2>2. Quiet'
    <3>1. Quiet BY <1>1, <1>4 DEF SweepOK
    <3>2. \A k \in DOMAIN job : ~Working(k)' BY <1>2, <2>1, <3>1 DEF Quiet, Working
    <3> QED BY <1>2, <3>1, <3>2 DEF Quiet
  <2>3. Turn' = Turn BY <1>2, <2>1 DEF Turn
  <2>4. Turn \in sweep.list /\ Turn \in Url BY <1>1, <1>4, TurnListed
  <2>5. sweep.pc = "mark" => Turn \notin store' BY <1>1, <2>1, <2>4 DEF SweepOK
  <2> QED BY <1>1, <1>2, <1>4, <2>1, <2>2, <2>3, <2>5 DEF SweepOK
<1> QED BY <1>3, <1>4

\* The objects that the ledger does not list are still known of.
LEMMA SteadyTraced ==
  ASSUME IInv, NEW j \in DOMAIN job, Steady(j)
  PROVE  Traced'
<1>1. Shape /\ Traced /\ Local(j) /\ Around(j) /\ Tells(j) BY DEF Steady, IInv
<1>2. /\ SamePlan /\ DOMAIN job' = DOMAIN job /\ \A k \in DOMAIN job \ {j} : job'[k] = job[k]
      /\ \A k \in DOMAIN job : task(k)' = task(k)
      /\ UNCHANGED <<posts, rows, file, cited, pending, sweep, doubtful>>
      /\ Referenced' = Referenced /\ Kept' = Kept
      /\ \A u \in Url : Listed(u) => Listed(u)'
      /\ j \in Job /\ Mine(j) \intersect Old = {} /\ Old \subseteq Url
      /\ \A u \in Url \ Mine(j) : asset'[u] = asset[u] /\ (Listed(u)' <=> Listed(u)) /\ (u \in store' => u \in store)
  BY SteadyFrame
<1>3. blamed \subseteq blamed' /\ store' \subseteq Url BY <1>1 DEF Around
<1>4. \A u \in store' : asset'[u] # "deleted" BY <1>1 DEF Around, Traced, Shape
<1>5. ASSUME NEW u \in store' \ Old, ~Listed(u)', u \notin blamed'
      PROVE  \E k \in DOMAIN job : \E i \in task(k).files :
                u = <<k, i>> /\ job'[k].pc = "upload" /\ job'[k].up[i] \in {"put", "undo"}
  <2>1. CASE u \in Mine(j) BY <1>1, <1>5, <2>1 DEF Tells
  <2>2. CASE u \notin Mine(j)
    <3>1. u \in store \ Old /\ ~Listed(u) /\ u \notin blamed BY <1>2, <1>3, <1>5, <2>2
    <3>2. PICK k \in DOMAIN job : \E i \in task(k).files : u = <<k, i>> /\ job[k].pc = "upload" /\ job[k].up[i] \in {"put", "undo"}
      BY <1>1, <3>1 DEF Traced
    <3>3. k # j
      <4>1. task(j).files \subseteq Index BY <1>1, Tasks
      <4> QED BY <2>2, <3>2, <4>1 DEF Mine
    <3> QED BY <1>2, <3>2, <3>3
  <2> QED BY <2>1, <2>2
<1>6. ASSUME NEW u \in store' \intersect Old, ~Listed(u)', u \notin blamed', u \notin Kept'
      PROVE  Held(u)' \/ InRow(u)' \/ InText(u)'
  <2>1. u \in store \intersect Old /\ ~Listed(u) /\ u \notin blamed /\ u \notin Kept BY <1>2, <1>3, <1>6
  <2>2. CASE Held(u)
    <3>1. PICK k \in DOMAIN job : \/ job[k].pc = "owned" /\ u \in Taken(k)
                                  \/ job[k].pc = "discard" /\ u \in job[k].scrap
      BY <2>2 DEF Held
    <3>2. CASE k = j
      <4>1. \/ job'[j].pc = "owned" /\ u \in Taken(j)'
            \/ job'[j].pc = "discard" /\ u \in job'[j].scrap
        BY <1>1, <1>6, <2>1, <3>1, <3>2 DEF Tells
      <4> QED BY <1>2, <4>1 DEF Held
    <3>3. CASE k # j
      <4>1. job'[k] = job[k] BY <1>2, <3>3
      <4>2. Taken(k)' = Taken(k) BY <1>1, <1>2, <4>1, SameTaken
      <4> QED BY <1>2, <3>1, <4>1, <4>2 DEF Held
    <3> QED BY <3>2, <3>3
  <2>3. CASE InRow(u)
    <3>1. PICK r \in rows :
            /\ r.url = u
            /\ \A k \in DOMAIN job : job[k].pc = "delete" /\ task(k).post = r.post => u \in job[k].seen
            /\ \A s \in pending : s.post = r.post => s.kind # "delete" /\ (s.kind = "drop" => u \notin s.urls)
      BY <2>3 DEF InRow
    <3>2. ASSUME job'[j].pc = "delete", task(j).post = r.post PROVE u \in job'[j].seen
      <4>1. task(j).kind # "withdraw" BY <2>1 DEF Kept
      <4>2. job'[j].seen = UrlsOf(task(j).post) BY <1>1, <3>2, <4>1 DEF Local
      <4> QED BY <3>1, <3>2, <4>2 DEF UrlsOf
    <3>3. \A k \in DOMAIN job : job'[k].pc = "delete" /\ task(k).post = r.post => u \in job'[k].seen
      BY <1>2, <3>1, <3>2
    <3> QED BY <1>2, <3>1, <3>3 DEF InRow
  <2>4. CASE InText(u)
    <3>1. PICK p \in posts :
            /\ file[p] = u
            /\ \A k \in DOMAIN job : job[k].pc \in AfterRead
                 /\ task(k).kind \in {"save", "delete"} /\ task(k).post = p => job[k].file = u
            /\ \A s \in pending : s.post = p => s.kind \notin {"write", "delete"}
      BY <2>4 DEF InText, AfterRead
    <3>2. job'[j].pc \in AfterRead /\ task(j).kind \in {"save", "delete"} /\ task(j).post = p => job'[j].file = u
      BY <1>1, <3>1 DEF Local
    <3>3. \A k \in DOMAIN job : job'[k].pc \in AfterRead /\ task(k).kind \in {"save", "delete"} /\ task(k).post = p => job'[k].file = u
      BY <1>2, <3>1, <3>2
    <3> QED BY <1>2, <3>1, <3>3 DEF InText, AfterRead
  <2> QED BY <1>1, <2>1, <2>2, <2>3, <2>4 DEF Traced
<1> QED BY <1>2, <1>4, <1>5, <1>6 DEF Traced

\* It deletes nothing that content refers to.
LEMMA SteadyKept ==
  ASSUME IInv, NEW j \in DOMAIN job, Steady(j)
  PROVE  FilesKept'
<1>1. Shape /\ FilesKept /\ Unborn /\ ScrapOK(j) /\ Around(j) BY DEF Steady, IInv
<1>2. Referenced' = Referenced /\ doubtful' = doubtful BY SteadyFrame
<1>3. ASSUME NEW u \in Referenced, u \in store, u \notin store' PROVE u \in doubtful
  <2>1. CASE job[j].pc = "upload" /\ u \in Mine(j) BY <1>1, <1>3, <2>1 DEF Unborn, Early
  <2>2. CASE u \in job[j].scrap BY <1>1, <1>3, <2>2 DEF ScrapOK
  <2> QED BY <1>1, <1>3, <2>1, <2>2 DEF Around
<1> QED BY <1>1, <1>2, <1>3 DEF FilesKept

\* A steady step keeps the invariant.
LEMMA SteadyIInv ==
  ASSUME IInv, NEW j \in DOMAIN job, Steady(j)
  PROVE  IInv'
<1>1. DOMAIN job' = DOMAIN job BY SteadyFrame
<1>2. \A k \in DOMAIN job : UploadsOK(k)' /\ ScrapOK(k)' BY SteadyOthers DEF Steady
<1>3. Shape' /\ Named' /\ PendingOK' BY SteadyShape, SteadyNamed, SteadyPending
<1>4. Unborn' /\ Unlanded' /\ Covered' BY SteadyUnborn
<1>5. SweepOK' /\ Traced' /\ FilesKept' BY SteadySweep, SteadyTraced, SteadyKept
<1> QED BY <1>1, <1>2, <1>3, <1>4, <1>5 DEF IInv

\* A step beside the requests: somebody cites a file, time passes, or the script
\* does something.
Aside ==
  /\ SamePlan /\ UNCHANGED <<content, job, pending, doubtful, blamed, book>>
  /\ cited' \subseteq Url /\ \A u \in cited' : Listed(u)
  /\ \A j \in DOMAIN job : Working(j) => cited' \intersect Uploads(j) = {}
  /\ asset' \in [Url -> {"none", "new", "aged", "deleted"}]
  /\ \A u \in Url : Listed(u)' <=> Listed(u)
  /\ \A u \in store' : asset'[u] # "deleted"
  /\ store' \subseteq store /\ (Quiet \/ UNCHANGED <<asset, store>>)
  /\ Referenced' \subseteq Referenced /\ Referenced \intersect (store \ store') = {}
  /\ sweep' \in [pc : {"idle", "recheck", "del", "mark"}, list : SUBSET Url]
  /\ SweepOK'

\* A step beside the requests keeps what they rely on.
LEMMA AsideKeepsJobs ==
  ASSUME IInv, Aside, NEW j \in DOMAIN job
  PROVE  UploadsOK(j)' /\ ScrapOK(j)'
<1>1. Shape /\ UploadsOK(j) /\ ScrapOK(j) BY DEF IInv
<1>2. SamePlan /\ DOMAIN job' = DOMAIN job /\ job' = job BY DEF Aside
<1>3. task(j)' = task(j) /\ Uploads(j)' = Uploads(j) /\ (Working(j)' <=> Working(j)) /\ task(j).files \subseteq Index
  BY <1>1, <1>2, SameTasks, Tasks DEF Working
<1>4. \A u \in Url : Listed(u)' <=> Listed(u) BY DEF Aside
<1>5. \A i \in Index : <<j, i>> \in Url BY <1>1, Tasks, Urls
<1>6. <<j, 0>> \in Url /\ \A i \in task(j).files : <<j, i>> \in Url /\ (Listed(<<j, i>>)' <=> Listed(<<j, i>>))
  BY <1>1, <1>3, <1>4, <1>5, Tasks
<1>7. \A i \in task(j).files : asset[<<j, i>>] = "none" => asset'[<<j, i>>] = "none" BY <1>6 DEF Listed
<1>8. ~Working(j) \/ UNCHANGED <<asset, store>>
  BY DEF Aside, Quiet
<1>9. UploadsOK(j)'
  <2>1. CASE UNCHANGED <<asset, store>>
    <3>1. Working(j) => cited' \intersect Uploads(j) = {} BY DEF Aside
    <3>2. \A u : Listed(u)' <=> Listed(u) BY <2>1 DEF Listed
    <3> QED BY <1>1, <1>2, <1>3, <2>1, <3>1, <3>2 DEF UploadsOK
  <2>2. CASE ~Working(j)
    <3>1. job[j].pc \in InBrowser BY <2>2 DEF Working
    <3> QED BY <1>1, <1>2, <1>3, <1>6, <1>7, <2>2, <3>1 DEF UploadsOK, InBrowser
  <2> QED BY <1>8, <2>1, <2>2
<1>10. ScrapOK(j)'
  <2>1. Taken(j)' = Taken(j) BY <1>1, <1>2, SameTaken
  <2>2. Taken(j) \subseteq Url
    <3>1. job[j].seen \subseteq Url \union {None} /\ job[j].file \in Url \union {None} BY <1>1, Tasks DEF Place
    <3> QED BY <3>1 DEF Taken
  <2>3. {u \in Old : ~Listed(u)}' = {u \in Old : ~Listed(u)}
    <3>1. Old \subseteq Url BY DEF Url
    <3> QED BY <1>4, <3>1
  <2>4. Referenced' \subseteq Referenced /\ doubtful' = doubtful BY DEF Aside
  <2> QED BY <1>1, <1>2, <1>3, <1>4, <2>1, <2>2, <2>3, <2>4 DEF ScrapOK
<1> QED BY <1>9, <1>10

\* It keeps the invariant.
LEMMA AsideIInv ==
  ASSUME IInv, Aside
  PROVE  IInv'
<1>1. Shape /\ Named /\ PendingOK /\ Unborn /\ Unlanded /\ Covered /\ Traced /\ FilesKept BY DEF IInv
<1>2. /\ SamePlan /\ UNCHANGED <<posts, rows, file, job, pending, doubtful, blamed, book>>
      /\ DOMAIN job' = DOMAIN job /\ \A u \in Url : Listed(u)' <=> Listed(u)
  BY DEF Aside, content
<1>3. \A k \in DOMAIN job : task(k)' = task(k) /\ Images(k)' = Images(k) /\ (Working(k)' <=> Working(k))
  BY <1>1, <1>2, SameTasks DEF Working
<1>4. Kept' = Kept BY <1>1, <1>2, SameTasks
<1>6. Shape'
  <2>1. Possible(plan') /\ plan'.task = plan.task /\ plan'.listed = plan.listed /\ plan.listed \subseteq Url
    BY <1>1, <1>2 DEF SamePlan, Shape, Possible, Url
  <2>4. \A u \in plan'.listed : Listed(u)' BY <1>1, <1>2, <2>1 DEF Shape
  <2>2. \A u \in Url : Listed(u)' <=> u \in Range(book') BY <1>1, <1>2 DEF Shape
  <2>3. /\ asset' \in [Url -> {"none", "new", "aged", "deleted"}] /\ store' \subseteq Url /\ cited' \subseteq Url
        /\ sweep' \in [pc : {"idle", "recheck", "del", "mark"}, list : SUBSET Url]
    BY <1>1 DEF Aside, Shape
  <2> QED BY <1>1, <1>2, <2>1, <2>2, <2>3, <2>4 DEF Shape
<1>7. Named'
  <2>1. \A u \in cited' : Listed(u)' BY <1>2 DEF Aside
  <2> QED BY <1>1, <1>2, <2>1, NamedStays
<1>8. PendingOK'
  <2>1. ASSUME NEW s \in pending PROVE StmtOK(s)'
    <3>1. StmtOK(s) BY <1>1 DEF PendingOK
    <3>4. store' = store BY <2>1 DEF Aside, Quiet
    <3> QED BY <1>1, <1>2, <3>1, <3>4, StmtStays DEF StmtOK
  <2> QED BY <1>1, <1>2, <2>1 DEF PendingOK
<1>9. Unborn' /\ Unlanded' /\ Covered'
  <2>1. Referenced' \subseteq Referenced BY DEF Aside
  <2>2. Unborn' BY <1>1, <1>2, <2>1 DEF Unborn, Early, Mine
  <2>3. Unlanded' BY <1>1, <1>2, <1>3 DEF Unlanded
  <2>4. \A r : Lasting(r) => Lasting(r)' BY <1>2, <1>3 DEF Lasting
  <2> QED BY <1>1, <1>2, <2>2, <2>3, <2>4 DEF Covered
<1>10. Traced'
  <2>1. \A u \in store' : u \in store /\ u \in Url /\ asset'[u] # "deleted" BY <1>1 DEF Aside, Shape
  <2>2. \A u : (Held(u) => Held(u)') /\ (InRow(u) => InRow(u)') /\ (InText(u) => InText(u)')
    <3>1. \A k \in DOMAIN job : Taken(k)' = Taken(k) BY <1>1, <1>2, SameTaken
    <3>2. \A u : Held(u) => Held(u)' BY <1>2, <3>1 DEF Held
    <3>3. \A u : InRow(u) => InRow(u)' BY <1>2, <1>3 DEF InRow
    <3>4. \A u : InText(u) => InText(u)' BY <1>2, <1>3 DEF InText
    <3> QED BY <3>2, <3>3, <3>4
  <2>3. ASSUME NEW u \in store' \ Old, ~Listed(u)'
        PROVE  u \in blamed' \/ \E k \in DOMAIN job' : \E i \in task(k)'.files :
                  u = <<k, i>> /\ job'[k].pc = "upload" /\ job'[k].up[i] \in {"put", "undo"}
    <3>1. u \in store \ Old /\ ~Listed(u) BY <1>2, <2>1, <2>3
    <3> QED BY <1>1, <1>2, <1>3, <3>1 DEF Traced
  <2>4. ASSUME NEW u \in store' \intersect Old, ~Listed(u)'
        PROVE  u \in blamed' \/ u \in Kept' \/ Held(u)' \/ InRow(u)' \/ InText(u)'
    <3>1. u \in store \intersect Old /\ ~Listed(u) BY <1>2, <2>1, <2>4
    <3> QED BY <1>1, <1>2, <1>4, <2>2, <3>1 DEF Traced
  <2> QED BY <2>1, <2>3, <2>4 DEF Traced
<1>11. FilesKept' BY <1>1, <1>2 DEF Aside, FilesKept
<1>12. \A k \in DOMAIN job' : UploadsOK(k)' /\ ScrapOK(k)' BY <1>2, AsideKeepsJobs
<1>13. SweepOK' BY DEF Aside
<1> QED BY <1>6, <1>7, <1>8, <1>9, <1>10, <1>11, <1>12, <1>13 DEF IInv

-----------------------------------------------------------------------------

\* The scenario as it was.
LEMMA SamePlanIfUnchanged ==
  ASSUME Shape, UNCHANGED plan
  PROVE  SamePlan
BY DEF Shape, SamePlan

\* Citing a file is a step beside the requests.
LEMMA CiteIInv ==
  ASSUME IInv, NEW u \in Url, Cite(u)
  PROVE  IInv'
<1>1. Shape /\ Named /\ SweepOK /\ Traced BY DEF IInv
<1>2. /\ u \in Referenced /\ Listed(u) /\ cited' = cited \union {u} /\ sweep.pc = "idle"
      /\ UNCHANGED <<content, book, asset, store, job, pending, sweep, doubtful, blamed>>
      /\ \A j \in DOMAIN job : Working(j) => u \notin Uploads(j)
  BY DEF Cite, Open, ledger
<1>3. SamePlan BY <1>1, CitePlan
<1>4. Referenced' \subseteq Referenced BY <1>2 DEF Referenced, content
<1>5. SweepOK' BY <1>1, <1>2 DEF SweepOK
<1>6. \A j \in DOMAIN job : Working(j) => cited' \intersect Uploads(j) = {} BY <1>2 DEF IInv, UploadsOK
<1>7. cited \subseteq Url /\ \A v \in cited : Listed(v) BY <1>1 DEF Shape, Named
<1>8. \A v : Listed(v)' <=> Listed(v) BY <1>2 DEF Listed
<1>9. Aside BY <1>1, <1>2, <1>3, <1>4, <1>5, <1>6, <1>7, <1>8 DEF Aside, Shape, Traced
<1> QED BY <1>9, AsideIInv

\* So is taking the citation back.
LEMMA UnciteIInv ==
  ASSUME IInv, NEW u \in Url, Uncite(u)
  PROVE  IInv'
<1>1. Shape /\ Named /\ SweepOK /\ Traced BY DEF IInv
<1>2. /\ cited' = cited \ {u} /\ sweep.pc = "idle"
      /\ UNCHANGED <<plan, content, book, asset, store, job, pending, sweep, doubtful, blamed>>
  BY DEF Uncite, Open, ledger
<1>3. SamePlan BY <1>1, <1>2, SamePlanIfUnchanged
<1>4. Referenced' \subseteq Referenced BY <1>2 DEF Referenced, content
<1>5. SweepOK' BY <1>1, <1>2 DEF SweepOK
<1>6. \A j \in DOMAIN job : Working(j) => cited' \intersect Uploads(j) = {} BY <1>2 DEF IInv, UploadsOK
<1>7. cited \subseteq Url /\ \A v \in cited : Listed(v) BY <1>1 DEF Shape, Named
<1>8. \A v : Listed(v)' <=> Listed(v) BY <1>2 DEF Listed
<1>9. Aside BY <1>1, <1>2, <1>3, <1>4, <1>5, <1>6, <1>7, <1>8 DEF Aside, Shape, Traced
<1> QED BY <1>9, AsideIInv

\* So is the passing of time.
LEMMA AgeIInv ==
  ASSUME IInv, Age
  PROVE  IInv'
<1>1. Shape /\ Named /\ SweepOK /\ Traced BY DEF IInv
<1>2. /\ Quiet /\ sweep.pc = "idle" /\ asset' = [u \in Url |-> IF asset[u] = "new" THEN "aged" ELSE asset[u]]
      /\ UNCHANGED <<plan, content, cited, book, store, job, pending, sweep, doubtful, blamed>>
  BY DEF Age, Open, Others
<1>3. SamePlan BY <1>1, <1>2, SamePlanIfUnchanged
<1>4. Referenced' = Referenced BY <1>2, SameReferenced
<1>5. SweepOK' BY <1>1, <1>2 DEF SweepOK
<1>6. \A j \in DOMAIN job : Working(j) => cited' \intersect Uploads(j) = {} BY <1>2 DEF Quiet
<1>7. \A u \in Url : asset'[u] = IF asset[u] = "new" THEN "aged" ELSE asset[u] BY <1>2
<1>8. \A u \in Url : Listed(u)' <=> Listed(u) BY <1>7 DEF Listed
<1>9. asset' \in [Url -> {"none", "new", "aged", "deleted"}] BY <1>1, <1>2 DEF Shape
<1>10. \A u \in store' : asset'[u] # "deleted" BY <1>1, <1>2, <1>7 DEF Shape, Traced
<1>11. Aside BY <1>1, <1>2, <1>3, <1>4, <1>5, <1>6, <1>8, <1>9, <1>10 DEF Aside, Shape, Named
<1> QED BY <1>11, AsideIInv

\* A step of the script that changes neither the ledger nor the store.
LEMMA SweepMoves ==
  ASSUME IInv, Others, UNCHANGED <<ledger, store>>, Quiet,
         sweep' \in [pc : {"idle", "recheck", "del", "mark"}, list : SUBSET Url], SweepOK'
  PROVE  IInv'
<1>1. Shape /\ Named /\ Traced BY DEF IInv
<1>2. UNCHANGED <<plan, content, cited, book, asset, store, job, pending, doubtful, blamed>> BY DEF Others, ledger
<1>3. SamePlan BY <1>1, <1>2, SamePlanIfUnchanged
<1>4. Referenced' = Referenced BY <1>2, SameReferenced
<1>5. \A j \in DOMAIN job : Working(j) => cited' \intersect Uploads(j) = {} BY DEF Quiet
<1>6. \A v : Listed(v)' <=> Listed(v) BY <1>2 DEF Listed
<1>7. Aside BY <1>1, <1>2, <1>3, <1>4, <1>5, <1>6 DEF Aside, Shape, Named, Traced
<1> QED BY <1>7, AsideIInv

\* After a file the script goes on to the next, or is through.
LEMMA OnwardOK ==
  ASSUME Shape, SweepOK, sweep.pc # "idle"
  PROVE  /\ Onward \in [pc : {"idle", "recheck", "del", "mark"}, list : SUBSET Url]
         /\ Onward.pc \in {"idle", "recheck"} /\ (Onward.pc = "idle" <=> Onward.list = {})
         /\ Onward.list \subseteq sweep.list
<1>1. Turn \in sweep.list /\ sweep.list \subseteq Url BY TurnListed DEF Shape
<1>2. CASE sweep.list = {Turn} BY <1>2 DEF Onward
<1>3. CASE sweep.list # {Turn} BY <1>1, <1>3 DEF Onward
<1> QED BY <1>2, <1>3

\* So is the start of the script.
LEMMA StartIInv ==
  ASSUME IInv, Start
  PROVE  IInv'
<1>1. Shape /\ SweepOK BY DEF IInv
<1>2. Quiet /\ Chosen # {} /\ sweep' = [pc |-> "recheck", list |-> Chosen] /\ UNCHANGED <<ledger, store>> /\ Others
  BY DEF Start
<1>3. \A u \in Chosen : u \in Url /\ asset[u] = "aged"
  <2>1. \A n \in DOMAIN book : book[n] \in Url BY <1>1 DEF Shape
  <2> QED BY <2>1 DEF Chosen, Candidate
<1>4. Quiet' BY <1>2 DEF Others, Quiet, Working
<1>5. SweepOK' BY <1>2, <1>3, <1>4, LedgerStays DEF SweepOK
<1> QED BY <1>2, <1>3, <1>5, SweepMoves

\* So is its second look.
LEMMA RecheckIInv ==
  ASSUME IInv, Recheck
  PROVE  IInv'
<1>1. Shape /\ SweepOK BY DEF IInv
<1>2. sweep.pc = "recheck" /\ UNCHANGED <<ledger, store>> /\ Others BY DEF Recheck
<1>3. Quiet BY <1>1, <1>2 DEF SweepOK
<1>4. Quiet' BY <1>2, <1>3 DEF Others, Quiet, Working
<1>5. asset' = asset /\ book' = book BY <1>2, LedgerStays
<1>6. CASE Turn \in Referenced
  <2>1. sweep' = Onward BY <1>6 DEF Recheck
  <2>2. SweepOK' BY <1>1, <1>2, <1>4, <1>5, <2>1, OnwardOK DEF SweepOK
  <2> QED BY <1>1, <1>2, <1>3, <2>1, <2>2, OnwardOK, SweepMoves
<1>7. CASE Turn \notin Referenced
  <2>1. sweep' = [sweep EXCEPT !.pc = "del"] BY <1>7 DEF Recheck
  <2>2. sweep' \in [pc : {"idle", "recheck", "del", "mark"}, list : SUBSET Url] /\ sweep'.pc = "del" /\ sweep'.list = sweep.list
    BY <1>1, <2>1 DEF Shape
  <2>3. Turn' = Turn BY <1>5, <2>2 DEF Turn
  <2>4. Referenced' = Referenced BY <1>2, SameReferenced DEF Others
  <2>5. SweepOK' BY <1>1, <1>2, <1>4, <1>5, <1>7, <2>2, <2>3, <2>4 DEF SweepOK
  <2> QED BY <1>2, <1>3, <2>2, <2>5, SweepMoves
<1> QED BY <1>6, <1>7

\* So is a failure of the script.
LEMMA TroubleIInv ==
  ASSUME IInv, Trouble
  PROVE  IInv'
<1>1. Shape /\ SweepOK BY DEF IInv
<1>2. sweep.pc # "idle" /\ UNCHANGED <<ledger, store>> /\ Others BY DEF Trouble
<1>3. Quiet BY <1>1, <1>2 DEF SweepOK
<1>4. Quiet' BY <1>2, <1>3 DEF Others, Quiet, Working
<1>5. asset' = asset /\ book' = book BY <1>2, LedgerStays
<1>6. CASE sweep' = Onward
  <2>1. SweepOK' BY <1>1, <1>2, <1>4, <1>5, <1>6, OnwardOK DEF SweepOK
  <2> QED BY <1>1, <1>2, <1>3, <1>6, <2>1, OnwardOK, SweepMoves
<1>7. CASE sweep' = [pc |-> "idle", list |-> {}]
  <2>1. SweepOK' BY <1>7 DEF SweepOK
  <2> QED BY <1>2, <1>3, <1>7, <2>1, SweepMoves
<1> QED BY <1>6, <1>7 DEF Trouble

\* So is its deletion of an object that nothing refers to.
LEMMA DelIInv ==
  ASSUME IInv, Del
  PROVE  IInv'
<1>1. Shape /\ Named /\ SweepOK /\ Traced BY DEF IInv
<1>2. /\ sweep.pc = "del" /\ store' = store \ {Turn} /\ sweep' = [sweep EXCEPT !.pc = "mark"]
      /\ UNCHANGED <<plan, content, cited, book, asset, job, pending, doubtful, blamed>>
  BY DEF Del, Others, ledger
<1>3. Quiet /\ Turn \notin Referenced BY <1>1, <1>2 DEF SweepOK
<1>4. SamePlan BY <1>1, <1>2, SamePlanIfUnchanged
<1>5. Referenced' = Referenced BY <1>2, SameReferenced
<1>6. sweep' \in [pc : {"idle", "recheck", "del", "mark"}, list : SUBSET Url] /\ sweep'.pc = "mark" /\ sweep'.list = sweep.list
  BY <1>1, <1>2 DEF Shape
<1>7. Turn' = Turn BY <1>2, <1>6 DEF Turn
<1>8. Quiet' BY <1>2, <1>3 DEF Quiet, Working
<1>9. SweepOK' BY <1>1, <1>2, <1>3, <1>5, <1>6, <1>7, <1>8 DEF SweepOK
<1>10. \A v : Listed(v)' <=> Listed(v) BY <1>2 DEF Listed
<1>11. \A j \in DOMAIN job : Working(j) => cited' \intersect Uploads(j) = {} BY <1>3 DEF Quiet
<1>12. store' \subseteq store /\ Referenced \intersect (store \ store') = {} BY <1>2, <1>3
<1>13. Aside BY <1>1, <1>2, <1>3, <1>4, <1>5, <1>6, <1>9, <1>10, <1>11, <1>12 DEF Aside, Shape, Named, Traced
<1> QED BY <1>13, AsideIInv

\* So is its mark, which follows the deletion.
LEMMA MarkDeletedIInv ==
  ASSUME IInv, MarkDeleted
  PROVE  IInv'
<1>1. Shape /\ Named /\ SweepOK /\ Traced BY DEF IInv
<1>2. /\ sweep.pc = "mark" /\ asset' = [asset EXCEPT ![Turn] = "deleted"] /\ sweep' = Onward
      /\ UNCHANGED <<plan, content, cited, book, store, job, pending, doubtful, blamed>>
  BY DEF MarkDeleted, Others
<1>3. Quiet /\ Turn \notin store BY <1>1, <1>2 DEF SweepOK
<1>4. SamePlan BY <1>1, <1>2, SamePlanIfUnchanged
<1>5. Referenced' = Referenced BY <1>2, SameReferenced
<1>6. Turn \in sweep.list /\ Turn \in Url /\ asset[Turn] \in {"aged", "deleted"} BY <1>1, <1>2, TurnListed DEF SweepOK
<1>7. /\ asset' \in [Url -> {"none", "new", "aged", "deleted"}]
      /\ \A u \in Url : asset'[u] = IF u = Turn THEN "deleted" ELSE asset[u]
  BY <1>1, <1>2, <1>6 DEF Shape
<1>8. \A u \in Url : Listed(u)' <=> Listed(u) BY <1>6, <1>7 DEF Listed
<1>9. Quiet' BY <1>2, <1>3 DEF Quiet, Working
<1>10. /\ sweep' \in [pc : {"idle", "recheck", "del", "mark"}, list : SUBSET Url]
       /\ sweep'.pc \in {"idle", "recheck"} /\ (sweep'.pc = "idle" <=> sweep'.list = {})
       /\ sweep'.list \subseteq sweep.list
  BY <1>1, <1>2, OnwardOK
<1>11. \A u \in sweep.list : asset'[u] \in {"aged", "deleted"} BY <1>1, <1>7 DEF SweepOK, Shape
<1>12. SweepOK' BY <1>9, <1>10, <1>11 DEF SweepOK
<1>13. \A j \in DOMAIN job : Working(j) => cited' \intersect Uploads(j) = {} BY <1>3 DEF Quiet
<1>14. \A u \in store' : asset'[u] # "deleted" BY <1>1, <1>2, <1>3, <1>7 DEF Shape, Traced
<1>15. Aside BY <1>1, <1>2, <1>3, <1>4, <1>5, <1>7, <1>8, <1>10, <1>12, <1>13, <1>14 DEF Aside, Shape, Named
<1> QED BY <1>15, AsideIInv

Sending == {"insert", "attach", "drop", "write", "delete"}

\* The kinds of the tasks that send a statement.
LEMMA SendingKinds ==
  ASSUME IInv, NEW j \in DOMAIN job, job[j].pc \in Sending
  PROVE  /\ Working(j)
         /\ job[j].pc = "insert" => task(j).kind \in {"create", "add"}
         /\ job[j].pc \in {"attach", "drop"} => task(j).kind = "replace"
         /\ job[j].pc = "write" => task(j).kind \in {"save", "revise"}
         /\ job[j].pc = "delete" => task(j).kind \in {"delete", "withdraw"}
<1>1. Shape /\ UploadsOK(j) BY DEF IInv
<1>2. job[j].pc \notin InBrowser BY DEF Sending, InBrowser
<1>3. job[j].pc \in Path(task(j).kind) BY <1>1, <1>2 DEF UploadsOK
<1>4. task(j).kind \in {"create", "replace", "save", "delete", "add", "revise", "withdraw"} BY <1>1, Tasks
<1> QED BY <1>2, <1>3, <1>4 DEF Path, Sending, Working

\* The new files of a job that is about to send them are stored and listed.
LEMMA FilesReady ==
  ASSUME IInv, NEW j \in DOMAIN job, job[j].pc \in Sending
  PROVE  /\ job[j].pc \in {"insert", "attach"} => \A u \in Images(j) : u \in store /\ Listed(u)
         /\ Doc(j) # None => job[j].pc \in {"insert", "write"} /\ Doc(j) = <<j, 0>> /\ Doc(j) \in store /\ Listed(Doc(j))
<1>1. Shape /\ UploadsOK(j) BY DEF IInv
<1>2. task(j).files \subseteq Index /\ Form(task(j)) /\ Images(j) \subseteq Uploads(j) BY <1>1, Tasks
<1>3. job[j].pc \in {"insert", "attach"} => \A u \in Uploads(j) : u \in store /\ Listed(u)
  BY <1>1 DEF UploadsOK, Uploads
<1>4. ASSUME Doc(j) # None PROVE job[j].pc \in {"insert", "write"} /\ Doc(j) = <<j, 0>> /\ Doc(j) \in store /\ Listed(Doc(j))
  <2>1. Doc(j) = <<j, 0>> /\ (task(j).direct \/ 0 \in task(j).files) BY <1>4 DEF Doc
  <2>2. job[j].pc \in {"insert", "write"} BY <1>2, <2>1, SendingKinds DEF Form, Sending
  <2>3. CASE task(j).direct BY <1>1, <2>1, <2>2, <2>3 DEF UploadsOK
  <2>4. CASE 0 \in task(j).files /\ ~task(j).direct BY <1>1, <2>1, <2>2, <2>4 DEF UploadsOK
  <2> QED BY <2>1, <2>2, <2>3, <2>4
<1> QED BY <1>2, <1>3, <1>4

\* The fields of the statement a job sends.
LEMMA StatementFields ==
  ASSUME NEW j
  PROVE  /\ Statement(j).by = j /\ Statement(j).post = task(j).post
         /\ Statement(j).kind = (IF task(j).kind = "revise" THEN "revise" ELSE job[j].pc)
         /\ Statement(j).urls = (IF job[j].pc = "drop" THEN job[j].seen ELSE Images(j))
         /\ Statement(j).file = (IF Doc(j) = None THEN job[j].file ELSE Doc(j))
         /\ Statement(j).read = job[j].file
BY DEF Statement

\* What a job sends is a statement of its form, with files that are stored.
LEMMA StatementOK ==
  ASSUME IInv, NEW j \in DOMAIN job, job[j].pc \in Sending, NEW s, s = Statement(j)
  PROVE  s \in Stmt /\ StmtOK(s) /\ Brings(s) \subseteq store
<1>1. Shape /\ Named /\ UploadsOK(j) BY DEF IInv
<1>2. /\ s.by = j /\ s.post = task(j).post
      /\ s.kind = (IF task(j).kind = "revise" THEN "revise" ELSE job[j].pc)
      /\ s.urls = (IF job[j].pc = "drop" THEN job[j].seen ELSE Images(j))
      /\ s.file = (IF Doc(j) = None THEN job[j].file ELSE Doc(j))
      /\ s.read = job[j].file
  BY StatementFields
<1>3. /\ j \in Job /\ task(j).post \in Post /\ task(j).files \subseteq Index /\ Images(j) \subseteq Uploads(j)
      /\ Uploads(j) \subseteq Mine(j) /\ Mine(j) \subseteq Url /\ <<j, 0>> \in Mine(j) /\ None \notin Mine(j)
      /\ job[j].seen \subseteq Url \union {None} /\ job[j].file \in Url \union {None}
  BY <1>1, Tasks, Urls, Places
<1>4. /\ job[j].pc = "insert" => task(j).kind \in {"create", "add"}
      /\ job[j].pc \in {"attach", "drop"} => task(j).kind = "replace"
      /\ job[j].pc = "write" => task(j).kind \in {"save", "revise"}
      /\ job[j].pc = "delete" => task(j).kind \in {"delete", "withdraw"}
  BY SendingKinds
<1>5. /\ job[j].pc \in {"insert", "attach"} => \A u \in Images(j) : u \in store /\ Listed(u)
      /\ Doc(j) # None => job[j].pc \in {"insert", "write"} /\ Doc(j) = <<j, 0>> /\ Doc(j) \in store /\ Listed(Doc(j))
  BY FilesReady
<1>6. /\ s.kind \in {"insert", "attach", "drop", "write", "revise", "delete"} /\ s.kind \in Kinds(task(j).kind)
      /\ s.kind \in {"insert", "attach", "drop"} => job[j].pc = s.kind
  <2>1. CASE job[j].pc = "insert" BY <1>2, <1>4, <2>1 DEF Kinds
  <2>2. CASE job[j].pc \in {"attach", "drop"} BY <1>2, <1>4, <2>2 DEF Kinds
  <2>3. CASE job[j].pc = "write" BY <1>2, <1>4, <2>3 DEF Kinds
  <2>4. CASE job[j].pc = "delete" BY <1>2, <1>4, <2>4 DEF Kinds
  <2> QED BY <2>1, <2>2, <2>3, <2>4 DEF Sending
<1>7. \A u \in Images(j) : Listed(u) => RowOf(task(j).post, u)
  <2>1. ASSUME NEW u \in Images(j), Listed(u) PROVE RowOf(task(j).post, u)
    <3>1. PICK i \in task(j).files : u = <<j, i>> /\ i # 0 BY <2>1 DEF Images, Uploads
    <3> QED BY <2>1, <3>1 DEF RowOf
  <2> QED BY <2>1
<1>8. \A u \in job[j].seen : None # u \/ job[j].pc # "drop"
  <2>1. \A u \in job[j].seen : task(j).kind = "replace" => RowOf(task(j).post, u) BY <1>1 DEF Named
  <2>2. ~RowOf(task(j).post, None)
    <3>1. ASSUME NEW k \in DOMAIN job, NEW i \in task(k).files PROVE None # <<k, i>>
      <4>1. k \in Job /\ i \in Index BY <1>1, <3>1, Tasks
      <4> QED BY <4>1, Urls
    <3>2. None \notin Old BY <1>3, Urls
    <3> QED BY <3>1, <3>2 DEF RowOf
  <2> QED BY <1>4, <2>1, <2>2
<1>9. s \in Stmt
  <2>1. s.urls \subseteq Url
    <3>1. Images(j) \subseteq Url BY <1>3
    <3>2. CASE job[j].pc = "drop" BY <1>2, <1>3, <1>8, <3>2
    <3>3. CASE job[j].pc # "drop" BY <1>2, <3>1, <3>3
    <3> QED BY <3>2, <3>3
  <2>2. s.file \in Url \union {None} BY <1>2, <1>3, <1>5
  <2>3. s = [by |-> s.by, kind |-> s.kind, post |-> s.post, urls |-> s.urls, file |-> s.file, read |-> s.read]
    BY DEF Statement
  <2> QED BY <1>2, <1>3, <1>6, <2>1, <2>2, <2>3 DEF Stmt
<1>10. FileOf(task(j).post, job[j].file) /\ FileOf(task(j).post, s.file)
  <2>1. FileOf(task(j).post, job[j].file) BY <1>1 DEF Named
  <2>2. CASE Doc(j) = None BY <1>2, <2>1, <2>2
  <2>3. CASE Doc(j) # None BY <1>2, <1>5, <2>1, <2>3 DEF FileOf
  <2> QED BY <2>1, <2>2, <2>3
<1>11. s.kind \in {"insert", "attach", "drop"} => \A u \in s.urls : RowOf(task(j).post, u)
  <2>1. CASE s.kind = "drop"
    <3>1. s.urls = job[j].seen /\ task(j).kind = "replace" BY <1>2, <1>4, <1>6, <2>1
    <3> QED BY <1>1, <3>1 DEF Named
  <2>2. CASE s.kind \in {"insert", "attach"}
    <3>1. s.urls = Images(j) /\ job[j].pc \in {"insert", "attach"} BY <1>2, <1>6, <2>2
    <3> QED BY <1>5, <1>7, <3>1
  <2> QED BY <2>1, <2>2
<1>12. Brings(s) \subseteq Mine(j) /\ Brings(s) \subseteq store
  <2>1. s.kind \in {"insert", "attach"} => s.urls \subseteq Mine(j) /\ s.urls \subseteq store
    <3>1. s.kind \in {"insert", "attach"} => s.urls = Images(j) /\ job[j].pc \in {"insert", "attach"} BY <1>2, <1>6
    <3> QED BY <1>3, <1>5, <3>1
  <2>2. s.file # s.read => s.file \in Mine(j) /\ s.file \in store BY <1>2, <1>3, <1>5
  <2> QED BY <2>1, <2>2 DEF Brings
<1>13. s.kind = "drop" => \E u \in Images(j) : TRUE
  <2>1. ASSUME s.kind = "drop" PROVE \E u \in Images(j) : TRUE
    <3>1. job[j].pc = "drop" /\ task(j).kind = "replace" BY <1>4, <1>6, <2>1
    <3>2. task(j).files # {} /\ 0 \notin task(j).files BY <1>1, <3>1, Tasks DEF UploadsOK, Form
    <3>3. PICK i \in task(j).files : i # 0 BY <3>2
    <3>4. <<j, i>> \in Images(j) BY <3>3 DEF Images, Uploads
    <3> QED BY <3>4
  <2> QED BY <2>1
<1>15. s.kind = "insert" => s.read = None BY <1>1, <1>2, <1>4, <1>6 DEF Named
<1>14. StmtOK(s) BY <1>2, <1>6, <1>10, <1>11, <1>12, <1>13, <1>15 DEF StmtOK
<1> QED BY <1>9, <1>12, <1>14

\* No other job knows of the files a statement brings.
LEMMA StatementUnknown ==
  ASSUME IInv, NEW j \in DOMAIN job, job[j].pc \in Sending, NEW s, s = Statement(j)
  PROVE  /\ \A t \in pending : t.by # j
         /\ \A k \in DOMAIN job \ {j} : job[k].pc \in Early => \A u \in Mine(k) : u # s.file /\ u \notin s.urls
         /\ s.kind \in {"insert", "attach"} => \A u \in s.urls :
              /\ u \notin Referenced
              /\ \A k \in DOMAIN job : u \notin job[k].seen
              /\ \A t \in pending : u \notin t.urls
         /\ s.kind = "drop" => \A r : Lasting(r) /\ r.post = s.post => r.url \notin s.urls
<1>1. Shape /\ PendingOK /\ Unborn BY DEF IInv
<1>2. /\ s.by = j /\ s.post = task(j).post
      /\ s.kind = (IF task(j).kind = "revise" THEN "revise" ELSE job[j].pc)
      /\ s.urls = (IF job[j].pc = "drop" THEN job[j].seen ELSE Images(j))
      /\ s.file = (IF Doc(j) = None THEN job[j].file ELSE Doc(j))
  BY StatementFields
<1>3. \A t \in pending : t.by # j BY <1>1 DEF PendingOK, Sending
<1>4. j \in Job /\ Images(j) \subseteq Mine(j) /\ <<j, 0>> \in Mine(j) /\ (Doc(j) = None \/ Doc(j) = <<j, 0>>)
  BY <1>1, Tasks, Urls
<1>5. ASSUME NEW k \in DOMAIN job \ {j}, job[k].pc \in Early, NEW u \in Mine(k) PROVE u # s.file /\ u \notin s.urls
  <2>1. u # job[j].file /\ u \notin job[j].seen BY <1>1, <1>5 DEF Unborn
  <2>2. u \notin Mine(j) /\ u # None
    <3>1. k \in Job /\ k # j BY <1>1, <1>5, Tasks
    <3> QED BY <1>4, <1>5, <3>1, Urls
  <2>3. u # s.file BY <1>2, <1>4, <2>1, <2>2
  <2> QED BY <1>2, <1>4, <2>1, <2>2, <2>3
<1>6. ASSUME s.kind \in {"insert", "attach"}, NEW u \in s.urls
      PROVE  /\ u \notin Referenced
             /\ \A k \in DOMAIN job : u \notin job[k].seen
             /\ \A t \in pending : u \notin t.urls
  <2>1. job[j].pc \in {"insert", "attach"} /\ s.urls = Images(j) BY <1>2, <1>6
  <2>2. job[j].pc \in Early BY <2>1 DEF Early
  <2> QED BY <1>1, <1>4, <1>6, <2>1, <2>2 DEF Unborn
<1>7. ASSUME s.kind = "drop", NEW r, Lasting(r), r.post = s.post PROVE r.url \notin s.urls
  <2>1. job[j].pc = "drop" /\ s.urls = job[j].seen BY <1>2, <1>7
  <2> QED BY <1>2, <1>7, <2>1 DEF Lasting
<1> QED BY <1>3, <1>5, <1>6, <1>7

\* The content after a statement has taken effect.
LEMMA TakesFields ==
  ASSUME Shape, NEW s \in Stmt, Takes(s)
  PROVE  /\ posts' = IF s.kind = "insert" THEN posts \union {s.post}
                     ELSE IF s.kind = "delete" THEN posts \ {s.post} ELSE posts
         /\ s.kind \in {"insert", "attach"} => rows' = rows \union Row(s.post, s.urls)
         /\ s.kind = "drop" => rows' = {r \in rows : ~(r.post = s.post /\ r.url \in s.urls)}
         /\ s.kind = "delete" => rows' = {r \in rows : r.post # s.post}
         /\ s.kind \in {"write", "revise"} => rows' = rows
         /\ file' \in [Post -> Url \union {None}]
         /\ \A q \in Post \ {s.post} : file'[q] = file[q]
         /\ file'[s.post] = IF s.kind = "insert" \/ (s.kind \in {"write", "revise"} /\ s.post \in posts) THEN s.file
                            ELSE IF s.kind = "delete" THEN None ELSE file[s.post]
         /\ doubtful' = (doubtful \union Doubt(s)) \ {None}
<1>1. /\ s.post \in Post /\ s.file \in Url \union {None} /\ file \in [Post -> Url \union {None}]
      /\ s.kind \in {"insert", "attach", "drop", "write", "revise", "delete"}
  BY DEF Stmt, Shape
<1>2. doubtful' = (doubtful \union Doubt(s)) \ {None} BY DEF Takes
<1>3. CASE s.kind = "insert"
  <2>1. posts' = posts \union {s.post} /\ rows' = rows \union Row(s.post, s.urls) /\ file' = [file EXCEPT ![s.post] = s.file]
    BY <1>3 DEF Takes
  <2> QED BY <1>1, <1>2, <1>3, <2>1
<1>4. CASE s.kind = "attach"
  <2>1. posts' = posts /\ rows' = rows \union Row(s.post, s.urls) /\ file' = file BY <1>4 DEF Takes
  <2> QED BY <1>1, <1>2, <1>4, <2>1
<1>5. CASE s.kind = "drop"
  <2>1. posts' = posts /\ rows' = {r \in rows : ~(r.post = s.post /\ r.url \in s.urls)} /\ file' = file BY <1>5 DEF Takes
  <2> QED BY <1>1, <1>2, <1>5, <2>1
<1>6. CASE s.kind = "delete"
  <2>1. posts' = posts \ {s.post} /\ rows' = {r \in rows : r.post # s.post} /\ file' = [file EXCEPT ![s.post] = None]
    BY <1>6 DEF Takes
  <2> QED BY <1>1, <1>2, <1>6, <2>1
<1>7. CASE s.kind \in {"write", "revise"} /\ s.post \in posts
  <2>1. posts' = posts /\ rows' = rows /\ file' = [file EXCEPT ![s.post] = s.file] BY <1>7 DEF Takes
  <2> QED BY <1>1, <1>2, <1>7, <2>1
<1>8. CASE s.kind \in {"write", "revise"} /\ s.post \notin posts
  <2>1. posts' = posts /\ rows' = rows /\ file' = file BY <1>8 DEF Takes
  <2> QED BY <1>1, <1>2, <1>8, <2>1
<1> QED BY <1>1, <1>3, <1>4, <1>5, <1>6, <1>7, <1>8

\* The rows after a statement: some of those before, or those it brings.
LEMMA RowsAfter ==
  ASSUME Shape, NEW s \in Stmt, Takes(s), NEW r \in rows'
  PROVE  r \in rows \/ (s.kind \in {"insert", "attach"} /\ r \in [post : {s.post}, url : s.urls])
<1>1. s.kind \in {"insert", "attach", "drop", "write", "revise", "delete"} BY DEF Stmt
<1> QED BY <1>1, TakesFields DEF Row

\* A row that only one row before could name; what a statement takes effect on.
RowSafe(r) ==
  /\ \A j \in DOMAIN job : job[j].pc = "delete" /\ task(j).post = r.post => r.url \in job[j].seen
  /\ \A s \in pending : s.post = r.post => s.kind # "delete" /\ (s.kind = "drop" => r.url \notin s.urls)

TextSafe(p) ==
  /\ \A j \in DOMAIN job : job[j].pc \in AfterRead /\ task(j).kind \in {"save", "delete"} /\ task(j).post = p =>
        job[j].file = file[p]
  /\ \A s \in pending : s.post = p => s.kind \notin {"write", "delete"}

\* Whoever takes an unregistered file out of the content knows of it, or a failure is
\* on record.
Told ==
  \A u \in Old : ~Listed(u) /\ u \notin Kept =>
    /\ \A r \in rows \ rows' : r.url = u /\ RowSafe(r) => u \in blamed' \/ Held(u)'
    /\ \A p \in posts : file[p] = u /\ TextSafe(p) /\ (p \in posts' => file'[p] # u) => u \in blamed' \/ Held(u)'

\* A statement takes effect: its job is answered, or had given up.
Taking(s) ==
  /\ SamePlan /\ s \in Stmt /\ StmtOK(s) /\ Fits(s) /\ Takes(s)
  /\ UNCHANGED <<cited, ledger, store, sweep>> /\ blamed \subseteq blamed' /\ sweep.pc = "idle"
  /\ pending' \subseteq pending /\ \A t \in pending' : t.by # s.by
  /\ job' \in [DOMAIN job -> Place] /\ \A k \in DOMAIN job \ {s.by} : job'[k] = job[k]
  /\ job'[s.by].up = job[s.by].up /\ job'[s.by].seen = job[s.by].seen
  /\ job'[s.by].file = job[s.by].file /\ job'[s.by].scrap = job[s.by].scrap
  /\ \A k \in DOMAIN job : job'[k].pc \in Early =>
       job[k].pc \in Early /\ \A u \in Mine(k) : u # s.file /\ u \notin s.urls
  /\ s.kind \in {"insert", "attach"} => \A u \in s.urls :
       /\ \A k \in DOMAIN job : task(k).kind = "replace" => u \notin job[k].seen
       /\ \A t \in pending : t.kind = "drop" => u \notin t.urls
  /\ s.kind = "drop" => \A r : Lasting(r) /\ r.post = s.post => r.url \notin s.urls
  /\ job'[s.by].pc = "drop" => s.kind = "attach" /\ s.urls # {}
  /\ job'[s.by].pc \notin AfterRead /\ job[s.by].pc \notin {"upload", "owned"}
  /\ job[s.by].pc = "discard" => job'[s.by].pc = "discard"
  /\ job[s.by].scrap # {} => job'[s.by].pc \in {"discard", "done"}
  /\ \/ Brings(s) \subseteq store /\ job[s.by].scrap = {} /\ job'[s.by].pc # "compare"
     \/ s \in pending /\ job' = job
  /\ job'[s.by].pc = "owned" => \A u \in Taken(s.by) : u \in Referenced' => Listed(u)
  /\ UploadsOK(s.by)'
  /\ Told

\* What a statement leaves.
LEMMA TakingFrame ==
  ASSUME IInv, NEW s, Taking(s)
  PROVE  /\ Shape /\ SamePlan /\ DOMAIN job' = DOMAIN job /\ s \in Stmt /\ StmtOK(s) /\ s.by \in DOMAIN job /\ s.by \in Job
         /\ s.post \in Post
         /\ \A k \in DOMAIN job : /\ task(k)' = task(k) /\ Uploads(k)' = Uploads(k) /\ Images(k)' = Images(k)
                                  /\ job'[k].seen = job[k].seen /\ job'[k].file = job[k].file
                                  /\ job'[k].scrap = job[k].scrap /\ job'[k].up = job[k].up
                                  /\ Taken(k)' = Taken(k)
         /\ Kept' = Kept /\ cited' = cited /\ store' = store /\ asset' = asset /\ book' = book
         /\ \A u : Listed(u)' <=> Listed(u)
         /\ \A u \in Brings(s) : u \in Mine(s.by) /\ u \in Url /\ u \notin Old /\ Listed(u)
<1>1. Shape /\ SamePlan /\ DOMAIN job' = DOMAIN job /\ s \in Stmt /\ StmtOK(s) /\ s.by \in DOMAIN job
  BY DEF IInv, Taking, StmtOK
<1>2. s.by \in Job /\ s.post \in Post BY <1>1, Tasks DEF Stmt
<1>3. /\ \A k \in DOMAIN job : task(k)' = task(k) /\ Uploads(k)' = Uploads(k) /\ Images(k)' = Images(k)
      /\ Kept' = Kept
  BY <1>1, SameTasks
<1>4. \A k \in DOMAIN job : /\ job'[k].seen = job[k].seen /\ job'[k].file = job[k].file
                            /\ job'[k].scrap = job[k].scrap /\ job'[k].up = job[k].up
  BY DEF Taking
<1>5. \A k \in DOMAIN job : Taken(k)' = Taken(k) BY <1>1, <1>4, SameTaken
<1>6. cited' = cited /\ store' = store /\ asset' = asset /\ book' = book /\ \A u : Listed(u)' <=> Listed(u)
  BY LedgerStays DEF Taking
<1>7. ASSUME NEW u \in Brings(s) PROVE u \in Mine(s.by) /\ u \in Url /\ u \notin Old /\ Listed(u)
  <2>1. u \in Mine(s.by) BY <1>1, <1>7 DEF StmtOK
  <2>2. u \in Url /\ u \notin Old /\ u # None BY <1>2, <2>1, Urls
  <2>3. RowOf(s.post, u) \/ FileOf(s.post, u) BY <1>1, <1>7 DEF Brings, StmtOK
  <2> QED BY <2>1, <2>2, <2>3 DEF RowOf, FileOf
<1> QED BY <1>1, <1>2, <1>3, <1>4, <1>5, <1>6, <1>7

\* What content refers to afterwards.
LEMMA NewRefs ==
  ASSUME IInv, NEW s, Taking(s), NEW u \in Referenced', u # None
  PROVE  \/ u \in Referenced
         \/ u \in Brings(s)
         \/ u = s.file /\ u \in doubtful'
<1>1. Shape /\ s \in Stmt /\ Takes(s) /\ Fits(s) /\ cited' = cited /\ s.post \in Post BY TakingFrame DEF Taking
<1>2. s.kind \in {"insert", "attach", "drop", "write", "revise", "delete"} BY <1>1 DEF Stmt
<1>3. CASE u \in cited BY <1>3 DEF Referenced
<1>4. CASE \E r \in rows' : r.url = u
  <2>1. PICK r \in rows' : r.url = u BY <1>4
  <2>2. CASE r \in rows BY <2>1, <2>2 DEF Referenced
  <2>3. CASE s.kind \in {"insert", "attach"} /\ r \in [post : {s.post}, url : s.urls] BY <2>1, <2>3 DEF Brings
  <2> QED BY <1>1, <2>1, <2>2, <2>3, RowsAfter
<1>5. CASE \E p \in posts' : file'[p] = u
  <2>1. PICK p \in posts' : file'[p] = u BY <1>5
  <2>2. p \in posts \/ (s.kind = "insert" /\ p = s.post) BY <1>1, <2>1, TakesFields
  <2>3. p \in Post BY <1>1, <2>2 DEF Shape
  <2>4. CASE p # s.post BY <1>1, <2>1, <2>2, <2>3, <2>4, TakesFields DEF Referenced
  <2>5. CASE p = s.post
    <3>1. \/ s.kind \in {"insert", "write", "revise"} /\ u = s.file
          \/ p \in posts /\ u = file[p]
      BY <1>1, <1>2, <2>1, <2>2, <2>5, TakesFields
    <3>2. CASE p \in posts /\ u = file[p] BY <3>2 DEF Referenced
    <3>3. CASE s.kind \in {"insert", "write", "revise"} /\ u = s.file /\ s.file # s.read BY <3>3 DEF Brings
    <3>4. CASE s.kind = "revise" /\ u = s.file /\ s.file = s.read
      BY <1>1, <3>4 DEF Fits, Referenced
    <3>5. CASE s.kind = "insert" /\ u = s.file /\ s.file = s.read
      <4>2. s.read = None BY <3>5, TakingFrame DEF StmtOK
      <4> QED BY <3>5, <4>2
    <3>6. CASE s.kind = "write" /\ u = s.file /\ s.file = s.read
      <4>1. p \in posts BY <1>1, <2>2, <3>6
      <4>2. CASE file[p] = s.read BY <3>6, <4>1, <4>2 DEF Referenced
      <4>3. CASE file[p] # s.read
        <5>1. Doubt(s) = {s.file} BY <2>5, <3>6, <4>3 DEF Doubt
        <5> QED BY <1>1, <3>6, <5>1, TakesFields
      <4> QED BY <4>2, <4>3
    <3> QED BY <3>1, <3>2, <3>3, <3>4, <3>5, <3>6
  <2> QED BY <2>4, <2>5
<1> QED BY <1>1, <1>3, <1>4, <1>5 DEF Referenced

\* A statement that takes effect keeps the shape.
LEMMA TakingShape ==
  ASSUME IInv, NEW s, Taking(s)
  PROVE  Shape'
<1>1. /\ Shape /\ SamePlan /\ s \in Stmt /\ s.post \in Post /\ cited' = cited /\ store' = store /\ asset' = asset
      /\ book' = book /\ \A u : Listed(u)' <=> Listed(u)
  BY TakingFrame
<1>2. Takes(s) /\ Fits(s) /\ sweep' = sweep /\ pending' \subseteq pending /\ job' \in [DOMAIN job -> Place] BY DEF Taking
<1>3. /\ s.urls \subseteq Url /\ s.file \in Url \union {None}
      /\ s.kind \in {"insert", "attach", "drop", "write", "revise", "delete"}
  BY <1>1 DEF Stmt
<1>4. Possible(plan') /\ plan'.task = plan.task /\ plan'.listed = plan.listed BY <1>1 DEF SamePlan
<1>5. posts' \subseteq Post BY <1>1, <1>2, TakesFields DEF Shape
<1>6. rows' \subseteq [post : posts', url : Url]
  <2>1. ASSUME NEW r \in rows' PROVE r \in [post : posts', url : Url]
    <3>1. CASE r \in rows
      <4>1. r \in [post : posts, url : Url] BY <1>1, <3>1 DEF Shape
      <4>2. s.kind = "delete" => r.post # s.post BY <1>1, <1>2, <2>1, TakesFields
      <4>3. r.post \in posts' BY <1>1, <1>2, <4>1, <4>2, TakesFields
      <4> QED BY <4>1, <4>3
    <3>2. CASE s.kind \in {"insert", "attach"} /\ r \in [post : {s.post}, url : s.urls]
      <4>1. s.post \in posts' BY <1>1, <1>2, <3>2, TakesFields DEF Fits
      <4> QED BY <1>3, <3>2, <4>1
    <3> QED BY <1>1, <1>2, <3>1, <3>2, RowsAfter
  <2> QED BY <2>1
<1>7. file' \in [Post -> Url \union {None}] BY <1>1, <1>2, TakesFields
<1>8. ASSUME NEW p \in Post \ posts' PROVE file'[p] = None
  <2>1. \A q \in Post \ posts : file[q] = None BY <1>1 DEF Shape
  <2>2. CASE p # s.post BY <1>1, <1>2, <1>8, <2>1, <2>2, TakesFields
  <2>3. CASE p = s.post
    <3>1. s.kind # "insert" BY <1>1, <1>2, <1>8, <2>3, TakesFields
    <3>2. s.kind = "delete" \/ s.post \notin posts BY <1>1, <1>2, <1>8, <2>3, <3>1, TakesFields
    <3> QED BY <1>1, <1>2, <2>1, <2>3, <3>1, <3>2, TakesFields
  <2> QED BY <2>2, <2>3
<1> QED BY <1>1, <1>2, <1>4, <1>5, <1>6, <1>7, <1>8 DEF Shape

\* It keeps what posts and jobs may name.
LEMMA TakingNamed ==
  ASSUME IInv, NEW s, Taking(s)
  PROVE  Named'
<1>1. /\ Shape /\ SamePlan /\ s \in Stmt /\ StmtOK(s) /\ s.post \in Post /\ cited' = cited /\ DOMAIN job' = DOMAIN job
      /\ \A u : Listed(u)' <=> Listed(u)
      /\ \A k \in DOMAIN job : task(k)' = task(k) /\ job'[k].seen = job[k].seen /\ job'[k].file = job[k].file
  BY TakingFrame
<1>2. Takes(s) /\ Fits(s) /\ Named BY DEF Taking, IInv
<1>3. \A p, u : (RowOf(p, u) => RowOf(p, u)') /\ (FileOf(p, u) => FileOf(p, u)') BY <1>1, NamesStay
<1>4. s.kind \in {"insert", "attach", "drop", "write", "revise", "delete"} BY <1>1 DEF Stmt
<1>5. \A r \in rows' : RowOf(r.post, r.url)'
  <2>1. ASSUME NEW r \in rows' PROVE RowOf(r.post, r.url)'
    <3>1. PICK p, u : p = r.post /\ u = r.url OBVIOUS
    <3>2. RowOf(p, u)
      <4>1. CASE r \in rows BY <1>2, <3>1, <4>1 DEF Named
      <4>2. CASE s.kind \in {"insert", "attach"} /\ r \in [post : {s.post}, url : s.urls] BY <1>1, <3>1, <4>2 DEF StmtOK
      <4> QED BY <1>1, <1>2, <4>1, <4>2, RowsAfter
    <3>3. RowOf(p, u)' BY <1>3, <3>2
    <3> QED BY <3>1, <3>3
  <2> QED BY <2>1
<1>6. \A p \in Post : FileOf(p, file[p])'
  <2>1. ASSUME NEW p \in Post PROVE FileOf(p, file[p])'
    <3>1. PICK u : u = file'[p] OBVIOUS
    <3>2. FileOf(p, u)
      <4>1. u = file[p] \/ (p = s.post /\ u = s.file) \/ u = None BY <1>1, <1>2, <3>1, TakesFields
      <4>2. FileOf(p, None) BY DEF FileOf
      <4>3. FileOf(p, file[p]) BY <1>2 DEF Named
      <4> QED BY <1>1, <4>1, <4>2, <4>3 DEF StmtOK
    <3>3. FileOf(p, u)' BY <1>3, <3>2
    <3> QED BY <3>1, <3>3
  <2> QED BY <2>1
<1>7. \A u \in cited' : Listed(u)' BY <1>1, <1>2 DEF Named
<1>8. ASSUME NEW k \in DOMAIN job
      PROVE  /\ FileOf(task(k).post, job[k].file)'
             /\ \A u \in job'[k].seen : IF task(k)'.kind = "create" THEN FileOf(task(k).post, u)' ELSE RowOf(task(k).post, u)'
             /\ task(k)'.kind \in {"create", "add"} => job'[k].file = None
             /\ task(k)'.kind \notin {"create", "replace", "delete"} => job'[k].seen = {}
  <2>1. PICK p, g, d : p = task(k).post /\ g = job[k].file /\ d = task(k).kind OBVIOUS
  <2>2. task(k)'.post = p /\ task(k)'.kind = d /\ job'[k].seen = job[k].seen /\ job'[k].file = g BY <1>1, <2>1
  <2>3. FileOf(p, g) /\ (d \in {"create", "add"} => g = None)
        /\ (d \notin {"create", "replace", "delete"} => job[k].seen = {})
        /\ \A u \in job[k].seen : IF d = "create" THEN FileOf(p, u) ELSE RowOf(p, u)
    BY <1>2, <2>1 DEF Named
  <2>4. FileOf(p, g)' /\ \A u \in job[k].seen : IF d = "create" THEN FileOf(p, u)' ELSE RowOf(p, u)' BY <1>3, <2>3
  <2> QED BY <2>1, <2>2, <2>3, <2>4
<1> QED BY <1>1, <1>5, <1>6, <1>7, <1>8 DEF Named

\* It keeps the other statements given up.
LEMMA TakingPending ==
  ASSUME IInv, NEW s, Taking(s)
  PROVE  PendingOK'
<1>1. /\ Shape /\ SamePlan /\ DOMAIN job' = DOMAIN job /\ store' = store
      /\ \A u : Listed(u)' <=> Listed(u)
      /\ \A k \in DOMAIN job : task(k)' = task(k) /\ Images(k)' = Images(k)
  BY TakingFrame
<1>2. PendingOK BY DEF IInv
<1>3. pending' \subseteq pending /\ (\A t \in pending' : t.by # s.by) /\ \A k \in DOMAIN job \ {s.by} : job'[k] = job[k]
  BY DEF Taking
<1>5. ASSUME NEW t \in pending' PROVE StmtOK(t)' /\ job'[t.by].pc \in {"verify", "compare", "discard", "done"}
  <2>1. StmtOK(t) /\ t \in pending BY <1>2, <1>3, <1>5 DEF PendingOK
  <2>5. StmtOK(t)' BY <1>1, <2>1, StmtStays DEF StmtOK
  <2>6. job'[t.by] = job[t.by] BY <1>3, <1>5, <2>1 DEF StmtOK
  <2> QED BY <1>2, <2>1, <2>5, <2>6 DEF PendingOK
<1> QED BY <1>2, <1>3, <1>5 DEF PendingOK

\* It keeps the files of forms not sent yet unknown.
LEMMA TakingUnborn ==
  ASSUME IInv, NEW s, Taking(s)
  PROVE  Unborn'
<1>1. /\ Shape /\ s \in Stmt /\ DOMAIN job' = DOMAIN job
      /\ \A k \in DOMAIN job : job'[k].seen = job[k].seen /\ job'[k].file = job[k].file
  BY TakingFrame
<1>2. Unborn BY DEF IInv
<1>3. /\ pending' \subseteq pending
      /\ \A k \in DOMAIN job : job'[k].pc \in Early =>
           job[k].pc \in Early /\ \A u \in Mine(k) : u # s.file /\ u \notin s.urls
  BY DEF Taking
<1>4. ASSUME NEW k \in DOMAIN job, job'[k].pc \in Early, NEW u \in Mine(k)
      PROVE  /\ u \notin Referenced'
             /\ \A i \in DOMAIN job : u # job'[i].file /\ u \notin job'[i].seen
             /\ \A t \in pending' : u # t.file /\ u \notin t.urls
  <2>1. job[k].pc \in Early /\ u # s.file /\ u \notin s.urls BY <1>3, <1>4
  <2>2. /\ u \notin Referenced /\ \A i \in DOMAIN job : u # job[i].file /\ u \notin job[i].seen
        /\ \A t \in pending : u # t.file /\ u \notin t.urls
    BY <1>2, <1>4, <2>1 DEF Unborn
  <2>3. u # None
    <3>1. k \in Job BY <1>1, Tasks
    <3> QED BY <1>4, <3>1, Urls
  <2>4. u \notin Brings(s) BY <2>1 DEF Brings
  <2>5. u \notin Referenced' BY <2>1, <2>2, <2>3, <2>4, NewRefs
  <2> QED BY <1>1, <1>3, <2>2, <2>5
<1> QED BY <1>1, <1>4 DEF Unborn, Early, Mine

\* It keeps the files of statements given up out of the rows.
LEMMA TakingUnlanded ==
  ASSUME IInv, NEW s, Taking(s)
  PROVE  Unlanded'
<1>1. /\ Shape /\ s \in Stmt /\ DOMAIN job' = DOMAIN job /\ StmtOK(s) /\ s.by \in Job
      /\ \A k \in DOMAIN job : job'[k].seen = job[k].seen /\ task(k)' = task(k)
  BY TakingFrame
<1>2. Unlanded /\ PendingOK BY DEF IInv
<1>3. pending' \subseteq pending /\ (\A t \in pending' : t.by # s.by) /\ Takes(s) BY DEF Taking
<1>4. ASSUME NEW t \in pending', t.kind \in {"insert", "attach"}, NEW u \in t.urls PROVE u \notin {r.url : r \in rows'}
  <2>1. t \in pending /\ t.by # s.by /\ StmtOK(t) BY <1>2, <1>3, <1>4 DEF PendingOK
  <2>2. t.by \in Job BY <1>1, <2>1, Tasks DEF StmtOK
  <2>3. u \in Mine(t.by) BY <1>4, <2>1 DEF StmtOK, Brings
  <2>4. s.kind \in {"insert", "attach"} => u \notin s.urls
    <3>1. s.kind \in {"insert", "attach"} => s.urls \subseteq Mine(s.by) BY <1>1 DEF StmtOK, Brings
    <3>2. u \notin Mine(s.by) BY <1>1, <2>1, <2>2, <2>3, Urls
    <3> QED BY <3>1, <3>2
  <2>5. u \notin {r.url : r \in rows} BY <1>2, <1>4, <2>1 DEF Unlanded
  <2>6. ASSUME NEW r \in rows' PROVE r.url # u
    <3>1. CASE r \in rows BY <2>5, <3>1
    <3>2. CASE s.kind \in {"insert", "attach"} /\ r \in [post : {s.post}, url : s.urls] BY <2>4, <3>2
    <3> QED BY <1>1, <1>3, <2>6, <3>1, <3>2, RowsAfter
  <2> QED BY <2>6
<1> QED BY <1>1, <1>2, <1>3, <1>4 DEF Unlanded

\* What is left of a post's images, or has come for them.
LEMMA TakingCovered ==
  ASSUME IInv, NEW s, Taking(s)
  PROVE  /\ Covered'
         /\ \A x \in rows : x.post \in posts' => \E r \in rows' : r.post = x.post
<1>1. /\ Shape /\ s \in Stmt /\ DOMAIN job' = DOMAIN job /\ StmtOK(s) /\ s.by \in DOMAIN job
      /\ \A k \in DOMAIN job : job'[k].seen = job[k].seen /\ task(k)' = task(k)
  BY TakingFrame
<1>2. Covered /\ UploadsOK(s.by)' BY DEF IInv, Taking
<1>3. /\ pending' \subseteq pending /\ Takes(s) /\ \A k \in DOMAIN job \ {s.by} : job'[k] = job[k]
      /\ s.kind \in {"insert", "attach"} => \A u \in s.urls :
           /\ \A k \in DOMAIN job : task(k).kind = "replace" => u \notin job[k].seen
           /\ \A t \in pending : t.kind = "drop" => u \notin t.urls
      /\ s.kind = "drop" => \A r : Lasting(r) /\ r.post = s.post => r.url \notin s.urls
      /\ job'[s.by].pc = "drop" => s.kind = "attach" /\ s.urls # {}
  BY DEF Taking
<1>4. \A k \in DOMAIN job : job'[k].pc = "drop" => task(k).kind = "replace"
  <2>1. ASSUME NEW k \in DOMAIN job, job'[k].pc = "drop" PROVE task(k).kind = "replace"
    <3>1. UploadsOK(k)' \/ (job'[k] = job[k] /\ UploadsOK(k)) BY <1>2, <1>3 DEF IInv
    <3>2. job'[k].pc \in InBrowser \union Path(task(k).kind) BY <1>1, <3>1 DEF UploadsOK
    <3>3. "drop" \in Path(task(k).kind) BY <2>1, <3>2 DEF InBrowser
    <3>4. task(k).kind \in {"create", "replace", "save", "delete", "add", "revise", "withdraw"} BY <1>1, Tasks
    <3> QED BY <3>3, <3>4 DEF Path
  <2> QED BY <2>1
<1>5. ASSUME s.kind \in {"insert", "attach"}, NEW r \in [post : {s.post}, url : s.urls] PROVE r \in rows' /\ Lasting(r)'
  <2>1. r \in rows' BY <1>1, <1>3, <1>5, TakesFields DEF Row
  <2>2. r.url \in s.urls BY <1>5
  <2>3. \A k \in DOMAIN job : job'[k].pc = "drop" => r.url \notin job'[k].seen BY <1>1, <1>3, <1>4, <1>5, <2>2
  <2>4. \A t \in pending' : t.kind = "drop" => r.url \notin t.urls BY <1>3, <1>5, <2>2
  <2> QED BY <1>1, <2>1, <2>3, <2>4 DEF Lasting
<1>6. ASSUME NEW x \in rows, x.post \in posts' PROVE \E r \in rows' : r.post = x.post /\ Lasting(r)'
  <2>1. PICK r \in rows : r.post = x.post /\ Lasting(r) BY <1>2 DEF Covered
  <2>2. CASE job'[s.by].pc = "drop" /\ x.post = s.post
    <3>1. s.kind = "attach" BY <1>3, <2>2
    <3>2. PICK u \in s.urls : TRUE BY <1>3, <2>2
    <3>3. PICK y : y = [post |-> s.post, url |-> u] OBVIOUS
    <3>4. y \in [post : {s.post}, url : s.urls] BY <3>2, <3>3
    <3> QED BY <1>5, <2>2, <3>1, <3>3, <3>4
  <2>3. CASE ~(job'[s.by].pc = "drop" /\ x.post = s.post)
    <3>1. Lasting(r)'
      <4>1. ASSUME NEW k \in DOMAIN job, job'[k].pc = "drop", task(k).post = r.post PROVE r.url \notin job'[k].seen
        <5>1. k # s.by
          <6>1. task(s.by).post = s.post BY <1>1 DEF StmtOK
          <6> QED BY <2>1, <2>3, <4>1, <6>1
        <5> QED BY <1>3, <2>1, <4>1, <5>1 DEF Lasting
      <4>2. \A t \in pending' : t.kind = "drop" /\ t.post = r.post => r.url \notin t.urls BY <1>3, <2>1 DEF Lasting
      <4> QED BY <1>1, <4>1, <4>2 DEF Lasting
    <3>2. r \in rows'
      <4>1. s.kind \in {"insert", "attach", "drop", "write", "revise", "delete"} BY <1>1 DEF Stmt
      <4>2. CASE s.kind = "drop" BY <1>1, <1>3, <2>1, <4>2, TakesFields
      <4>3. CASE s.kind = "delete"
        <5>1. x.post # s.post BY <1>1, <1>3, <1>6, <4>3, TakesFields
        <5> QED BY <1>1, <1>3, <2>1, <4>3, <5>1, TakesFields
      <4>4. CASE s.kind \in {"insert", "attach", "write", "revise"} BY <1>1, <1>3, <2>1, <4>4, TakesFields
      <4> QED BY <4>1, <4>2, <4>3, <4>4
    <3> QED BY <2>1, <3>1, <3>2
  <2> QED BY <2>2, <2>3
<1>7. Covered'
  <2>1. ASSUME NEW x \in rows' PROVE \E r \in rows' : r.post = x.post /\ Lasting(r)'
    <3>1. CASE x \in rows
      <4>1. x.post \in posts' BY <2>1, TakingShape DEF Shape
      <4> QED BY <1>6, <3>1, <4>1
    <3>2. CASE s.kind \in {"insert", "attach"} /\ x \in [post : {s.post}, url : s.urls] BY <1>5, <3>2
    <3> QED BY <1>1, <1>3, <2>1, <3>1, <3>2, RowsAfter
  <2> QED BY <2>1 DEF Covered
<1> QED BY <1>6, <1>7

\* It keeps what the jobs rely on.
LEMMA TakingUploads ==
  ASSUME IInv, NEW s, Taking(s), NEW k \in DOMAIN job
  PROVE  UploadsOK(k)'
<1>1. /\ Shape /\ DOMAIN job' = DOMAIN job /\ cited' = cited /\ store' = store /\ asset' = asset
      /\ \A u : Listed(u)' <=> Listed(u)
      /\ task(k)' = task(k) /\ Uploads(k)' = Uploads(k)
  BY TakingFrame
<1>2. CASE k = s.by BY <1>2 DEF Taking
<1>3. CASE k # s.by
  <2>1. job'[k] = job[k] BY <1>3 DEF Taking
  <2>2. Working(k)' <=> Working(k) BY <2>1 DEF Working
  <2>3. UploadsOK(k) BY DEF IInv
  <2> QED BY <1>1, <2>1, <2>2, <2>3 DEF UploadsOK
<1> QED BY <1>2, <1>3

\* What a late batch brings is doubtful if its job has deleted it or may do so.
LEMMA LateDoubt ==
  ASSUME IInv, NEW s, Taking(s), s \in pending, s.kind = "insert", NEW u \in Brings(s),
         u \notin store \/ u \in job[s.by].scrap \/ (u = s.file /\ job[s.by].pc = "compare")
  PROVE  u \in doubtful'
<1>1. Shape /\ s \in Stmt /\ Takes(s) /\ s.by \in Job /\ u \in Mine(s.by) BY TakingFrame DEF Taking
<1>2. u # None BY <1>1, Urls
<1>3. u \in s.urls \union {s.file} BY DEF Brings
<1>4. Doubt(s) = {v \in s.urls \union {s.file} :
            v \notin store \/ v \in job[s.by].scrap \/ (v = s.file /\ job[s.by].pc = "compare")}
  BY DEF Doubt
<1>5. u \in Doubt(s) BY <1>3, <1>4
<1> QED BY <1>1, <1>2, <1>5, TakesFields

\* It makes content refer to nothing that a job deletes, except as doubtful.
LEMMA TakingScrap ==
  ASSUME IInv, NEW s, Taking(s), NEW k \in DOMAIN job
  PROVE  ScrapOK(k)'
<1>1. /\ Shape /\ s \in Stmt /\ StmtOK(s) /\ s.by \in DOMAIN job /\ s.by \in Job /\ DOMAIN job' = DOMAIN job
      /\ \A u : Listed(u)' <=> Listed(u)
      /\ task(k)' = task(k) /\ Uploads(k)' = Uploads(k) /\ job'[k].scrap = job[k].scrap /\ job'[k].seen = job[k].seen
      /\ Taken(k)' = Taken(k)
      /\ \A u \in Brings(s) : u \in Mine(s.by) /\ u \in Url /\ u \notin Old /\ Listed(u)
  BY TakingFrame
<1>2. ScrapOK(k) /\ k \in Job /\ Uploads(k) \subseteq Mine(k) /\ Mine(k) \subseteq Url /\ None \notin Mine(k) /\ None \notin Old
  BY <1>1, Tasks, Urls DEF IInv
<1>3. Takes(s) BY DEF Taking
<1>4. doubtful \ {None} \subseteq doubtful' BY <1>1, <1>3, TakesFields
<1>5. {u \in Old : ~Listed(u)}' = {u \in Old : ~Listed(u)} BY <1>1
<1>6. s.by # k => \A u \in Mine(k) : u \notin Brings(s) BY <1>1, <1>2, Urls
<1>7. s.by = k => \/ job[k].scrap = {} /\ job'[k].pc # "compare"
                  \/ s \in pending /\ job' = job
  BY DEF Taking
<1>8. task(s.by).kind = "create" => s.kind = "insert" BY <1>1 DEF StmtOK, Kinds
<1>9. ASSUME NEW u \in job[k].scrap, u \in Referenced' PROVE u \in doubtful'
  <2>1. u \in Old \/ (task(k).kind = "create" /\ u \in Mine(k)) BY <1>2, <1>9 DEF ScrapOK
  <2>2. u # None BY <1>2, <2>1
  <2>3. CASE u \in Referenced BY <1>2, <1>4, <1>9, <2>2, <2>3 DEF ScrapOK
  <2>4. CASE u \in Brings(s)
    <3>1. task(k).kind = "create" /\ u \in Mine(k) /\ s.by = k BY <1>1, <1>6, <2>1, <2>4
    <3>2. s \in pending /\ s.kind = "insert" BY <1>7, <1>8, <1>9, <3>1
    <3> QED BY <1>9, <2>4, <3>1, <3>2, LateDoubt
  <2> QED BY <1>9, <2>2, <2>3, <2>4, NewRefs
<1>10. ASSUME job'[k].pc = "compare", <<k, 0>> \in Uploads(k), <<k, 0>> \in Referenced'
       PROVE  <<k, 0>> \in job[k].seen \union doubtful'
  <2>1. job[k].pc = "compare" BY <1>7, <1>10 DEF Taking
  <2>2. <<k, 0>> \in Mine(k) /\ <<k, 0>> # None BY <1>2, <1>10
  <2>3. CASE <<k, 0>> \in Referenced BY <1>2, <1>4, <1>10, <2>1, <2>2, <2>3 DEF ScrapOK
  <2>4. CASE <<k, 0>> \in Brings(s)
    <3>1. s.by = k /\ s \in pending BY <1>6, <1>7, <1>10, <2>2, <2>4
    <3>2. task(k).kind = "create"
      <4>1. UploadsOK(k) /\ job[k].pc \notin InBrowser BY <2>1 DEF IInv, InBrowser
      <4>2. "compare" \in Path(task(k).kind) BY <2>1, <4>1 DEF UploadsOK
      <4>3. task(k).kind \in {"create", "replace", "save", "delete", "add", "revise", "withdraw"} BY <1>1, Tasks
      <4> QED BY <4>2, <4>3 DEF Path
    <3>3. s.kind = "insert" BY <1>8, <3>1, <3>2
    <3>4. <<k, 0>> = s.file
      <4>1. ~RowOf(s.post, <<k, 0>>)
        <5>1. <<k, 0>> \notin Old BY <1>1, <2>4
        <5> QED BY <5>1 DEF RowOf
      <4>2. <<k, 0>> \notin s.urls BY <1>1, <3>3, <4>1 DEF StmtOK
      <4> QED BY <2>4, <4>2 DEF Brings
    <3> QED BY <2>1, <2>4, <3>1, <3>3, <3>4, LateDoubt
  <2> QED BY <1>10, <2>2, <2>3, <2>4, NewRefs
<1>11. ASSUME job'[k].pc = "owned", NEW u \in Taken(k), u \in Referenced', ~Listed(u) PROVE u \in doubtful'
  <2>1. CASE k = s.by BY <1>11, <2>1 DEF Taking
  <2>2. CASE k # s.by
    <3>1. job[k].pc = "owned" BY <1>11, <2>2 DEF Taking
    <3>2. u # None BY <1>11 DEF Taken
    <3>3. u \notin Brings(s) BY <1>1, <1>11
    <3>4. CASE u \in Referenced BY <1>2, <1>4, <1>11, <3>1, <3>2, <3>4 DEF ScrapOK
    <3> QED BY <1>11, <3>2, <3>3, <3>4, NewRefs
  <2> QED BY <2>1, <2>2
<1>12. job'[k].scrap # {} => job'[k].pc \in {"discard", "done"} BY <1>1, <1>2 DEF Taking, ScrapOK
<1>13. job'[k].scrap \subseteq {u \in Old : ~Listed(u)'} \union (IF task(k)'.kind = "create" THEN Uploads(k)' ELSE {})
  BY <1>1, <1>2, <1>5 DEF ScrapOK
<1>14. job'[k].scrap \intersect Referenced' \subseteq doubtful' BY <1>1, <1>9
<1>15. job'[k].pc = "compare" => ({<<k, 0>>} \intersect Uploads(k)') \intersect Referenced' \subseteq job'[k].seen \union doubtful'
  BY <1>1, <1>10
<1>16. job'[k].pc = "owned" => \A u \in Taken(k)' : u \in Referenced' /\ ~Listed(u)' => u \in doubtful' BY <1>1, <1>11
<1> QED BY <1>12, <1>13, <1>14, <1>15, <1>16 DEF ScrapOK

\* It keeps every unregistered object known of.
LEMMA TakingTraced ==
  ASSUME IInv, NEW s, Taking(s)
  PROVE  Traced'
<1>1. /\ Shape /\ DOMAIN job' = DOMAIN job /\ s.by \in DOMAIN job /\ Kept' = Kept /\ store' = store /\ asset' = asset
      /\ \A u : Listed(u)' <=> Listed(u)
      /\ \A k \in DOMAIN job : /\ task(k)' = task(k) /\ Taken(k)' = Taken(k) /\ job'[k].scrap = job[k].scrap
                               /\ job'[k].up = job[k].up /\ job'[k].seen = job[k].seen /\ job'[k].file = job[k].file
  BY TakingFrame
<1>2. Traced BY DEF IInv
<1>3. /\ blamed \subseteq blamed' /\ pending' \subseteq pending
      /\ \A k \in DOMAIN job \ {s.by} : job'[k] = job[k]
      /\ job'[s.by].pc \notin AfterRead /\ job[s.by].pc \notin {"upload", "owned"}
      /\ job[s.by].pc = "discard" => job'[s.by].pc = "discard"
      /\ Told
  BY DEF Taking
<1>4. \A u : Held(u) => Held(u)'
  <2>1. \A k \in DOMAIN job : /\ job[k].pc = "owned" => job'[k].pc = "owned"
                              /\ job[k].pc = "discard" => job'[k].pc = "discard"
    BY <1>3
  <2> QED BY <1>1, <2>1 DEF Held
<1>5. \A k \in DOMAIN job : job'[k].pc \in AfterRead => job'[k] = job[k] BY <1>3
<1>6. \A r : RowSafe(r) => RowSafe(r)'
  <2>1. \A k \in DOMAIN job : job'[k].pc = "delete" => job'[k] = job[k] BY <1>5 DEF AfterRead
  <2> QED BY <1>1, <1>3, <2>1 DEF RowSafe
<1>7. ASSUME NEW u \in store \intersect Old, ~Listed(u), u \notin blamed', u \notin Kept
      PROVE  Held(u)' \/ InRow(u)' \/ InText(u)'
  <2>1. Held(u) \/ InRow(u) \/ InText(u) BY <1>2, <1>3, <1>7 DEF Traced
  <2>2. CASE InRow(u)
    <3>1. PICK r \in rows : r.url = u /\ RowSafe(r) BY <2>2 DEF InRow, RowSafe
    <3>2. CASE r \in rows' BY <1>6, <3>1, <3>2 DEF InRow, RowSafe
    <3>3. CASE r \notin rows' BY <1>3, <1>7, <3>1, <3>3 DEF Told
    <3> QED BY <3>2, <3>3
  <2>3. CASE InText(u)
    <3>1. PICK p \in posts : file[p] = u /\ TextSafe(p) BY <2>3 DEF InText, TextSafe, AfterRead
    <3>2. CASE p \in posts' /\ file'[p] = u
      <4>1. \A k \in DOMAIN job : job'[k].pc \in AfterRead /\ task(k)'.kind \in {"save", "delete"} /\ task(k)'.post = p => job'[k].file = u
        BY <1>1, <1>5, <3>1 DEF TextSafe
      <4>2. \A t \in pending' : t.post = p => t.kind \notin {"write", "delete"} BY <1>3, <3>1 DEF TextSafe
      <4> QED BY <1>1, <3>2, <4>1, <4>2 DEF InText, AfterRead
    <3>3. CASE ~(p \in posts' /\ file'[p] = u) BY <1>3, <1>7, <3>1, <3>3 DEF Told
    <3> QED BY <3>2, <3>3
  <2> QED BY <1>4, <2>1, <2>2, <2>3
<1>8. ASSUME NEW u \in store \ Old, ~Listed(u), u \notin blamed'
      PROVE  \E k \in DOMAIN job : \E i \in task(k).files :
                u = <<k, i>> /\ job'[k].pc = "upload" /\ job'[k].up[i] \in {"put", "undo"}
  <2>1. PICK k \in DOMAIN job : \E i \in task(k).files :
          u = <<k, i>> /\ job[k].pc = "upload" /\ job[k].up[i] \in {"put", "undo"}
    BY <1>2, <1>3, <1>8 DEF Traced
  <2>2. job'[k] = job[k] BY <1>3, <2>1
  <2> QED BY <2>1, <2>2
<1> QED BY <1>1, <1>2, <1>7, <1>8 DEF Traced

\* It makes content refer to nothing that is not stored, except as doubtful.
LEMMA TakingKept ==
  ASSUME IInv, NEW s, Taking(s)
  PROVE  FilesKept'
<1>1. Shape /\ s \in Stmt /\ StmtOK(s) /\ store' = store /\ Takes(s) BY TakingFrame DEF Taking
<1>2. FilesKept BY DEF IInv
<1>3. doubtful \ {None} \subseteq doubtful' BY <1>1, TakesFields
<1>4. ASSUME NEW u \in Referenced', u # None PROVE u \in store \union doubtful'
  <2>1. CASE u \in Referenced BY <1>2, <1>3, <1>4, <2>1 DEF FilesKept
  <2>2. CASE u \in Brings(s)
    <3>1. Brings(s) \subseteq store \/ s \in pending BY DEF Taking
    <3>2. CASE s.kind # "insert" BY <1>1, <2>2, <3>2 DEF StmtOK
    <3>3. CASE s.kind = "insert" /\ s \in pending BY <2>2, <3>3, LateDoubt
    <3> QED BY <2>2, <3>1, <3>2, <3>3
  <2> QED BY <1>4, <2>1, <2>2, NewRefs
<1> QED BY <1>1, <1>4 DEF FilesKept

\* A statement that takes effect keeps the invariant.
LEMMA TakingIInv ==
  ASSUME IInv, NEW s, Taking(s)
  PROVE  IInv'
<1>1. DOMAIN job' = DOMAIN job BY TakingFrame
<1>2. \A k \in DOMAIN job : UploadsOK(k)' /\ ScrapOK(k)' BY TakingUploads, TakingScrap
<1>3. Shape' /\ Named' /\ PendingOK' BY TakingShape, TakingNamed, TakingPending
<1>4. Unborn' /\ Unlanded' /\ Covered' BY TakingUnborn, TakingUnlanded, TakingCovered
<1>5. SweepOK'
  <2>1. sweep' = sweep /\ sweep.pc = "idle" BY DEF Taking
  <2>2. sweep.list = {} BY <2>1 DEF IInv, SweepOK
  <2> QED BY <2>1, <2>2 DEF SweepOK
<1>6. Traced' /\ FilesKept' BY TakingTraced, TakingKept
<1> QED BY <1>1, <1>2, <1>3, <1>4, <1>5, <1>6 DEF IInv

\* A file that was never registered is named in one place only.
LEMMA OldOnce ==
  ASSUME Shape, NEW u \in Old, ~Listed(u), NEW p \in Post
  PROVE  /\ RowOf(p, u) => /\ \A q : RowOf(q, u) => q = p
                           /\ \A q \in Post : ~FileOf(q, u)
         /\ FileOf(p, u) => /\ \A q \in Post : FileOf(q, u) => q = p
                            /\ \A q : ~RowOf(q, u)
<1>1. Possible(plan) /\ u \notin plan.listed BY DEF Shape
<1>2. u # None /\ None \notin Old
  <2>1. None \notin Url /\ u \in Url /\ Old \subseteq Url BY ContentAssumption DEF Url
  <2> QED BY <2>1
<1>3. \A q : RowOf(q, u) => \E r \in plan.rows : r.post = q /\ r.url = u
  <2>1. ASSUME NEW q, RowOf(q, u) PROVE \E r \in plan.rows : r.post = q /\ r.url = u
    <3>1. Row(q, {u}) \subseteq plan.rows BY <2>1 DEF RowOf
    <3>2. PICK r : r = [post |-> q, url |-> u] OBVIOUS
    <3>3. r \in Row(q, {u}) /\ r.post = q /\ r.url = u BY <3>2 DEF Row
    <3> QED BY <3>1, <3>3
  <2> QED BY <2>1
<1>4. \A q : FileOf(q, u) => u = plan.file[q] BY <1>2 DEF FileOf
<1>5. \A r \in plan.rows : r.url \notin plan.listed =>
        /\ \A x \in plan.rows : x.url = r.url => x = r
        /\ \A q \in Post : plan.file[q] # r.url
  BY <1>1 DEF Possible
<1>6. \A a, b \in Post : plan.file[a] = plan.file[b] /\ plan.file[a] \notin plan.listed \union {None} => a = b
  BY <1>1 DEF Possible
<1>7. plan.rows \subseteq [post : plan.posts, url : Old] /\ plan.posts \subseteq Post BY <1>1 DEF Possible
<1>8. ASSUME RowOf(p, u) PROVE (\A q : RowOf(q, u) => q = p) /\ \A q \in Post : ~FileOf(q, u)
  <2>1. PICK r \in plan.rows : r.post = p /\ r.url = u BY <1>3, <1>8
  <2>2. \A x \in plan.rows : x.url = u => x = r BY <1>1, <1>5, <2>1
  <2>3. \A q : RowOf(q, u) => q = p BY <1>3, <2>1, <2>2
  <2>4. \A q \in Post : plan.file[q] # u BY <1>1, <1>5, <2>1
  <2> QED BY <1>4, <2>3, <2>4
<1>9. ASSUME FileOf(p, u) PROVE (\A q \in Post : FileOf(q, u) => q = p) /\ \A q : ~RowOf(q, u)
  <2>1. u = plan.file[p] BY <1>4, <1>9
  <2>2. \A q \in Post : FileOf(q, u) => q = p BY <1>1, <1>2, <1>4, <1>6, <2>1
  <2>3. ASSUME NEW q, RowOf(q, u) PROVE FALSE
    <3>1. PICK r \in plan.rows : r.post = q /\ r.url = u BY <1>3, <2>3
    <3>2. \A a \in Post : plan.file[a] # u BY <1>1, <1>5, <3>1
    <3> QED BY <2>1, <3>2
  <2> QED BY <2>2, <2>3
<1> QED BY <1>8, <1>9

\* What still refers to such a file after a statement did so before.
LEMMA OldRefs ==
  ASSUME IInv, NEW s \in Stmt, StmtOK(s), Fits(s), Takes(s), cited' = cited,
         NEW u \in Old, ~Listed(u), u \in Referenced'
  PROVE  \/ \E r \in rows' : r \in rows /\ r.url = u /\ RowOf(r.post, u)
         \/ \E p \in posts' : p \in Post /\ file'[p] = u /\ FileOf(p, u)
<1>1. Shape /\ Named /\ s.by \in DOMAIN job BY DEF IInv, StmtOK
<1>2. s.by \in Job /\ s.post \in Post BY <1>1, Tasks DEF Stmt
<1>3. u \notin Mine(s.by) /\ u # None
  <2>1. None \notin Url /\ u \in Url BY ContentAssumption DEF Url
  <2> QED BY <1>2, <2>1, Urls
<1>4. u \notin cited BY <1>1 DEF Named
<1>5. ASSUME NEW r \in rows', r.url = u PROVE r \in rows /\ RowOf(r.post, u)
  <2>1. CASE r \in rows BY <1>1, <1>5, <2>1 DEF Named
  <2>2. CASE s.kind \in {"insert", "attach"} /\ r \in [post : {s.post}, url : s.urls]
    <3>1. u \in Brings(s) BY <1>5, <2>2 DEF Brings
    <3> QED BY <1>3, <3>1 DEF StmtOK
  <2> QED BY <1>1, <1>5, <2>1, <2>2, RowsAfter
<1>6. ASSUME NEW p \in posts', file'[p] = u PROVE p \in Post /\ FileOf(p, u)
  <2>1. p \in Post BY <1>1, <1>2, <1>6, TakesFields DEF Shape
  <2>2. CASE p # s.post BY <1>1, <1>6, <2>1, <2>2, TakesFields DEF Named
  <2>3. CASE p = s.post
    <3>1. u = s.file \/ u = file[p] BY <1>1, <1>3, <1>6, <2>3, TakesFields
    <3>2. FileOf(p, s.file) /\ FileOf(p, file[p]) BY <1>1, <2>1, <2>3 DEF Named, StmtOK
    <3> QED BY <2>1, <3>1, <3>2
  <2> QED BY <2>2, <2>3
<1> QED BY <1>4, <1>5, <1>6 DEF Referenced

\* What a statement takes away.
LEMMA Losses ==
  ASSUME Shape, NEW s \in Stmt, Fits(s), Takes(s)
  PROVE  /\ \A r \in rows \ rows' : r.post = s.post /\ (s.kind = "delete" \/ (s.kind = "drop" /\ r.url \in s.urls))
         /\ \A p \in posts : (p \in posts' => file'[p] # file[p]) =>
              p = s.post /\ (s.kind = "delete" \/ (s.kind \in {"write", "revise"} /\ s.file # file[p]))
<1>1. s.kind \in {"insert", "attach", "drop", "write", "revise", "delete"} BY DEF Stmt
<1>2. ASSUME NEW r \in rows \ rows'
      PROVE  r.post = s.post /\ (s.kind = "delete" \/ (s.kind = "drop" /\ r.url \in s.urls))
  <2>1. CASE s.kind = "drop" BY <1>2, <2>1, TakesFields
  <2>2. CASE s.kind = "delete" BY <1>2, <2>2, TakesFields
  <2>3. CASE s.kind \in {"insert", "attach", "write", "revise"} BY <1>2, <2>3, TakesFields
  <2> QED BY <1>1, <2>1, <2>2, <2>3
<1>3. ASSUME NEW p \in posts, p \in posts' => file'[p] # file[p]
      PROVE  p = s.post /\ (s.kind = "delete" \/ (s.kind \in {"write", "revise"} /\ s.file # file[p]))
  <2>1. p \in Post BY DEF Shape
  <2>2. p \in posts' \/ (s.kind = "delete" /\ p = s.post) BY <1>3, TakesFields
  <2>3. CASE p # s.post BY <1>3, <2>1, <2>2, <2>3, TakesFields
  <2>4. CASE p = s.post
    <3>1. s.kind # "insert" BY <2>4 DEF Fits
    <3> QED BY <1>1, <1>3, <2>2, <2>4, <3>1, TakesFields
  <2> QED BY <2>3, <2>4
<1> QED BY <1>2, <1>3

\* A statement given up that takes effect after all.
LEMMA LateTaking ==
  ASSUME IInv, NEW s \in pending, Late(s), Fits(s), Takes(s)
  PROVE  Taking(s)
<1>1. Shape /\ PendingOK /\ Unborn /\ Unlanded /\ SweepOK BY DEF IInv
<1>2. /\ pending' = pending \ {s}
      /\ UNCHANGED <<plan, cited, ledger, store, job, sweep, blamed>>
  BY DEF Late
<1>3. /\ s \in Stmt /\ StmtOK(s) /\ s.by \in DOMAIN job /\ job[s.by].pc \in {"verify", "compare", "discard", "done"}
      /\ \A t \in pending : s.by = t.by => s = t
  BY <1>1 DEF Shape, PendingOK, StmtOK
<1>4. SamePlan BY <1>1, <1>2, SamePlanIfUnchanged
<1>5. DOMAIN job' = DOMAIN job /\ job' \in [DOMAIN job -> Place] BY <1>1, <1>2 DEF Shape
<1>6. sweep.pc = "idle" BY <1>1 DEF SweepOK, Quiet
<1>7. \A t \in pending' : t.by # s.by BY <1>2, <1>3
<1>8. \A k \in DOMAIN job : job'[k].pc \in Early =>
       job[k].pc \in Early /\ \A u \in Mine(k) : u # s.file /\ u \notin s.urls
  BY <1>1, <1>2 DEF Unborn
<1>9. s.kind \in {"insert", "attach"} => \A u \in s.urls :
       /\ \A k \in DOMAIN job : task(k).kind = "replace" => u \notin job[k].seen
       /\ \A t \in pending : t.kind = "drop" => u \notin t.urls
  BY <1>1 DEF Unlanded
<1>10. s.kind = "drop" => \A r : Lasting(r) /\ r.post = s.post => r.url \notin s.urls BY DEF Lasting
<1>11. job'[s.by].scrap # {} => job'[s.by].pc \in {"discard", "done"} BY <1>2, <1>3 DEF IInv, ScrapOK
<1>12. UploadsOK(s.by)'
  <2>1. UploadsOK(s.by) BY <1>3 DEF IInv
  <2>2. task(s.by)' = task(s.by) /\ Uploads(s.by)' = Uploads(s.by) BY <1>1, <1>3, <1>4, <1>5, SameTasks
  <2>3. \A u : Listed(u)' <=> Listed(u) BY <1>2, LedgerStays
  <2>4. asset' = asset /\ job' = job /\ cited' = cited /\ store' = store BY <1>2 DEF ledger
  <2>5. Working(s.by)' <=> Working(s.by) BY <2>4 DEF Working
  <2> QED BY <2>1, <2>2, <2>3, <2>4, <2>5 DEF UploadsOK
<1>13. Told
  <2>1. ASSUME NEW u \in Old, u \notin Kept, NEW r \in rows \ rows', r.url = u, RowSafe(r) PROVE FALSE
    <3>1. r.post = s.post /\ (s.kind = "delete" \/ (s.kind = "drop" /\ r.url \in s.urls)) BY <1>1, <1>3, <2>1, Losses
    <3> QED BY <2>1, <3>1 DEF RowSafe
  <2>2. ASSUME NEW u \in Old, u \notin Kept, NEW p \in posts, file[p] = u, TextSafe(p), p \in posts' => file'[p] # u PROVE FALSE
    <3>1. p = s.post /\ (s.kind = "delete" \/ s.kind \in {"write", "revise"}) BY <1>1, <1>3, <2>2, Losses
    <3>2. s.kind = "revise"  BY <2>2, <3>1 DEF TextSafe
    <3>3. task(s.by).kind = "revise"
      <4>1. s.kind \in Kinds(task(s.by).kind) BY <1>3 DEF StmtOK
      <4> QED BY <3>2, <4>1 DEF Kinds
    <3> QED BY <1>3, <2>2, <3>3 DEF Kept
  <2> QED BY <2>1, <2>2 DEF Told
<1>14. job[s.by].pc \notin AfterRead /\ job[s.by].pc \notin {"upload", "owned", "drop"} BY <1>3 DEF AfterRead
<1> QED BY <1>2, <1>3, <1>4, <1>5, <1>6, <1>7, <1>8, <1>9, <1>10, <1>11, <1>12, <1>13, <1>14 DEF Taking

\* What a job finds that it took away, nothing refers to any more.
LEMMA OwnedGone ==
  ASSUME IInv, NEW j \in DOMAIN job, job[j].pc \in {"drop", "write", "delete"}, NEW s, s = Statement(j), Fits(s), Takes(s),
         cited' = cited, job[j].pc = "write" => task(j).kind = "save" /\ Doc(j) # None,
         NEW u \in Taken(j), u \in Referenced'
  PROVE  Listed(u)
<1>1. Shape /\ Named BY DEF IInv
<1>2. /\ s.by = j /\ s.post = task(j).post
      /\ s.kind = (IF task(j).kind = "revise" THEN "revise" ELSE job[j].pc)
      /\ s.urls = (IF job[j].pc = "drop" THEN job[j].seen ELSE Images(j))
      /\ s.file = (IF Doc(j) = None THEN job[j].file ELSE Doc(j))
  BY StatementFields
<1>3. job[j].pc \in Sending BY DEF Sending
<1>4. s \in Stmt /\ StmtOK(s) BY <1>3, StatementOK
<1>5. /\ job[j].pc \in {"attach", "drop"} => task(j).kind = "replace"
      /\ job[j].pc = "write" => task(j).kind \in {"save", "revise"}
      /\ job[j].pc = "delete" => task(j).kind \in {"delete", "withdraw"}
  BY <1>3, SendingKinds
<1>6. j \in Job /\ task(j).post \in Post /\ Mine(j) \intersect Old = {} /\ <<j, 0>> \in Mine(j)
      /\ (Doc(j) = None \/ Doc(j) = <<j, 0>>)
  BY <1>1, Tasks, Urls
<1>7. SUFFICES ASSUME ~Listed(u) PROVE FALSE OBVIOUS
<1>8. /\ u # None
      /\ \/ task(j).kind # "save" /\ u \in job[j].seen
         \/ task(j).kind # "replace" /\ u = job[j].file
  BY DEF Taken
<1>9. task(j).kind # "create" BY <1>5
<1>10. \/ task(j).kind # "save" /\ u \in job[j].seen /\ RowOf(task(j).post, u)
       \/ task(j).kind # "replace" /\ u = job[j].file /\ FileOf(task(j).post, u)
  BY <1>1, <1>8, <1>9 DEF Named
<1>11. u \in Old BY <1>7, <1>8, <1>10 DEF RowOf, FileOf
<1>12. CASE \E r \in rows' : r \in rows /\ r.url = u /\ RowOf(r.post, u)
  <2>1. PICK r \in rows' : r \in rows /\ r.url = u /\ RowOf(r.post, u) BY <1>12
  <2>2. task(j).kind # "save" /\ u \in job[j].seen /\ r.post = task(j).post
    BY <1>1, <1>6, <1>7, <1>10, <1>11, <2>1, OldOnce
  <2>3. CASE job[j].pc = "drop" BY <1>1, <1>2, <1>4, <1>5, <2>1, <2>2, <2>3, TakesFields
  <2>4. CASE job[j].pc = "delete" BY <1>1, <1>2, <1>4, <1>5, <2>1, <2>2, <2>4, TakesFields
  <2>5. CASE job[j].pc = "write" BY <2>2, <2>5
  <2> QED BY <2>3, <2>4, <2>5
<1>13. CASE \E p \in posts' : p \in Post /\ file'[p] = u /\ FileOf(p, u)
  <2>1. PICK p \in posts' : p \in Post /\ file'[p] = u /\ FileOf(p, u) BY <1>13
  <2>2. ~RowOf(task(j).post, u) BY <1>1, <1>6, <1>7, <1>11, <2>1, OldOnce
  <2>3. task(j).kind # "replace" /\ u = job[j].file /\ FileOf(task(j).post, u) BY <1>10, <2>2
  <2>4. p = task(j).post BY <1>1, <1>6, <1>7, <1>11, <2>1, <2>3, OldOnce
  <2>5. CASE job[j].pc = "drop" BY <1>5, <2>3, <2>5
  <2>6. CASE job[j].pc = "delete"
    <3>1. s.kind = "delete" BY <1>2, <1>5, <2>6
    <3> QED BY <1>1, <1>2, <1>4, <2>1, <2>4, <3>1, TakesFields
  <2>7. CASE job[j].pc = "write"
    <3>1. s.kind = "write" /\ s.file = <<j, 0>> BY <1>2, <1>6, <2>7
    <3>2. s.post \in posts' /\ posts' = posts BY <1>1, <1>2, <1>4, <2>1, <2>4, <3>1, TakesFields
    <3>3. file'[p] = <<j, 0>> BY <1>1, <1>2, <1>4, <2>4, <3>1, <3>2, TakesFields
    <3> QED BY <1>6, <1>11, <2>1, <3>3
  <2> QED BY <2>5, <2>6, <2>7
<1> QED BY <1>4, <1>7, <1>11, <1>12, <1>13, OldRefs

\* What a job that sent its statement takes away it goes on to ask about, or a
\* failure is on record.
Learns(j, x) ==
  /\ job[j].pc = "drop" => x = "owned" \/ job[j].seen \subseteq blamed'
  /\ job[j].pc = "delete" => task(j).kind = "withdraw" \/ x = "owned" \/ job[j].seen \union {job[j].file} \subseteq blamed'
  /\ job[j].pc = "write" => \/ task(j).kind = "revise" \/ x = "owned" \/ job[j].file \in blamed'
                            \/ Doc(j) = None \/ job[j].file = None

\* Where a job is after its statement.
NextPc(j, x) ==
  /\ x \in {"done", "verify", "drop", "owned"}
  /\ x = "verify" => task(j).kind = "create"
  /\ x = "drop" => job[j].pc = "attach"
  /\ x = "owned" => /\ job[j].pc \in {"drop", "write", "delete"}
                    /\ task(j).kind \in {"replace", "save", "delete"}
                    /\ job[j].pc = "write" => Doc(j) # None

\* Of what an answered statement took out of content, its job or a failure tells.
LEMMA SentTold ==
  ASSUME IInv, NEW j \in DOMAIN job, job[j].pc \in Sending, NEW s, s = Statement(j), NEW x \in Pcs, Go(j, x),
         Fits(s), Takes(s), SamePlan, Learns(j, x), NextPc(j, x)
  PROVE  Told
<1>1. Shape /\ Named BY DEF IInv
<1>2. /\ s.by = j /\ s.post = task(j).post
      /\ s.kind = (IF task(j).kind = "revise" THEN "revise" ELSE job[j].pc)
      /\ s.urls = (IF job[j].pc = "drop" THEN job[j].seen ELSE Images(j))
      /\ s.file = (IF Doc(j) = None THEN job[j].file ELSE Doc(j))
  BY StatementFields
<1>3. s \in Stmt /\ StmtOK(s) BY StatementOK
<1>4. /\ job[j].pc = "insert" => task(j).kind \in {"create", "add"}
      /\ job[j].pc \in {"attach", "drop"} => task(j).kind = "replace"
      /\ job[j].pc = "write" => task(j).kind \in {"save", "revise"}
      /\ job[j].pc = "delete" => task(j).kind \in {"delete", "withdraw"}
  BY SendingKinds
<1>5. DOMAIN job' = DOMAIN job /\ job'[j].pc = x /\ job'[j].seen = job[j].seen /\ job'[j].file = job[j].file
  BY <1>1, GoFields
<1>6. Taken(j)' = Taken(j) BY <1>1, <1>5, SameTaken
<1>7. x = "owned" => \A u \in Taken(j) : Held(u)' BY <1>5, <1>6 DEF Held
<1>8. ASSUME NEW u \in Old PROVE u # None /\ u \notin {<<k, 0>> : k \in {y \in DOMAIN job : task(y).direct}}
  <2>1. None \notin Url /\ u \in Url BY ContentAssumption DEF Url
  <2>2. \A k \in DOMAIN job : k \in Job BY <1>1, Tasks
  <2>3. \A k \in Job : <<k, 0>> \in Mine(k) /\ Mine(k) \intersect Old = {} BY Urls
  <2> QED BY <2>1, <2>2, <2>3
<1>9. ASSUME NEW u \in Old, u \notin Kept, NEW r \in rows \ rows', r.url = u, RowSafe(r), u \notin blamed' PROVE Held(u)'
  <2>1. r.post = s.post /\ (s.kind = "delete" \/ (s.kind = "drop" /\ r.url \in s.urls)) BY <1>1, <1>3, <1>9, Losses
  <2>2. CASE s.kind = "drop"
    <3>1. job[j].pc = "drop" /\ u \in job[j].seen /\ task(j).kind = "replace" BY <1>2, <1>4, <1>9, <2>1, <2>2
    <3>2. x = "owned" BY <1>9, <3>1 DEF Learns
    <3>3. u \in Taken(j) BY <1>8, <3>1 DEF Taken
    <3> QED BY <1>7, <3>2, <3>3
  <2>3. CASE s.kind = "delete"
    <3>1. job[j].pc = "delete" BY <1>2, <2>3
    <3>2. u \in job[j].seen BY <1>2, <1>9, <2>1, <3>1 DEF RowSafe
    <3>3. task(j).kind = "delete" BY <1>4, <1>9, <3>1 DEF Kept
    <3>4. x = "owned" BY <1>9, <3>1, <3>2, <3>3 DEF Learns
    <3>5. u \in Taken(j) BY <1>8, <3>2, <3>3 DEF Taken
    <3> QED BY <1>7, <3>4, <3>5
  <2> QED BY <2>1, <2>2, <2>3
<1>10. ASSUME NEW u \in Old, u \notin Kept, NEW p \in posts, file[p] = u, TextSafe(p), p \in posts' => file'[p] # u,
              u \notin blamed'
       PROVE  Held(u)'
  <2>1. p = s.post /\ (s.kind = "delete" \/ (s.kind \in {"write", "revise"} /\ s.file # u))
    BY <1>1, <1>3, <1>10, Losses
  <2>2. task(j).kind \notin {"revise", "withdraw"} BY <1>10 DEF Kept
  <2>3. job[j].pc = s.kind /\ s.kind \in {"delete", "write"} BY <1>2, <1>4, <2>1, <2>2 DEF Sending
  <2>4. task(j).kind \in {"save", "delete"} /\ task(j).post = p BY <1>2, <1>4, <2>1, <2>2, <2>3
  <2>5. job[j].file = u BY <1>10, <2>3, <2>4 DEF TextSafe, AfterRead
  <2>6. job[j].pc = "write" => Doc(j) # None BY <1>2, <2>1, <2>3, <2>5
  <2>7. x = "owned" BY <1>8, <1>10, <2>2, <2>3, <2>5, <2>6 DEF Learns
  <2>8. u \in Taken(j) BY <1>8, <2>4, <2>5 DEF Taken
  <2> QED BY <1>7, <2>7, <2>8
<1> QED BY <1>9, <1>10 DEF Told

\* What a job relies on after its statement.
LEMMA SentUploads ==
  ASSUME IInv, NEW j \in DOMAIN job, job[j].pc \in Sending, NEW x \in Pcs, Go(j, x), SamePlan,
         UNCHANGED <<cited, ledger>>, NextPc(j, x)
  PROVE  UploadsOK(j)'
<1>1. Shape /\ UploadsOK(j) BY DEF IInv
<1>2. DOMAIN job' = DOMAIN job /\ job'[j].pc = x /\ job'[j].up = job[j].up BY <1>1, GoFields
<1>3. Working(j) /\ (job[j].pc \in {"attach", "drop"} => task(j).kind = "replace") BY SendingKinds
<1>4. cited' = cited /\ asset' = asset /\ \A u : Listed(u)' <=> Listed(u) BY LedgerStays
<1>5. CASE x = "drop"
  <2>1. task(j)' = task(j) /\ Uploads(j)' = Uploads(j) BY <1>1, <1>2, SameTasks
  <2>2. job[j].pc = "attach" /\ task(j).kind = "replace" BY <1>3, <1>5 DEF NextPc
  <2>3. "drop" \in Path(task(j).kind) BY <2>2 DEF Path
  <2> QED BY <1>1, <1>2, <1>3, <1>4, <1>5, <2>1, <2>2, <2>3 DEF UploadsOK
<1>6. CASE x # "drop"
  <2>1. x \in {"done", "verify", "owned"} BY <1>6 DEF NextPc
  <2>2. x \in InBrowser \union Path(task(j).kind)
    <3>1. "done" \in InBrowser BY DEF InBrowser
    <3>2. x = "verify" => x \in Path(task(j).kind) BY DEF NextPc, Path
    <3>3. x = "owned" => x \in Path(task(j).kind) BY DEF NextPc, Path
    <3> QED BY <2>1, <3>1, <3>2, <3>3
  <2>3. job[j].pc # "done" BY DEF Sending
  <2> QED BY <1>2, <1>3, <1>4, <2>1, <2>2, <2>3, LateUploads
<1> QED BY <1>5, <1>6

\* A statement takes effect, answered or not, while its job waits.
LEMMA SentTaking ==
  ASSUME IInv, NEW j \in DOMAIN job, job[j].pc \in Sending, NEW s, s = Statement(j), NEW x \in Pcs, Go(j, x),
         Fits(s), Takes(s), UNCHANGED pending, UNCHANGED <<cited, ledger, store, sweep>>,
         SamePlan, blamed \subseteq blamed', Learns(j, x), NextPc(j, x)
  PROVE  Taking(s)
<1>1. Shape BY DEF IInv
<1>2. /\ s.by = j /\ s.post = task(j).post
      /\ s.kind = (IF task(j).kind = "revise" THEN "revise" ELSE job[j].pc)
      /\ s.urls = (IF job[j].pc = "drop" THEN job[j].seen ELSE Images(j))
  BY StatementFields
<1>3. s \in Stmt /\ StmtOK(s) /\ Brings(s) \subseteq store BY StatementOK
<1>4. /\ job' \in [DOMAIN job -> Place] /\ DOMAIN job' = DOMAIN job
      /\ \A k \in DOMAIN job \ {j} : job'[k] = job[k]
      /\ job'[j].pc = x /\ job'[j].up = job[j].up /\ job'[j].seen = job[j].seen
      /\ job'[j].file = job[j].file /\ job'[j].scrap = job[j].scrap
  BY <1>1, GoFields
<1>5. Working(j) /\ (job[j].pc \in {"attach", "drop"} => task(j).kind = "replace") BY SendingKinds
<1>6. sweep.pc = "idle" BY <1>5, SweepIdle
<1>7. /\ \A t \in pending : t.by # j
      /\ \A k \in DOMAIN job \ {j} : job[k].pc \in Early => \A u \in Mine(k) : u # s.file /\ u \notin s.urls
      /\ s.kind \in {"insert", "attach"} => \A u \in s.urls :
              /\ u \notin Referenced
              /\ \A k \in DOMAIN job : u \notin job[k].seen
              /\ \A t \in pending : u \notin t.urls
      /\ s.kind = "drop" => \A r : Lasting(r) /\ r.post = s.post => r.url \notin s.urls
  BY StatementUnknown
<1>8. x \notin Early /\ x \notin AfterRead /\ x # "compare" /\ x # "discard" BY DEF NextPc, Early, AfterRead
<1>9. \A k \in DOMAIN job : job'[k].pc \in Early =>
       job[k].pc \in Early /\ \A u \in Mine(k) : u # s.file /\ u \notin s.urls
  BY <1>4, <1>7, <1>8
<1>10. x = "drop" => s.kind = "attach" /\ s.urls # {}
  <2>1. ASSUME x = "drop" PROVE s.kind = "attach" /\ s.urls # {}
    <3>1. job[j].pc = "attach" /\ task(j).kind = "replace" BY <1>5, <2>1 DEF NextPc
    <3>2. task(j).files # {} /\ 0 \notin task(j).files BY <1>1, <3>1, Tasks DEF IInv, UploadsOK, Form
    <3>3. PICK i \in task(j).files : i # 0 BY <3>2
    <3>4. <<j, i>> \in Images(j) BY <3>3 DEF Images, Uploads
    <3> QED BY <1>2, <3>1, <3>4
  <2> QED BY <2>1
<1>11. job[j].scrap = {} BY DEF IInv, ScrapOK, Sending
<1>12. x = "owned" => \A u \in Taken(j) : u \in Referenced' => Listed(u)
  <2>1. ASSUME x = "owned", NEW u \in Taken(j), u \in Referenced' PROVE Listed(u)
    <3>1. job[j].pc \in {"drop", "write", "delete"} /\ (job[j].pc = "write" => task(j).kind = "save" /\ Doc(j) # None)
      BY <2>1, SendingKinds DEF NextPc
    <3> QED BY <2>1, <3>1, OwnedGone
  <2> QED BY <2>1
<1>13. Told BY SentTold
<1>14. UploadsOK(j)' BY SentUploads
<1>15. \A t \in pending' : t.by # j BY <1>7
<1>16. job[j].pc \notin {"upload", "owned", "discard"} BY DEF Sending
<1> QED BY <1>2, <1>3, <1>4, <1>6, <1>7, <1>8, <1>9, <1>10, <1>11, <1>12, <1>13, <1>14, <1>15, <1>16 DEF Taking

\* What a job that gave up its statement can no longer clean up is on record.
Blames(j) ==
  /\ job[j].pc = "drop" => job[j].seen \subseteq blamed'
  /\ job[j].pc = "delete" => job[j].seen \union {job[j].file} \subseteq blamed'
  /\ job[j].pc = "write" => job[j].file \in blamed'

GivesUp(j) ==
  /\ job[j].pc \in Sending /\ job'[j].pc \in {"verify", "done"}
  /\ job'[j].pc = "verify" => task(j).kind = "create"

\* Nothing takes effect: a statement is refused, lost, or given up.
Waiting ==
  /\ SamePlan /\ UNCHANGED <<content, cited, ledger, store, sweep, doubtful>>
  /\ sweep.pc = "idle" /\ blamed \subseteq blamed'
  /\ job' \in [DOMAIN job -> Place]
  /\ \A k \in DOMAIN job : /\ job'[k].up = job[k].up /\ job'[k].seen = job[k].seen
                           /\ job'[k].file = job[k].file /\ job'[k].scrap = job[k].scrap
                           /\ job'[k].pc = job[k].pc \/ GivesUp(k)
  /\ \A t \in pending' : t \in pending \/ \E k \in DOMAIN job : t = Statement(k) /\ GivesUp(k) /\ Blames(k)

\* What such a step leaves.
LEMMA WaitingFrame ==
  ASSUME IInv, Waiting
  PROVE  /\ Shape /\ SamePlan /\ DOMAIN job' = DOMAIN job
         /\ UNCHANGED <<posts, rows, file, cited, asset, book, store, sweep, doubtful>>
         /\ Referenced' = Referenced /\ Kept' = Kept
         /\ \A u : Listed(u)' <=> Listed(u)
         /\ \A k \in DOMAIN job : /\ task(k)' = task(k) /\ Uploads(k)' = Uploads(k) /\ Images(k)' = Images(k)
                                  /\ Taken(k)' = Taken(k)
         /\ \A t \in pending' : t \in Stmt /\ StmtOK(t)
         /\ \A t \in pending' \ pending : /\ t.by \in DOMAIN job /\ t = Statement(t.by) /\ GivesUp(t.by) /\ Blames(t.by)
                                          /\ t.post = task(t.by).post
<1>1. Shape /\ SamePlan /\ DOMAIN job' = DOMAIN job /\ PendingOK BY DEF IInv, Waiting
<1>2. UNCHANGED <<posts, rows, file, cited, sweep, doubtful, store>> BY DEF Waiting, content
<1>3. asset' = asset /\ book' = book /\ \A u : Listed(u)' <=> Listed(u) BY LedgerStays DEF Waiting
<1>4. Referenced' = Referenced BY SameReferenced DEF Waiting
<1>5. /\ \A k \in DOMAIN job : task(k)' = task(k) /\ Uploads(k)' = Uploads(k) /\ Images(k)' = Images(k)
      /\ Kept' = Kept
  BY <1>1, SameTasks
<1>6. \A k \in DOMAIN job : Taken(k)' = Taken(k) BY <1>1, SameTaken DEF Waiting
<1>7. ASSUME NEW t \in pending' \ pending
      PROVE  /\ t.by \in DOMAIN job /\ t = Statement(t.by) /\ GivesUp(t.by) /\ Blames(t.by)
             /\ t \in Stmt /\ StmtOK(t) /\ t.post = task(t.by).post
  <2>1. PICK k \in DOMAIN job : t = Statement(k) /\ GivesUp(k) /\ Blames(k) BY <1>7 DEF Waiting
  <2>2. t.by = k /\ t.post = task(k).post BY <2>1, StatementFields
  <2>3. t \in Stmt /\ StmtOK(t) BY <2>1, StatementOK DEF GivesUp
  <2> QED BY <2>1, <2>2, <2>3
<1>8. \A t \in pending' : t \in Stmt /\ StmtOK(t)
  <2>1. ASSUME NEW t \in pending' PROVE t \in Stmt /\ StmtOK(t)
    <3>1. CASE t \in pending BY <1>1, <3>1 DEF Shape, PendingOK
    <3>2. CASE t \notin pending BY <1>7, <2>1, <3>2
    <3> QED BY <3>1, <3>2
  <2> QED BY <2>1
<1> QED BY <1>1, <1>2, <1>3, <1>4, <1>5, <1>6, <1>7, <1>8

\* It keeps the shape, the names and the statements given up.
LEMMA WaitingPending ==
  ASSUME IInv, Waiting
  PROVE  Shape' /\ Named' /\ PendingOK'
<1>1. /\ Shape /\ SamePlan /\ DOMAIN job' = DOMAIN job
      /\ UNCHANGED <<posts, rows, file, cited, asset, book, store, sweep, doubtful>>
      /\ \A u : Listed(u)' <=> Listed(u)
      /\ \A t \in pending' : t \in Stmt /\ StmtOK(t)
      /\ \A t \in pending' \ pending : t.by \in DOMAIN job /\ t = Statement(t.by) /\ GivesUp(t.by)
  BY WaitingFrame
<1>2. Named /\ PendingOK BY DEF IInv
<1>3. job' \in [DOMAIN job -> Place]
      /\ \A k \in DOMAIN job : /\ job'[k].seen = job[k].seen /\ job'[k].file = job[k].file
                               /\ job'[k].pc = job[k].pc \/ GivesUp(k)
  BY DEF Waiting
<1>4. Shape'
  <2>1. Possible(plan') /\ plan'.task = plan.task /\ plan'.listed = plan.listed BY <1>1 DEF SamePlan
  <2>2. pending' \subseteq Stmt BY <1>1
  <2> QED BY <1>1, <1>3, <2>1, <2>2 DEF Shape
<1>5. Named'
  <2>1. \A u \in cited' : Listed(u)' BY <1>1, <1>2 DEF Named
  <2> QED BY <1>1, <1>2, <1>3, <2>1, NamedStays
<1>6. \A t \in pending' : StmtOK(t)'
  <2>1. ASSUME NEW t \in pending' PROVE StmtOK(t)'
    <3>1. StmtOK(t) BY <1>1, <2>1
    <3> QED BY <1>1, <3>1, StmtStays DEF StmtOK
  <2> QED BY <2>1
<1>7. ASSUME NEW t \in pending' PROVE job'[t.by].pc \in {"verify", "compare", "discard", "done"}
  <2>1. CASE t \in pending
    <3>1. t.by \in DOMAIN job /\ job[t.by].pc \in {"verify", "compare", "discard", "done"}
      BY <1>2, <2>1 DEF PendingOK, StmtOK
    <3> QED BY <1>3, <3>1 DEF GivesUp, Sending
  <2>2. CASE t \notin pending BY <1>1, <1>7, <2>2 DEF GivesUp
  <2> QED BY <2>1, <2>2
<1>8. ASSUME NEW a \in pending', NEW b \in pending', a.by = b.by PROVE a = b
  <2>1. \A c \in pending' \ pending : \A d \in pending : d.by # c.by
    <3>1. ASSUME NEW c \in pending' \ pending PROVE \A d \in pending : d.by # c.by
      <4>1. c.by \in DOMAIN job /\ job[c.by].pc \in Sending BY <1>1, <3>1 DEF GivesUp
      <4> QED BY <1>2, <4>1 DEF PendingOK, Sending
    <3> QED BY <3>1
  <2>2. CASE a \in pending /\ b \in pending BY <1>2, <1>8, <2>2 DEF PendingOK
  <2>3. CASE a \notin pending /\ b \notin pending BY <1>1, <1>8, <2>3
  <2>4. CASE (a \in pending /\ b \notin pending) \/ (a \notin pending /\ b \in pending) BY <1>8, <2>1, <2>4
  <2> QED BY <2>2, <2>3, <2>4
<1> QED BY <1>4, <1>5, <1>6, <1>7, <1>8 DEF PendingOK

\* It keeps new files unknown and posts covered.
LEMMA WaitingUnborn ==
  ASSUME IInv, Waiting
  PROVE  Unborn' /\ Unlanded' /\ Covered'
<1>1. /\ Shape /\ DOMAIN job' = DOMAIN job /\ rows' = rows /\ Referenced' = Referenced
      /\ \A k \in DOMAIN job : task(k)' = task(k)
      /\ \A t \in pending' \ pending : t.by \in DOMAIN job /\ t = Statement(t.by) /\ GivesUp(t.by)
  BY WaitingFrame
<1>2. Unborn /\ Unlanded /\ Covered BY DEF IInv
<1>3. \A k \in DOMAIN job : /\ job'[k].seen = job[k].seen /\ job'[k].file = job[k].file
                            /\ job'[k].pc = job[k].pc \/ GivesUp(k)
  BY DEF Waiting
<1>4. \A t \in pending' \ pending :
         /\ \A k \in DOMAIN job \ {t.by} : job[k].pc \in Early => \A u \in Mine(k) : u # t.file /\ u \notin t.urls
         /\ t.kind \in {"insert", "attach"} => \A u \in t.urls :
              /\ u \notin Referenced
              /\ \A k \in DOMAIN job : u \notin job[k].seen
              /\ \A d \in pending : u \notin d.urls
         /\ t.kind = "drop" => \A r : Lasting(r) /\ r.post = t.post => r.url \notin t.urls
  <2>1. ASSUME NEW t \in pending' \ pending PROVE t.by \in DOMAIN job /\ t = Statement(t.by) /\ job[t.by].pc \in Sending
    BY <1>1, <2>1 DEF GivesUp
  <2> QED BY <2>1, StatementUnknown
<1>5. \A t \in pending' \ pending : t.kind = "drop" => t.urls = job[t.by].seen /\ task(t.by).kind = "replace"
  <2>1. ASSUME NEW t \in pending' \ pending, t.kind = "drop" PROVE t.urls = job[t.by].seen /\ task(t.by).kind = "replace"
    <3>1. t.by \in DOMAIN job /\ t = Statement(t.by) /\ job[t.by].pc \in Sending BY <1>1, <2>1 DEF GivesUp
    <3>2. PICK j \in DOMAIN job : j = t.by BY <3>1
    <3>3. job[j].pc = "drop" /\ t.urls = job[j].seen BY <2>1, <3>1, <3>2, StatementFields
    <3>4. task(j).kind = "replace" BY <3>1, <3>2, <3>3, SendingKinds
    <3> QED BY <3>2, <3>3, <3>4
  <2> QED BY <2>1
<1>6. Unborn'
  <2>1. ASSUME NEW k \in DOMAIN job, job'[k].pc \in Early, NEW u \in Mine(k)
        PROVE  /\ u \notin Referenced'
               /\ \A i \in DOMAIN job : u # job'[i].file /\ u \notin job'[i].seen
               /\ \A t \in pending' : u # t.file /\ u \notin t.urls
    <3>1. job'[k].pc = job[k].pc /\ job[k].pc \in Early /\ ~GivesUp(k) BY <1>3, <2>1 DEF GivesUp, Early
    <3>2. ASSUME NEW t \in pending' \ pending PROVE u # t.file /\ u \notin t.urls
      <4>1. t.by # k BY <1>1, <3>1, <3>2
      <4> QED BY <1>4, <2>1, <3>1, <3>2, <4>1
    <3> QED BY <1>1, <1>2, <1>3, <2>1, <3>1, <3>2 DEF Unborn
  <2> QED BY <1>1, <2>1 DEF Unborn, Early, Mine
<1>7. Unlanded'
  <2>1. ASSUME NEW t \in pending', t.kind \in {"insert", "attach"}, NEW u \in t.urls
        PROVE  /\ u \notin {r.url : r \in rows}
               /\ \A k \in DOMAIN job : task(k).kind = "replace" => u \notin job[k].seen
               /\ \A d \in pending' : d.kind = "drop" => u \notin d.urls
    <3>1. /\ u \notin {r.url : r \in rows}
          /\ \A k \in DOMAIN job : task(k).kind = "replace" => u \notin job[k].seen
          /\ \A d \in pending : d.kind = "drop" => u \notin d.urls
      <4>1. CASE t \in pending BY <1>2, <2>1, <4>1 DEF Unlanded
      <4>2. CASE t \notin pending BY <1>4, <2>1, <4>2 DEF Referenced
      <4> QED BY <4>1, <4>2
    <3>2. \A d \in pending' \ pending : d.kind = "drop" => u \notin d.urls BY <1>1, <1>5, <3>1
    <3> QED BY <3>1, <3>2
  <2> QED BY <1>1, <1>3, <2>1 DEF Unlanded
<1>8. \A r : Lasting(r) => Lasting(r)'
  <2>1. \A k \in DOMAIN job : job'[k].pc = "drop" => job[k].pc = "drop" BY <1>3 DEF GivesUp
  <2>2. ASSUME NEW r, Lasting(r) PROVE Lasting(r)'
    <3>1. \A t \in pending' : t.kind = "drop" /\ t.post = r.post => r.url \notin t.urls
      BY <1>4, <2>2 DEF Lasting
    <3>2. \A k \in DOMAIN job : job'[k].pc = "drop" /\ task(k).post = r.post => r.url \notin job[k].seen
      BY <2>1, <2>2 DEF Lasting
    <3> QED BY <1>1, <1>3, <3>1, <3>2 DEF Lasting
  <2> QED BY <2>2
<1>9. Covered' BY <1>1, <1>2, <1>8 DEF Covered
<1> QED BY <1>6, <1>7, <1>9

\* It keeps what the jobs rely on.
LEMMA WaitingJobs ==
  ASSUME IInv, Waiting, NEW k \in DOMAIN job
  PROVE  UploadsOK(k)' /\ ScrapOK(k)'
<1>1. /\ Shape /\ SamePlan /\ DOMAIN job' = DOMAIN job
      /\ UNCHANGED <<posts, rows, file, cited, asset, book, store, sweep, doubtful>>
      /\ Referenced' = Referenced
      /\ \A u : Listed(u)' <=> Listed(u)
      /\ task(k)' = task(k) /\ Uploads(k)' = Uploads(k) /\ Taken(k)' = Taken(k)
  BY WaitingFrame
<1>2. UploadsOK(k) /\ ScrapOK(k) BY DEF IInv
<1>3. /\ job'[k].up = job[k].up /\ job'[k].seen = job[k].seen
      /\ job'[k].file = job[k].file /\ job'[k].scrap = job[k].scrap
      /\ job'[k].pc = job[k].pc \/ GivesUp(k)
  BY DEF Waiting
<1>4. {u \in Old : ~Listed(u)}' = {u \in Old : ~Listed(u)} BY <1>1
<1>5. CASE job'[k].pc = job[k].pc
  <2>1. Working(k)' <=> Working(k) BY <1>5 DEF Working
  <2>2. UploadsOK(k)' BY <1>1, <1>2, <1>3, <1>5, <2>1 DEF UploadsOK
  <2>3. ScrapOK(k)' BY <1>1, <1>2, <1>3, <1>4, <1>5 DEF ScrapOK
  <2> QED BY <2>2, <2>3
<1>6. CASE GivesUp(k)
  <2>1. Working(k) /\ job[k].pc \in Sending BY <1>6, SendingKinds DEF GivesUp
  <2>2. job'[k].pc \in InBrowser \union Path(task(k).kind) /\ job'[k].pc \in {"verify", "done"}
    BY <1>6 DEF GivesUp, InBrowser, Path
  <2>3. job[k].pc # "done" BY <2>1 DEF Sending
  <2>4. UploadsOK(k)' BY <1>1, <1>3, <2>1, <2>2, <2>3, LateUploads
  <2>5. job[k].scrap = {} BY <1>2, <2>1 DEF ScrapOK, Sending
  <2>6. ScrapOK(k)' BY <1>3, <2>2, <2>5 DEF ScrapOK
  <2> QED BY <2>4, <2>6
<1> QED BY <1>3, <1>5, <1>6

\* It keeps every unregistered object known of.
LEMMA WaitingTraced ==
  ASSUME IInv, Waiting
  PROVE  Traced'
<1>1. /\ Shape /\ SamePlan /\ DOMAIN job' = DOMAIN job
      /\ UNCHANGED <<posts, rows, file, cited, asset, book, store, sweep, doubtful>>
      /\ Kept' = Kept
      /\ \A u : Listed(u)' <=> Listed(u)
      /\ \A k \in DOMAIN job : task(k)' = task(k) /\ Taken(k)' = Taken(k)
      /\ \A t \in pending' \ pending : /\ t.by \in DOMAIN job /\ t = Statement(t.by) /\ GivesUp(t.by) /\ Blames(t.by)
                                       /\ t.post = task(t.by).post
  BY WaitingFrame
<1>2. Traced /\ blamed \subseteq blamed' BY DEF IInv, Waiting
<1>3. \A k \in DOMAIN job : /\ job'[k].up = job[k].up /\ job'[k].seen = job[k].seen
                            /\ job'[k].file = job[k].file /\ job'[k].scrap = job[k].scrap
                            /\ job'[k].pc = job[k].pc \/ GivesUp(k)
  BY DEF Waiting
<1>4. ASSUME NEW k \in DOMAIN job
      PROVE  /\ job[k].pc \in {"owned", "discard", "upload"} => job'[k].pc = job[k].pc
             /\ job'[k].pc \in AfterRead => job'[k].pc = job[k].pc
  BY <1>3, <1>4 DEF GivesUp, Sending, AfterRead
<1>5. \A u : Held(u) => Held(u)' BY <1>1, <1>3, <1>4 DEF Held
<1>6. ASSUME NEW t \in pending' \ pending, t.kind \in {"drop", "delete", "write"}
      PROVE  /\ t.by \in DOMAIN job /\ job[t.by].pc = t.kind /\ task(t.by).post = t.post /\ Blames(t.by)
             /\ t.kind = "drop" => t.urls = job[t.by].seen
             /\ t.kind = "delete" => task(t.by).kind \in {"delete", "withdraw"}
             /\ t.kind = "write" => task(t.by).kind = "save"
  <2>1. PICK j \in DOMAIN job : j = t.by BY <1>1, <1>6
  <2>2. t = Statement(j) /\ job[j].pc \in Sending /\ Blames(j) /\ t.post = task(j).post BY <1>1, <1>6, <2>1 DEF GivesUp
  <2>3. t.kind = (IF task(j).kind = "revise" THEN "revise" ELSE job[j].pc)
        /\ t.urls = (IF job[j].pc = "drop" THEN job[j].seen ELSE Images(j))
    BY <2>2, StatementFields
  <2>4. job[j].pc = t.kind /\ task(j).kind # "revise" BY <1>6, <2>3
  <2>5. /\ job[j].pc = "write" => task(j).kind \in {"save", "revise"}
        /\ job[j].pc = "delete" => task(j).kind \in {"delete", "withdraw"}
    BY <2>2, SendingKinds
  <2> QED BY <2>1, <2>2, <2>3, <2>4, <2>5
<1>7. ASSUME NEW u \in store \intersect Old, ~Listed(u), u \notin blamed', u \notin Kept
      PROVE  Held(u)' \/ InRow(u)' \/ InText(u)'
  <2>1. Held(u) \/ InRow(u) \/ InText(u) BY <1>2, <1>7 DEF Traced
  <2>2. CASE InRow(u)
    <3>1. PICK r \in rows : r.url = u /\ RowSafe(r) BY <2>2 DEF InRow, RowSafe
    <3>2. \A k \in DOMAIN job : job'[k].pc = "delete" /\ task(k).post = r.post => u \in job[k].seen
      BY <1>4, <3>1 DEF RowSafe, AfterRead
    <3>3. ASSUME NEW t \in pending', t.post = r.post PROVE t.kind # "delete" /\ (t.kind = "drop" => u \notin t.urls)
      <4>1. CASE t \in pending BY <3>1, <3>3, <4>1 DEF RowSafe
      <4>2. CASE t \notin pending
        <5>1. t.kind # "drop" \/ u \notin t.urls BY <1>6, <1>7, <3>3, <4>2 DEF Blames
        <5>2. ASSUME t.kind = "delete" PROVE FALSE
          <6>1. t.by \in DOMAIN job /\ job[t.by].pc = "delete" /\ task(t.by).post = r.post /\ Blames(t.by)
            BY <1>6, <3>3, <4>2, <5>2
          <6>2. u \in job[t.by].seen BY <3>1, <6>1 DEF RowSafe
          <6> QED BY <1>7, <6>1, <6>2 DEF Blames
        <5> QED BY <5>1, <5>2
      <4> QED BY <4>1, <4>2
    <3> QED BY <1>1, <1>3, <3>1, <3>2, <3>3 DEF InRow
  <2>3. CASE InText(u)
    <3>1. PICK p \in posts : file[p] = u /\ TextSafe(p) BY <2>3 DEF InText, TextSafe, AfterRead
    <3>2. \A k \in DOMAIN job : job'[k].pc \in AfterRead /\ task(k).kind \in {"save", "delete"} /\ task(k).post = p => job[k].file = u
      BY <1>4, <3>1 DEF TextSafe
    <3>3. ASSUME NEW t \in pending', t.post = p PROVE t.kind \notin {"write", "delete"}
      <4>1. CASE t \in pending BY <3>1, <3>3, <4>1 DEF TextSafe
      <4>2. CASE t \notin pending
        <5>1. ASSUME t.kind \in {"write", "delete"} PROVE FALSE
          <6>1. /\ t.by \in DOMAIN job /\ job[t.by].pc \in {"write", "delete"} /\ task(t.by).post = p /\ Blames(t.by)
                /\ task(t.by).kind \in {"save", "delete", "withdraw"}
            BY <1>6, <3>3, <4>2, <5>1
          <6>2. task(t.by).kind # "withdraw" BY <1>7, <6>1 DEF Kept
          <6>3. job[t.by].file = u BY <3>1, <6>1, <6>2 DEF TextSafe, AfterRead
          <6> QED BY <1>7, <6>1, <6>3 DEF Blames
        <5> QED BY <5>1
      <4> QED BY <4>1, <4>2
    <3> QED BY <1>1, <1>3, <3>1, <3>2, <3>3 DEF InText, AfterRead
  <2> QED BY <1>5, <2>1, <2>2, <2>3
<1>8. ASSUME NEW u \in store \ Old, ~Listed(u), u \notin blamed'
      PROVE  \E k \in DOMAIN job : \E i \in task(k).files :
                u = <<k, i>> /\ job'[k].pc = "upload" /\ job'[k].up[i] \in {"put", "undo"}
  <2>1. PICK k \in DOMAIN job : \E i \in task(k).files :
          u = <<k, i>> /\ job[k].pc = "upload" /\ job[k].up[i] \in {"put", "undo"}
    BY <1>2, <1>8 DEF Traced
  <2> QED BY <1>3, <1>4, <2>1
<1> QED BY <1>1, <1>2, <1>7, <1>8 DEF Traced

\* It keeps the invariant.
LEMMA WaitingIInv ==
  ASSUME IInv, Waiting
  PROVE  IInv'
<1>1. DOMAIN job' = DOMAIN job BY WaitingFrame
<1>2. SweepOK'
  <2>1. sweep' = sweep /\ sweep.pc = "idle" BY DEF Waiting
  <2>2. sweep.list = {} BY <2>1 DEF IInv, SweepOK
  <2> QED BY <2>1, <2>2 DEF SweepOK
<1>3. FilesKept'
  <2>1. Referenced' = Referenced /\ store' = store /\ doubtful' = doubtful BY WaitingFrame
  <2> QED BY <2>1 DEF IInv, FilesKept
<1> QED BY <1>1, <1>2, <1>3, WaitingPending, WaitingUnborn, WaitingJobs, WaitingTraced DEF IInv

\* A job goes on without its statement having taken effect.
LEMMA GoWaiting ==
  ASSUME IInv, NEW j \in DOMAIN job, job[j].pc \in Sending, NEW x \in {"verify", "done"}, Go(j, x),
         x = "verify" => task(j).kind = "create", SamePlan, blamed \subseteq blamed',
         UNCHANGED <<content, cited, ledger, store, sweep, doubtful>>,
         pending' = pending \/ (pending' = pending \union {Statement(j)} /\ Blames(j))
  PROVE  Waiting
<1>1. Shape /\ x \in Pcs BY DEF IInv, Pcs, InBrowser
<1>2. /\ job' \in [DOMAIN job -> Place] /\ DOMAIN job' = DOMAIN job
      /\ \A k \in DOMAIN job \ {j} : job'[k] = job[k]
      /\ job'[j].pc = x /\ job'[j].up = job[j].up /\ job'[j].seen = job[j].seen
      /\ job'[j].file = job[j].file /\ job'[j].scrap = job[j].scrap
  BY <1>1, GoFields
<1>3. sweep.pc = "idle"
  <2>1. Working(j) BY SendingKinds
  <2> QED BY <2>1, SweepIdle
<1>4. GivesUp(j) BY <1>2 DEF GivesUp
<1>5. \A t \in pending' : t \in pending \/ \E k \in DOMAIN job : t = Statement(k) /\ GivesUp(k) /\ Blames(k)
  BY <1>4
<1>6. \A k \in DOMAIN job :
        /\ job'[k].up = job[k].up /\ job'[k].seen = job[k].seen
        /\ job'[k].file = job[k].file /\ job'[k].scrap = job[k].scrap
        /\ job'[k].pc = job[k].pc \/ GivesUp(k)
  BY <1>2, <1>4
<1> QED BY <1>2, <1>3, <1>5, <1>6 DEF Waiting

\* How the five statements of the code are sent.
Answers(j, next, error, S) ==
  /\ NextPc(j, next) /\ NextPc(j, error) /\ error \in {"verify", "done"}
  /\ job[j].pc = "drop" => next = "owned" /\ job[j].seen \subseteq S
  /\ job[j].pc = "delete" => /\ task(j).kind = "withdraw" \/ next = "owned"
                             /\ job[j].seen \union {job[j].file} \subseteq S
  /\ job[j].pc = "write" => /\ task(j).kind = "revise" \/ next = "owned" \/ Doc(j) = None \/ job[j].file = None
                            /\ job[j].file \in S

\* A job's statement takes effect, or nothing does.
LEMMA SendsMoves ==
  ASSUME IInv, NEW j \in DOMAIN job, job[j].pc \in Sending, NEW next, NEW error, NEW S,
         Sends(j, next, error, S), Answers(j, next, error, S)
  PROVE  Waiting \/ \E s : Taking(s)
<1>1. Shape BY DEF IInv
<1>2. PICK s : s = Statement(j) OBVIOUS
<1>3. UNCHANGED <<cited, ledger, store, sweep>> BY DEF Sends
<1>4. /\ next \in Pcs /\ error \in Pcs /\ error \in {"verify", "done"} /\ NextPc(j, next) /\ NextPc(j, error)
      /\ error = "verify" => task(j).kind = "create"
  BY DEF Answers, NextPc, Pcs, InBrowser
<1>5. CASE Fits(s) /\ Takes(s) /\ Go(j, next) /\ Fine /\ UNCHANGED pending
  <2>1. SamePlan /\ blamed' = blamed BY <1>1, <1>5, FinePlan
  <2>2. Learns(j, next) BY DEF Answers, Learns
  <2>3. Taking(s) BY <1>2, <1>3, <1>4, <1>5, <2>1, <2>2, SentTaking
  <2> QED BY <2>3
<1>6. CASE ~Fits(s) /\ Go(j, error) /\ Fine /\ UNCHANGED <<content, pending, doubtful>>
  <2>1. SamePlan /\ blamed' = blamed BY <1>1, <1>6, FinePlan
  <2>2. Waiting BY <1>3, <1>4, <1>6, <2>1, GoWaiting
  <2> QED BY <2>2
<1>7. CASE /\ Fault(S) /\ Go(j, error)
           /\ \/ UNCHANGED <<content, pending, doubtful>>
              \/ Fits(s) /\ Takes(s) /\ UNCHANGED pending
              \/ pending' = pending \union {s} /\ UNCHANGED <<content, doubtful>>
  <2>1. SamePlan /\ blamed' = blamed \union S BY <1>1, <1>7, FaultPlan
  <2>2. Blames(j) /\ Learns(j, error) BY <2>1 DEF Answers, Blames, Learns
  <2>3. CASE UNCHANGED <<content, pending, doubtful>>
    <3>1. Waiting BY <1>3, <1>4, <1>7, <2>1, <2>3, GoWaiting
    <3> QED BY <3>1
  <2>4. CASE Fits(s) /\ Takes(s) /\ UNCHANGED pending
    <3>1. Taking(s) BY <1>2, <1>3, <1>4, <1>7, <2>1, <2>2, <2>4, SentTaking
    <3> QED BY <3>1
  <2>5. CASE pending' = pending \union {s} /\ UNCHANGED <<content, doubtful>>
    <3>1. Waiting BY <1>2, <1>3, <1>4, <1>7, <2>1, <2>2, <2>5, GoWaiting
    <3> QED BY <3>1
  <2> QED BY <1>7, <2>3, <2>4, <2>5
<1> QED BY <1>2, <1>5, <1>6, <1>7 DEF Sends

\* So for each of the five statements.
LEMMA StatementMoves ==
  ASSUME IInv, NEW j \in DOMAIN job, Insert(j) \/ Attach(j) \/ Drop(j) \/ Write(j) \/ Delete(j)
  PROVE  Waiting \/ \E s : Taking(s)
<1>1. CASE Insert(j)
  <2>1. PICK x : x = IF task(j).kind = "create" THEN "verify" ELSE "done" OBVIOUS
  <2>2. job[j].pc = "insert" /\ Sends(j, "done", x, {}) BY <1>1, <2>1 DEF Insert
  <2>3. Answers(j, "done", x, {}) BY <2>1, <2>2 DEF Answers, NextPc
  <2> QED BY <2>2, <2>3, SendsMoves DEF Sending
<1>2. CASE Attach(j)
  <2>1. PICK x : x = IF job[j].seen = {} THEN "done" ELSE "drop" OBVIOUS
  <2>2. job[j].pc = "attach" /\ Sends(j, x, "done", {}) BY <1>2, <2>1 DEF Attach
  <2>3. Answers(j, x, "done", {}) BY <2>1, <2>2 DEF Answers, NextPc
  <2> QED BY <2>2, <2>3, SendsMoves DEF Sending
<1>3. CASE Drop(j)
  <2>1. job[j].pc = "drop" /\ Sends(j, "owned", "done", job[j].seen) BY <1>3 DEF Drop
  <2>2. job[j].pc \in Sending BY <2>1 DEF Sending
  <2>3. task(j).kind = "replace" BY <2>1, <2>2, SendingKinds
  <2>4. Answers(j, "owned", "done", job[j].seen) BY <2>1, <2>3 DEF Answers, NextPc
  <2> QED BY <2>1, <2>2, <2>4, SendsMoves
<1>4. CASE Write(j)
  <2>1. PICK x : x = IF task(j).kind = "revise" \/ Doc(j) = None \/ job[j].file = None THEN "done" ELSE "owned" OBVIOUS
  <2>2. job[j].pc = "write" /\ Sends(j, x, "done", {job[j].file}) BY <1>4, <2>1 DEF Write
  <2>3. job[j].pc \in Sending BY <2>2 DEF Sending
  <2>4. task(j).kind \in {"save", "revise"} BY <2>2, <2>3, SendingKinds
  <2>5. Answers(j, x, "done", {job[j].file}) BY <2>1, <2>2, <2>4 DEF Answers, NextPc
  <2> QED BY <2>2, <2>3, <2>5, SendsMoves
<1>5. CASE Delete(j)
  <2>1. PICK x, S : /\ x = IF task(j).kind = "withdraw" THEN "done" ELSE "owned"
                    /\ S = job[j].seen \union {job[j].file} OBVIOUS
  <2>2. job[j].pc = "delete" /\ Sends(j, x, "done", S) BY <1>5, <2>1 DEF Delete
  <2>3. job[j].pc \in Sending BY <2>2 DEF Sending
  <2>4. task(j).kind \in {"delete", "withdraw"} BY <2>2, <2>3, SendingKinds
  <2>5. Answers(j, x, "done", S) BY <2>1, <2>2, <2>4 DEF Answers, NextPc
  <2> QED BY <2>2, <2>3, <2>5, SendsMoves
<1> QED BY <1>1, <1>2, <1>3, <1>4, <1>5

\* A statement given up takes effect, or nothing does.
LEMMA LateMoves ==
  ASSUME IInv, NEW s \in pending, Late(s)
  PROVE  Waiting \/ \E t : Taking(t)
<1>1. CASE Fits(s) /\ Takes(s) BY <1>1, LateTaking
<1>2. CASE UNCHANGED <<content, doubtful>>
  <2>1. Shape /\ SweepOK BY DEF IInv
  <2>2. /\ pending' = pending \ {s}
        /\ UNCHANGED <<plan, cited, ledger, store, job, sweep, blamed>>
    BY DEF Late
  <2>3. SamePlan BY <2>1, <2>2, SamePlanIfUnchanged
  <2>4. sweep.pc = "idle" BY <2>1 DEF SweepOK, Quiet
  <2>5. job' \in [DOMAIN job -> Place] BY <2>1, <2>2 DEF Shape
  <2>6. Waiting BY <1>2, <2>2, <2>3, <2>4, <2>5 DEF Waiting
  <2> QED BY <2>6
<1> QED BY <1>1, <1>2 DEF Late

\* Every step of a form is steady, waits, or is a statement's effect.
LEMMA ServeMoves ==
  ASSUME IInv, NEW j \in DOMAIN job, Serve(j) \/ Token(j) \/ Transfer(j) \/ Submit(j)
  PROVE  Steady(j) \/ Waiting \/ \E s : Taking(s)
<1>1. CASE Token(j) \/ Transfer(j) \/ Submit(j) BY <1>1, TokenSteady, TransferSteady, SubmitSteady
<1>2. CASE Unread(j) \/ Check(j) \/ Look(j) BY <1>2, UnreadSteady, CheckSteady, LookSteady
<1>3. CASE Uploaded(j) \/ Verify(j) \/ Compare(j) \/ Discard(j)
  BY <1>3, UploadedSteady, VerifySteady, CompareSteady, DiscardSteady
<1>4. CASE Read(j) \/ Snapshot(j) \/ Owned(j) \/ Kill(j) BY <1>4, ReadSteady, SnapshotSteady, OwnedSteady, KillSteady
<1>5. CASE Insert(j) \/ Attach(j) \/ Drop(j) \/ Write(j) \/ Delete(j) BY <1>5, StatementMoves
<1>6. ASSUME NEW i \in Index, Put(j, i) \/ Record(j, i) \/ Undo(j, i) \/ Reserve(j, i) \/ PutReserved(j, i)
      PROVE  Steady(j)
  BY <1>6, PutSteady, RecordSteady, UndoSteady, ReserveSteady, PutReservedSteady
<1> QED BY <1>1, <1>2, <1>3, <1>4, <1>5, <1>6 DEF Serve

\* A list of a finite set holds just its members.
LEMMA ListOf ==
  ASSUME NEW S, IsFiniteSet(S)
  PROVE  SetToSeq(S) \in Seq(S) /\ Range(SetToSeq(S)) = S
<1>1. PICK n : n = Cardinality(S) OBVIOUS
<1>2. n \in Nat /\ ExistsBijection(1..n, S) BY <1>1, FS_CardinalityType
<1>3. \E f \in [1..n -> S] : IsInjective(f) BY <1>2 DEF ExistsBijection, Bijection, Injection
<1>4. SetToSeq(S) \in [1..n -> S] /\ IsInjective(SetToSeq(S)) BY <1>1, <1>3 DEF SetToSeq
<1>5. PICK f : f = SetToSeq(S) OBVIOUS
<1>6. f \in Injection(1..n, S) BY <1>4, <1>5 DEF Injection
<1>7. Cardinality(1..n) = n
  <2>1. Cardinality(1..n) = IF 1 > n THEN 0 ELSE n - 1 + 1 BY <1>2, FS_Interval
  <2> QED BY <1>2, <2>1
<1>8. f \in Surjection(1..n, S) BY <1>1, <1>6, <1>7, FS_Injection
<1>9. f \in [1..n -> S] BY <1>4, <1>5
<1>10. \A x \in S : \E i \in 1..n : f[i] = x BY <1>8 DEF Surjection
<1>11. Range(f) = S BY <1>9, <1>10 DEF Range
<1>12. f \in Seq(S) BY <1>2, <1>9
<1> QED BY <1>5, <1>11, <1>12

\* The shape holds at the start.
LEMMA InitShape ==
  ASSUME Init
  PROVE  Shape
<1>1. Possible(plan) BY ContentAssumption DEF Init
<1>2. /\ plan.posts \subseteq Post /\ plan.rows \subseteq [post : plan.posts, url : Old]
      /\ plan.file \in [Post -> Old \union {None}] /\ plan.listed \subseteq Old /\ IsFiniteSet(plan.listed)
      /\ \A p \in Post \ plan.posts : plan.file[p] = None
  BY <1>1 DEF Possible
<1>3. Old \subseteq Url BY DEF Url
<1>4. posts = plan.posts /\ rows = plan.rows /\ file = plan.file /\ cited = {} /\ pending = {} BY DEF Init
<1>5. book \in Seq(plan.listed) /\ Range(book) = plan.listed BY <1>2, ListOf DEF Init
<1>6. book \in Seq(Url)
  <2>1. \A i \in 1..Len(book) : book[i] \in Url BY <1>2, <1>3, <1>5
  <2> QED BY <1>5, <2>1
<1>7. /\ asset \in [Url -> {"none", "new", "aged", "deleted"}]
      /\ \A u \in Url : asset[u] = IF u \in plan.listed THEN "aged" ELSE "none"
  BY DEF Init
<1>8. \A u \in Url : Listed(u) <=> u \in plan.listed BY <1>7 DEF Listed
<1>9. store \subseteq Url
  <2>1. \A r \in plan.rows : r.url \in Url BY <1>2, <1>3
  <2>2. \A p \in Post : plan.file[p] \in Url \union {None} BY <1>2, <1>3
  <2> QED BY <2>1, <2>2 DEF Init
<1>10. job \in [DOMAIN plan.task -> Place]
  <2>1. PICK y : y = [pc |-> "idle", up |-> [i \in Index |-> "todo"], seen |-> {}, file |-> None, scrap |-> {}] OBVIOUS
  <2>2. y \in Place BY <2>1 DEF Place, Pcs, InBrowser
  <2>3. job = [j \in DOMAIN plan.task |-> y] BY <2>1 DEF Init
  <2> QED BY <2>2, <2>3
<1>11. sweep \in [pc : {"idle", "recheck", "del", "mark"}, list : SUBSET Url] BY DEF Init
<1> QED BY <1>1, <1>2, <1>3, <1>4, <1>5, <1>6, <1>7, <1>8, <1>9, <1>10, <1>11 DEF Shape

\* The invariant holds at the start.
LEMMA InitIInv ==
  ASSUME Init
  PROVE  IInv
<1>1. Shape /\ Possible(plan) BY InitShape DEF Shape
<1>2. /\ posts = plan.posts /\ rows = plan.rows /\ file = plan.file /\ cited = {} /\ pending = {}
      /\ sweep.pc = "idle" /\ sweep.list = {}
      /\ store = {r.url : r \in plan.rows} \union ({plan.file[p] : p \in Post} \ {None})
  BY DEF Init
<1>3. /\ plan.posts \subseteq Post /\ plan.rows \subseteq [post : plan.posts, url : Old]
      /\ plan.file \in [Post -> Old \union {None}] /\ plan.listed \subseteq Old
      /\ \A p \in Post \ plan.posts : plan.file[p] = None
  BY <1>1 DEF Possible
<1>4. \A u \in Url : asset[u] = IF u \in plan.listed THEN "aged" ELSE "none" BY DEF Init
<1>5. \A j \in DOMAIN job : /\ job[j].pc = "idle" /\ job[j].seen = {} /\ job[j].file = None /\ job[j].scrap = {}
                            /\ \A i \in Index : job[j].up[i] = "todo"
  BY DEF Init
<1>6. Referenced \subseteq Old \union {None}
  <2>1. \A r \in rows : r.url \in Old BY <1>2, <1>3
  <2>2. \A p \in posts : file[p] \in Old \union {None} BY <1>2, <1>3
  <2> QED BY <1>2, <2>1, <2>2 DEF Referenced
<1>7. \A j \in DOMAIN job : j \in Job /\ Mine(j) \intersect Old = {} /\ None \notin Mine(j) /\ Mine(j) \subseteq Url
      /\ task(j).files \subseteq Index /\ \A i \in Index : <<j, i>> \in Mine(j)
  BY <1>1, Tasks, Urls
<1>8. Named
  <2>1. ASSUME NEW r \in rows PROVE RowOf(r.post, r.url)
    <3>1. r \in plan.rows /\ r.url \in Old /\ r = [post |-> r.post, url |-> r.url] BY <1>2, <1>3, <2>1
    <3>2. Row(r.post, {r.url}) \subseteq plan.rows
      <4>1. \A x \in Row(r.post, {r.url}) : x = [post |-> r.post, url |-> r.url] BY DEF Row
      <4> QED BY <3>1, <4>1
    <3> QED BY <3>1, <3>2 DEF RowOf
  <2>2. \A p \in Post : FileOf(p, file[p]) BY <1>2, <1>3 DEF FileOf
  <2>3. \A j \in DOMAIN job : FileOf(task(j).post, job[j].file) BY <1>5 DEF FileOf
  <2> QED BY <1>2, <1>5, <2>1, <2>2, <2>3 DEF Named
<1>9. PendingOK BY <1>2 DEF PendingOK
<1>10. ASSUME NEW j \in DOMAIN job PROVE UploadsOK(j) /\ ScrapOK(j)
  <2>1. \A i \in task(j).files : asset[<<j, i>>] = "none"
    <3>1. ASSUME NEW i \in task(j).files PROVE asset[<<j, i>>] = "none"
      <4>1. <<j, i>> \in Url /\ <<j, i>> \notin Old BY <1>7, <1>10, <3>1
      <4> QED BY <1>3, <1>4, <4>1
    <3> QED BY <3>1
  <2>2. job[j].pc = "idle" /\ ~Working(j) BY <1>5 DEF Working, InBrowser
  <2>3. UploadsOK(j) BY <1>2, <1>5, <1>7, <2>1, <2>2 DEF UploadsOK, InBrowser
  <2>4. ScrapOK(j) BY <1>5, <2>2 DEF ScrapOK
  <2> QED BY <2>3, <2>4
<1>11. Unborn
  <2>1. ASSUME NEW k \in DOMAIN job, NEW u \in Mine(k) PROVE u \notin Referenced /\ u # None BY <1>6, <1>7, <2>1
  <2> QED BY <1>2, <1>5, <2>1 DEF Unborn
<1>12. Unlanded /\ Covered
  <2>1. \A r : Lasting(r) BY <1>2, <1>5 DEF Lasting
  <2> QED BY <1>2, <2>1 DEF Unlanded, Covered
<1>13. SweepOK BY <1>2 DEF SweepOK
<1>14. Traced
  <2>1. \A u \in store : u \in Old
    <3>1. \A r \in plan.rows : r.url \in Old BY <1>3
    <3>2. \A p \in Post : plan.file[p] \in Old \union {None} BY <1>3
    <3> QED BY <1>2, <3>1, <3>2
  <2>2. \A u \in store : asset[u] # "deleted" BY <1>1, <1>4 DEF Shape
  <2>3. ASSUME NEW u \in store PROVE InRow(u) \/ InText(u)
    <3>1. CASE \E r \in plan.rows : r.url = u BY <1>2, <1>5, <3>1 DEF InRow
    <3>2. CASE \E p \in Post : plan.file[p] = u /\ u # None
      <4>1. PICK p \in Post : plan.file[p] = u /\ u # None BY <3>2
      <4>2. p \in posts /\ file[p] = u BY <1>2, <1>3, <4>1
      <4> QED BY <1>2, <1>5, <4>2 DEF InText
    <3> QED BY <1>2, <2>3, <3>1, <3>2
  <2> QED BY <2>1, <2>2, <2>3 DEF Traced
<1>15. FilesKept
  <2>1. \A r \in rows : r.url \in store BY <1>2
  <2>2. \A p \in posts : file[p] \in store \union {None} BY <1>2, <1>3
  <2> QED BY <1>2, <2>1, <2>2 DEF FilesKept, Referenced
<1> QED BY <1>1, <1>8, <1>9, <1>10, <1>11, <1>12, <1>13, <1>14, <1>15 DEF IInv

\* Posts that were there and still are keep a row if they had one.
NoneBared == \A p \in posts \intersect posts' : UrlsOf(p) # {} => \E r \in rows' : r.post = p

\* No post loses its rows while the rows stay.
LEMMA RowsStay ==
  ASSUME rows' = rows
  PROVE  NoneBared
BY DEF NoneBared, UrlsOf

\* A step that changes nothing keeps the invariant.
LEMMA StillIInv ==
  ASSUME IInv, UNCHANGED vars
  PROVE  IInv' /\ NoneBared
<1>1. Shape /\ Named /\ SweepOK /\ Traced BY DEF IInv
<1>2. UNCHANGED <<plan, content, posts, rows, file, cited, book, asset, store, job, pending, sweep, doubtful, blamed>>
  BY DEF vars, content, ledger
<1>3. SamePlan BY <1>1, <1>2, SamePlanIfUnchanged
<1>4. Referenced' = Referenced BY <1>2, SameReferenced
<1>5. SweepOK' BY <1>1, <1>2, <1>4 DEF SweepOK, Quiet, Working, Turn
<1>6. \A j \in DOMAIN job : Working(j) => cited' \intersect Uploads(j) = {} BY <1>2 DEF IInv, UploadsOK
<1>7. \A v : Listed(v)' <=> Listed(v) BY <1>2 DEF Listed
<1>8. Aside BY <1>1, <1>2, <1>3, <1>4, <1>5, <1>6, <1>7 DEF Aside, Shape, Named, Traced
<1> QED BY <1>2, <1>8, AsideIInv, RowsStay

\* The three kinds of steps of a form keep the invariant, and no post is left bare.
LEMMA MovesIInv ==
  ASSUME IInv, (\E j \in DOMAIN job : Steady(j)) \/ Waiting \/ \E s : Taking(s)
  PROVE  IInv' /\ NoneBared
<1>1. CASE \E j \in DOMAIN job : Steady(j)
  <2>1. PICK j \in DOMAIN job : Steady(j) BY <1>1
  <2>2. rows' = rows BY <2>1, SteadyFrame
  <2> QED BY <2>1, <2>2, SteadyIInv, RowsStay
<1>2. CASE Waiting
  <2>1. rows' = rows BY <1>2, WaitingFrame
  <2> QED BY <1>2, <2>1, WaitingIInv, RowsStay
<1>3. CASE \E s : Taking(s)
  <2>1. PICK s : Taking(s) BY <1>3
  <2>2. \A x \in rows : x.post \in posts' => \E r \in rows' : r.post = x.post BY <2>1, TakingCovered
  <2>3. NoneBared BY <2>2 DEF NoneBared, UrlsOf
  <2> QED BY <2>1, <2>3, TakingIInv
<1> QED BY <1>1, <1>2, <1>3

\* The invariant is inductive, and no step leaves a post bare.
LEMMA NextIInv ==
  ASSUME IInv, [Next]_vars
  PROVE  IInv' /\ NoneBared
<1>1. CASE UNCHANGED vars BY <1>1, StillIInv
<1>2. ASSUME NEW j \in DOMAIN job, Serve(j) \/ Token(j) \/ Transfer(j) \/ Submit(j) PROVE IInv' /\ NoneBared
  <2>1. Steady(j) \/ Waiting \/ \E s : Taking(s) BY <1>2, ServeMoves
  <2> QED BY <2>1, MovesIInv
<1>3. ASSUME NEW s \in pending, Late(s) PROVE IInv' /\ NoneBared
  <2>1. Waiting \/ \E t : Taking(t) BY <1>3, LateMoves
  <2> QED BY <2>1, MovesIInv
<1>4. ASSUME NEW u \in Url, Cite(u) \/ Uncite(u) PROVE IInv' /\ NoneBared
  <2>1. rows' = rows BY <1>4 DEF Cite, Uncite, content
  <2> QED BY <1>4, <2>1, CiteIInv, UnciteIInv, RowsStay
<1>5. CASE Age \/ Start \/ Recheck \/ Del \/ MarkDeleted \/ Trouble
  <2>1. rows' = rows BY <1>5 DEF Age, Start, Recheck, Del, MarkDeleted, Trouble, Others, content
  <2>2. IInv' BY <1>5, AgeIInv, StartIInv, RecheckIInv, DelIInv, MarkDeletedIInv, TroubleIInv
  <2> QED BY <2>1, <2>2, RowsStay
<1> QED BY <1>1, <1>2, <1>3, <1>4, <1>5 DEF Next

-----------------------------------------------------------------------------
(* What the invariant says of the properties.                              *)

\* The invariant implies the types.
LEMMA TypesHold ==
  ASSUME IInv
  PROVE  TypeOK
<1>1. Shape BY DEF IInv
<1>2. ASSUME NEW j \in DOMAIN job
      PROVE  /\ job[j].pc \in Pcs
             /\ job[j].up \in [Index -> {"todo", "put", "undo", "ok", "bad"}]
             /\ job[j].seen \union job[j].scrap \subseteq Url \union {None}
             /\ job[j].file \in Url \union {None}
  <2>1. job[j] \in Place BY <1>1, <1>2, Tasks
  <2>2. PICK x \in Place : x = job[j] BY <2>1
  <2> QED BY <2>2, Places
<1>3. /\ posts \subseteq Post /\ rows \subseteq [post : posts, url : Url]
      /\ file \in [Post -> Url \union {None}]
      /\ cited \subseteq Url
      /\ asset \in [Url -> {"none", "new", "aged", "deleted"}]
      /\ \A u \in Url : Listed(u) <=> u \in Range(book)
      /\ store \subseteq Url
  BY <1>1 DEF Shape
<1> QED BY <1>2, <1>3 DEF TypeOK, Pcs

\* It implies that no object is lost by a single failure.
LEMMA LossesKnown ==
  ASSUME IInv
  PROVE  NothingLost
<1>1. Shape /\ Traced BY DEF IInv
<1>2. ASSUME Quiet, NEW u \in store, ~Listed(u), u \notin blamed, u \notin Kept PROVE u \in Referenced
  <2>1. \A j \in DOMAIN job : job[j].pc \notin {"owned", "discard", "upload"} BY <1>2 DEF Quiet, Working, InBrowser
  <2>2. u \in Old BY <1>1, <1>2, <2>1 DEF Traced
  <2>3. InRow(u) \/ InText(u) BY <1>1, <1>2, <2>1, <2>2 DEF Traced, Held
  <2> QED BY <2>3 DEF InRow, InText, Referenced
<1>3. ASSUME NEW u \in store, Listed(u) PROVE asset[u] \in {"new", "aged"}
  BY <1>1, <1>3 DEF Traced, Shape, Listed
<1> QED BY <1>2, <1>3 DEF NothingLost

-----------------------------------------------------------------------------

\* The inductive invariant holds in every history: whatever requests overlap, fail, give
\* up or are killed, the content, the ledger, the store, the statements given up and the
\* script agree as IInv says.
THEOREM ContentInvariant == Spec => []IInv
<1>1. Init => IInv BY InitIInv
<1>2. IInv /\ [Next]_vars => IInv' BY NextIInv
<1> QED BY <1>1, <1>2, PTL DEF Spec

\* In every history the tables have their shape, and when no request is under way every
\* object that no content refers to is one the script can find, or the very call that would
\* have told of it has failed (create-with-blobs.ts, owned-blob.ts).
THEOREM FilesAreSound == Spec => []FilesSound
<1>1. IInv => FilesSound BY TypesHold, LossesKnown DEF FilesSound
<1> QED BY <1>1, ContentInvariant, PTL

\* In every history the files that content refers to are in the store, unless a statement
\* that took effect late, or a save of a text read earlier, made the content refer to them
\* (class-logs/actions/index.ts, weekly-texts/actions/index.ts, cleanup-markdown-image-assets.mjs).
THEOREM FilesAreKept == Spec => []FilesKept
<1>1. IInv => FilesKept BY DEF IInv
<1> QED BY <1>1, ContentInvariant, PTL

\* No step of any history takes the last image of a log that stays: a replacement inserts
\* the new rows before it deletes the old ones (class-logs/actions/index.ts:491-515).
THEOREM NeverLeftBare == Spec => NeverBare
<1>1. IInv /\ [Next]_vars => [NoneBared]_vars BY NextIInv
<1>2. NeverBare <=> [][NoneBared]_vars BY DEF NeverBare, NoneBared
<1> QED BY <1>1, <1>2, ContentInvariant, PTL DEF Spec

=============================================================================
