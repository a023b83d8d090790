---------------------------- MODULE AccountCleanup ----------------------------
(***************************************************************************)
(* What the mobile app does with an account's files and resume records     *)
(* when the account leaves: the lifecycle of account-runtime.ts, the       *)
(* cleanup chain of session-cleanup.ts, the serialized record stores of    *)
(* serialized-resume-store.ts, and the transfers that use them             *)
(* (download-protected-file.ts, the callers of trackTransfer).             *)
(*                                                                         *)
(* JavaScript runs one callback at a time; an action is the code between   *)
(* two awaits.  Init is a start of the app, with whatever an earlier       *)
(* process left on the device.                                             *)
(***************************************************************************)
EXTENDS Integers, Sequences, FiniteSets, SequencesExt

CONSTANTS
  User,
  Transfer,  \* transfers started in a process
  Kinds,     \* [Transfer -> the kinds it may be of: "submit", "guidebook", "file"]
  MaxGen,    \* bound on the changes of the session's generation
  MaxOps,    \* bound on the operations on a store that are under way
  MaxTouches,\* bound on the operations of screens that are not tracked
  MaxFiles,  \* MAX_CACHE_FILES
  None

Gen == 0..MaxGen
Old == -1          \* written by an earlier process

ASSUME CleanupAssumption ==
  /\ Kinds \in [Transfer -> SUBSET {"submit", "guidebook", "file"}]
  /\ MaxGen \in Nat /\ MaxOps \in Nat /\ MaxTouches \in Nat /\ MaxFiles \in Nat \ {0}
  /\ None \notin User \union Gen \union {Old}

Store == User \X Gen
Gated == {"read", "write"}

VARIABLES
  gen,       \* SessionManager.generation
  user,      \* the account of its snapshot
  stores,    \* the accounts with a store of this generation
  queue,     \* [Store -> queued operations, the first one under way]
  disk,      \* [User -> generation that wrote the record, Old or None]
  jobs,      \* the cleanups still to be done, the first one under way
  made,      \* number of cleanups ever chained
  broken,    \* storageError
  missed,    \* accounts whose record could not be erased when they left
  files,     \* the protected cache, oldest first: [by, gen]
  line,      \* cacheQueue: the downloads that have been admitted, in order
  transfer,  \* [Transfer -> state]
  gone,      \* accounts that left while this process ran
  touches    \* operations of untracked screens

session == <<gen, user, gone>>
records == <<stores, queue, disk>>
chain == <<jobs, made, broken, missed>>
cache == <<files, line>>
vars == <<session, records, chain, cache, transfer, touches>>

Idle == [kind |-> None, gen |-> 0, user |-> None, pc |-> "idle", gate |-> 0, aborted |-> FALSE]
Done == [Idle EXCEPT !.pc = "over"]
Job == [drain |-> {}, purge |-> {}, bare |-> {}, cache |-> "todo", started |-> FALSE, failed |-> FALSE]

Init ==
  /\ gen = 0
  /\ user = None
  /\ stores = {}
  /\ queue = [s \in Store |-> <<>>]
  /\ disk = [u \in User |-> Old]
  /\ jobs = <<Job>>
  /\ made = 1
  /\ broken = FALSE
  /\ missed = {}
  /\ files = <<[by |-> None, gen |-> Old]>>
  /\ line = <<>>
  /\ transfer = [t \in Transfer |-> Idle]
  /\ gone = {}
  /\ touches = 0

-----------------------------------------------------------------------------
\* The gate: ready() waits for the cleanups chained when it is called, and
\* fails when a cleanup failed or the generation has moved.

Finished == made - Len(jobs)
Through(gate) == Finished >= gate

\* Mutant: nothing is waited for.
Gate_None == 0

Gate == made
Ready(g) == ~broken /\ g = gen

-----------------------------------------------------------------------------
\* The session.

Tracked == {t \in Transfer : transfer[t].pc \notin {"idle", "over"}}
Held == {<<u, gen>> : u \in stores}

\* Mutant: running transfers are not waited for.
Draining_None == {}

Draining == Tracked

\* The store's revision moves: what was to be written before is void.
Voided(q) == [i \in DOMAIN q |-> [q[i] EXCEPT !.void = TRUE]]

\* The generation moves (a logout, a login, a rejected refresh).  The listener
\* runs at once: it takes the stores of the departing account, ends their
\* validity, aborts the transfers and chains the cleanup.
Depart ==
  /\ gen < MaxGen
  /\ gen' = gen + 1
  /\ user' = None
  /\ gone' = IF user = None THEN gone ELSE gone \union {user}
  /\ queue' = [s \in Store |-> IF s \in Held THEN Voided(queue[s]) ELSE queue[s]]
  /\ stores' = {}
  /\ jobs' = Append(jobs, [Job EXCEPT !.drain = Draining, !.purge = Held,
                                      !.bare = {user} \ (stores \union {None})])
  /\ made' = made + 1
  /\ transfer' = [t \in Transfer |-> IF t \in Tracked THEN [transfer[t] EXCEPT !.aborted = TRUE]
                                     ELSE transfer[t]]
  /\ UNCHANGED <<disk, broken, missed, cache, touches>>

SignIn ==
  /\ user = None
  /\ \E u \in User : user' = u
  /\ UNCHANGED <<gen, gone, records, chain, cache, transfer, touches>>

-----------------------------------------------------------------------------
\* The cleanup chain.

Now == Head(jobs)

\* Mutant: the newest cleanup does not wait for the ones before it.
NowIs_Last(j) == jobs' = Append(SubSeq(jobs, 1, Len(jobs) - 1), j)

NowIs(j) == jobs' = <<j>> \o Tail(jobs)

Purge(s) == [kind |-> "purge", gate |-> 0, gen |-> s[2], void |-> FALSE, by |-> None, pc |-> "queued"]

\* The transfers are over: the cache's and the stores' cleanups start together.
StartJob ==
  /\ jobs # <<>>
  /\ ~Now.started
  /\ Now.drain \intersect Tracked = {}
  /\ NowIs([Now EXCEPT !.started = TRUE])
  /\ queue' = [s \in Store |-> IF s \in Now.purge THEN Append(Voided(queue[s]), Purge(s)) ELSE queue[s]]
  /\ UNCHANGED <<session, stores, disk, made, broken, missed, cache, transfer, touches>>

ClearCache ==
  /\ jobs # <<>> /\ Now.started /\ Now.cache = "todo"
  /\ \/ files' = <<>> /\ NowIs([Now EXCEPT !.cache = "done"])
     \/ UNCHANGED files /\ NowIs([Now EXCEPT !.cache = "done", !.failed = TRUE])
  /\ UNCHANGED <<session, records, made, broken, missed, line, transfer, touches>>

\* An account whose record no store of this generation has touched.
ClearBare ==
  /\ jobs # <<>> /\ Now.started /\ Now.bare # {}
  /\ \/ disk' = [u \in User |-> IF u \in Now.bare THEN None ELSE disk[u]]
        /\ NowIs([Now EXCEPT !.bare = {}])
        /\ missed' = missed \ Now.bare
     \/ UNCHANGED disk /\ NowIs([Now EXCEPT !.bare = {}, !.failed = TRUE])
        /\ missed' = missed \union Now.bare
  /\ UNCHANGED <<session, stores, queue, made, broken, cache, transfer, touches>>

EndJob ==
  /\ jobs # <<>> /\ Now.started /\ Now.cache = "done" /\ Now.bare = {}
  /\ \A s \in Now.purge : \A i \in DOMAIN queue[s] : queue[s][i].kind # "purge"
  /\ jobs' = Tail(jobs)
  /\ broken' = Now.failed
  /\ UNCHANGED <<session, records, made, missed, cache, transfer, touches>>

-----------------------------------------------------------------------------
\* A store's operations run one after another.

Room(s) == Len(queue[s]) < MaxOps
Op(kind, s, t) ==
  [kind |-> kind, gate |-> IF kind \in Gated THEN Gate ELSE 0, gen |-> gen,
   void |-> FALSE, by |-> t, pc |-> "queued"]

\* The operation is queued; a clear voids the writes before it.
Queued(kind, s, t) ==
  queue' = [queue EXCEPT ![s] = Append(IF kind = "clear" THEN Voided(@) ELSE @, Op(kind, s, t))]

\* The first operation of a store is over; a caller waiting for it goes on.
Over(s, disk2) ==
  LET op == Head(queue[s]) IN
  /\ queue' = [queue EXCEPT ![s] = Tail(@)]
  /\ disk' = disk2
  /\ transfer' = IF op.by = None THEN transfer ELSE [transfer EXCEPT ![op.by].pc = "work"]

Erased(s) == [disk EXCEPT ![s[1]] = None]

\* Not invalidated, and of the session's generation.
Valid(s) == s[2] = gen

MayWrite(s, op) == Ready(op.gen) /\ Valid(s) /\ ~op.void

Read(s) ==
  /\ queue[s] # <<>>
  /\ Head(queue[s]).kind = "read"
  /\ Through(Head(queue[s]).gate)
  /\ Over(s, disk)
  /\ UNCHANGED <<session, stores, chain, cache, touches>>

Write(s) ==
  /\ queue[s] # <<>>
  /\ LET op == Head(queue[s]) IN
     /\ op.kind = "write" /\ op.pc = "queued"
     /\ Through(op.gate)
     /\ \/ MayWrite(s, op)
           /\ queue' = [queue EXCEPT ![s] = <<[op EXCEPT !.pc = "writing"]>> \o Tail(@)]
           /\ UNCHANGED <<disk, transfer>>
        \/ ~MayWrite(s, op) /\ Over(s, disk)
  /\ UNCHANGED <<session, stores, chain, cache, touches>>

StillValid(s, op) == Valid(s) /\ ~op.void

\* The device has written (or failed to); a write that became invalid meanwhile
\* takes its record back.
Written(s) ==
  /\ queue[s] # <<>>
  /\ LET op == Head(queue[s])
         new == [disk EXCEPT ![s[1]] = s[2]] IN
     /\ op.pc = "writing"
     /\ \/ Over(s, disk)
        \/ Over(s, new)      \* also when the device reports a failure
        \/ /\ ~StillValid(s, op)
           /\ disk' = new
           /\ queue' = [queue EXCEPT ![s] = <<[op EXCEPT !.pc = "undoing"]>> \o Tail(@)]
           /\ UNCHANGED transfer
  /\ UNCHANGED <<session, stores, chain, cache, touches>>

Undo(s) ==
  /\ queue[s] # <<>>
  /\ Head(queue[s]).pc = "undoing"
  /\ \/ Over(s, Erased(s))
     \/ Over(s, disk)
  /\ UNCHANGED <<session, stores, chain, cache, touches>>

Clear(s) ==
  /\ queue[s] # <<>>
  /\ Head(queue[s]).kind = "clear"
  /\ \/ Valid(s) /\ Over(s, Erased(s))
     \/ Over(s, disk)
  /\ UNCHANGED <<session, stores, chain, cache, touches>>

\* purge() erases whatever the validity; its failure fails the cleanup.
Purged(s) ==
  /\ queue[s] # <<>>
  /\ Head(queue[s]).kind = "purge"
  /\ \/ Over(s, Erased(s)) /\ UNCHANGED jobs /\ missed' = missed \ {s[1]}
     \/ Over(s, disk) /\ NowIs([Now EXCEPT !.failed = TRUE]) /\ missed' = missed \union {s[1]}
  /\ UNCHANGED <<session, stores, made, broken, cache, touches>>

-----------------------------------------------------------------------------
\* Transfers.  A screen of the signed-in account starts one and tracks it.

\* Mutant: the gate is asked for after another await.
Begins_Swept(kind) == "sweep"

\* A submitted file's day-old neighbours are swept before its gate is asked for.
Begins(kind) == IF kind = "file" THEN "sweep" ELSE "gate"

Start(t) ==
  /\ transfer[t] = Idle
  /\ user # None
  /\ \E kind \in Kinds[t] :
       /\ transfer' = [transfer EXCEPT ![t] =
            [kind |-> kind, gen |-> gen, user |-> user, gate |-> Gate, aborted |-> FALSE,
             pc |-> Begins(kind)]]
       /\ stores' = IF kind = "submit" THEN stores \union {user} ELSE stores
       /\ line' = IF kind # "submit" /\ Begins(kind) = "gate" THEN Append(line, t) ELSE line
  /\ UNCHANGED <<session, queue, disk, chain, files, touches>>

\* The screen is left.
Leave(t) ==
  /\ t \in Tracked
  /\ ~transfer[t].aborted
  /\ transfer' = [transfer EXCEPT ![t].aborted = TRUE]
  /\ UNCHANGED <<session, records, chain, cache, touches>>

Sweep(t) ==
  /\ transfer[t].pc = "sweep"
  /\ \E n \in 0..Len(files) : files' = SubSeq(files, n + 1, Len(files))
  /\ line' = Append(line, t)
  /\ transfer' = [transfer EXCEPT ![t].pc = "gate", ![t].gate = Gate]
  /\ UNCHANGED <<session, records, chain, touches>>

\* Mutant: downloads are not queued.
First_Always(t) == TRUE

First(t) == line # <<>> /\ Head(line) = t

\* The next download goes on (releaseCache).
PassOn(t) == line' = IF line # <<>> /\ Head(line) = t THEN Tail(line) ELSE line

\* Mutant: a download that ends keeps its place in the queue.
Release_InLine(t) == transfer' = [transfer EXCEPT ![t] = Done] /\ UNCHANGED line

\* Untracked, and out of the queue.
Release(t) == transfer' = [transfer EXCEPT ![t] = Done] /\ PassOn(t)

Admit(t) ==
  /\ transfer[t].pc = "gate"
  /\ Through(transfer[t].gate)
  /\ \/ /\ transfer[t].kind = "submit"
        /\ Ready(transfer[t].gen)
        /\ transfer' = [transfer EXCEPT ![t].pc = "work"]
        /\ UNCHANGED line
     \/ /\ transfer[t].kind # "submit"
        /\ First(t)
        /\ Ready(transfer[t].gen) /\ ~transfer[t].aborted
        /\ transfer' = [transfer EXCEPT ![t].pc = "stream"]
        /\ UNCHANGED line
     \/ /\ transfer[t].kind = "submit" \/ First(t)
        /\ ~Ready(transfer[t].gen) \/ transfer[t].aborted
        /\ Release(t)
  /\ UNCHANGED <<session, records, chain, files, touches>>

\* The response is accepted and reserveProtectedCache makes room.
Reserved ==
  IF Len(files) < MaxFiles THEN files ELSE SubSeq(files, Len(files) - MaxFiles + 2, Len(files))

Accept(t) ==
  /\ transfer[t].pc = "stream"
  /\ ~transfer[t].aborted
  /\ files' = Reserved
  /\ transfer' = [transfer EXCEPT ![t].pc = "create"]
  /\ UNCHANGED <<session, records, chain, line, touches>>

Create(t) ==
  /\ transfer[t].pc = "create"
  /\ files' = Append(files, [by |-> t, gen |-> transfer[t].gen])
  /\ transfer' = [transfer EXCEPT ![t].pc = "fill"]
  /\ UNCHANGED <<session, records, chain, line, touches>>

LetGo(t) == [i \in DOMAIN files |-> IF files[i].by = t THEN [files[i] EXCEPT !.by = None] ELSE files[i]]

\* The download fails, is cancelled or is complete.  A partial file is deleted,
\* which may fail; a complete one is opened, and stays.
EndStream(t) ==
  /\ transfer[t].pc \in {"stream", "create", "fill"}
  /\ \/ Release(t) /\ \E i \in DOMAIN files : files[i].by = t /\ files' = RemoveAt(files, i)
     \/ Release(t) /\ files' = LetGo(t)
     \/ /\ transfer[t].pc = "fill" /\ ~transfer[t].aborted
        /\ transfer' = [transfer EXCEPT ![t].pc = "open"]
        /\ files' = LetGo(t)
        /\ PassOn(t)
  /\ UNCHANGED <<session, records, chain, touches>>

CloseFile(t) ==
  /\ transfer[t].pc = "open"
  /\ Release(t)
  /\ UNCHANGED <<session, records, chain, files, touches>>

\* The submit flow asks its store for something, or ends (submit-flow.ts).
Home(t) == <<transfer[t].user, transfer[t].gen>>

\* What an invalid store refuses at once is not asked for.
Ask(t) ==
  /\ transfer[t].pc = "work"
  /\ LET s == Home(t) IN
     \E kind \in {"read", "write", "clear"} :
       /\ kind = "clear" \/ Valid(s)
       /\ Room(s)
       /\ Queued(kind, s, t)
  /\ transfer' = [transfer EXCEPT ![t].pc = "asked"]
  /\ UNCHANGED <<session, stores, disk, chain, cache, touches>>

\* Screens that are not tracked look for a record, or drop one; a screen of an
\* account that has left may do so too (assignment-detail-screen.tsx).
Touch ==
  \E u \in (gone \union {user}) \ {None} : \E kind \in {"read", "clear"} :
    LET s == <<u, gen>> IN
    /\ kind = "read" => u = user
    /\ Room(s)
    /\ touches < MaxTouches
    /\ touches' = touches + 1
    /\ stores' = stores \union {u}
    /\ Queued(kind, s, None)
    /\ UNCHANGED <<session, disk, chain, cache, transfer>>

EndSubmit(t) ==
  /\ transfer[t].pc = "work"
  /\ Release(t)
  /\ UNCHANGED <<session, records, chain, files, touches>>

-----------------------------------------------------------------------------

RunStore(s) == Read(s) \/ Write(s) \/ Written(s) \/ Undo(s) \/ Clear(s) \/ Purged(s)
RunJob == StartJob \/ ClearCache \/ ClearBare \/ EndJob
Proceed(t) == Sweep(t) \/ Admit(t) \/ Create(t) \/ EndStream(t) \/ CloseFile(t) \/ EndSubmit(t)

Next ==
  \/ Depart
  \/ SignIn
  \/ RunJob
  \/ \E s \in Store : RunStore(s)
  \/ Touch
  \/ \E t \in Transfer : Start(t) \/ Leave(t) \/ Accept(t) \/ Proceed(t) \/ Ask(t)

Spec == Init /\ [][Next]_vars

\* Promises that the device and the network settle (they have timeouts), and
\* flows that always end: a submit flow asks its store finitely often.
FairSpec ==
  /\ Spec
  /\ WF_vars(RunJob)
  /\ WF_vars(\E s \in Store : RunStore(s))
  /\ \A t \in Transfer : SF_vars(Proceed(t))

-----------------------------------------------------------------------------
\* Properties.

\* The shape of the app's memory and of the device (account-runtime.ts).
TypeOK ==
  /\ gen \in Gen
  /\ user \in User \union {None}
  /\ stores \subseteq User
  /\ \A s \in Store : \A i \in DOMAIN queue[s] :
       /\ queue[s][i].pc \in {"queued", "writing", "undoing"}
       /\ queue[s][i].pc # "queued" => i = 1 /\ queue[s][i].kind = "write"
  /\ disk \in [User -> Gen \union {None, Old}]
  /\ Len(jobs) <= made
  /\ \A i \in DOMAIN jobs : jobs[i].started => i = 1
  /\ \A i \in DOMAIN files : files[i].gen \in Gen \union {Old}
  /\ \A i, j \in DOMAIN line : line[i] = line[j] => i = j
  /\ \A t \in Transfer : transfer[t].pc \in
       {"idle", "over", "sweep", "gate", "stream", "create", "fill", "open", "work", "asked"}

\* When the cleanups are over and none failed, the device holds no protected
\* file of an earlier session and no record of an account that left, whatever
\* was being written or downloaded when it left (session-cleanup.ts, lines 2-3).
SettledIsClean ==
  jobs = <<>> /\ ~broken =>
    /\ \A i \in DOMAIN files : files[i].gen = gen
    /\ \A u \in gone \ missed : disk[u] \in {None, gen}

\* A record or a file of a new session appears only after the cleanups of all
\* the sessions before it.
NewAfterCleanup ==
  [][/\ \A u \in User : disk'[u] = gen /\ disk[u] # gen => Len(jobs) = 0
     /\ \A t \in Transfer :
          (transfer[t].gen = gen /\ transfer[t].pc = "create" /\ transfer'[t].pc = "fill")
            => Len(jobs) = 0]_vars

\* The cache never holds more files than its limit (MAX_CACHE_FILES), although
\* several downloads run.
CacheBounded == Len(files) <= MaxFiles

\* The app's memory and the device's cache.
DeviceSound == TypeOK /\ CacheBounded

\* When the session's generation changes, the cleanup it starts ends
\* (session-cleanup.ts, lines 2-3).
EveryCleanupEnds == []<>(jobs = <<>>)

\* The wait that EveryCleanupEnds runs into: the transfer of a submitted file
\* waits for a cleanup that waits for the transfer.
Embraced ==
  \E x \in Tracked, i \in DOMAIN jobs :
    /\ transfer[x].kind = "file" /\ transfer[x].pc = "gate"
    /\ x \in jobs[i].drain
    /\ Finished + i <= transfer[x].gate

\* Apart from that one, no wait of a cleanup for a transfer, of a transfer for a
\* cleanup or of downloads for each other lasts for ever: every cleanup and
\* every transfer ends (session-cleanup.ts, download-protected-file.ts).
EveryWaitEnds ==
  /\ []<>(jobs = <<>> \/ Embraced)
  /\ \A t \in Transfer : t \in Tracked ~> t \notin Tracked \/ Embraced
=============================================================================
