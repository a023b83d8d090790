------------------------ MODULE AccountCleanup_proofs ------------------------
(***************************************************************************)
(* Proofs about what the app does with an account's files and records when *)
(* the account leaves.  The inductive invariant IInv says who still owes   *)
(* what: a transfer of an account that left is waited for by the newest    *)
(* cleanup, a store of an earlier session with anything queued is purged   *)
(* by a cleanup that has not passed it, a record of an account that left   *)
(* is erased by one or is in missed, and a file of an earlier session is   *)
(* excused by a cleanup that is still to clear the cache or could not.     *)
(***************************************************************************)
EXTENDS AccountCleanup, SequenceTheorems, TLAPS

-----------------------------------------------------------------------------
(* The inductive invariant.                                                *)

\* The types of the parts of the state.
Pcs == {"idle", "over", "sweep", "gate", "stream", "create", "fill", "open", "work", "asked"}
Operation == [kind : {"read", "write", "clear", "purge"}, gate : Nat, gen : Gen, void : BOOLEAN,
              by : Transfer \union {None}, pc : {"queued", "writing", "undoing"}]
Cleanup == [drain : SUBSET Transfer, purge : SUBSET Store, bare : SUBSET User, cache : {"todo", "done"},
            started : BOOLEAN, failed : BOOLEAN]
State == [kind : {"submit", "guidebook", "file", None}, gen : Gen, user : User \union {None}, pc : Pcs,
          gate : Nat, aborted : BOOLEAN]
File == [by : Transfer \union {None}, gen : Gen \union {Old}]

\* The types, and how many generations there were.
Shape ==
  /\ gen \in Gen
  /\ user \in User \union {None}
  /\ gone \subseteq User
  /\ stores \subseteq User
  /\ queue \in [Store -> Seq(Operation)]
  /\ disk \in [User -> Gen \union {None, Old}]
  /\ jobs \in Seq(Cleanup)
  /\ made = gen + 1
  /\ Len(jobs) <= made
  /\ broken \in BOOLEAN
  /\ files \in Seq(File)
  /\ line \in Seq(Transfer)
  /\ transfer \in [Transfer -> State]

\* Only the first cleanup has started, when its transfers were over; no store is purged twice.
ChainOK ==
  /\ \A i \in DOMAIN jobs :
       /\ jobs[i].started => i = 1 /\ jobs[i].drain \intersect Tracked = {}
       /\ ~jobs[i].started => jobs[i].cache = "todo"
       /\ \A t \in jobs[i].drain : transfer[t].pc # "idle"
       /\ \A s \in jobs[i].purge : s[2] < gen
  /\ \A i, j \in DOMAIN jobs : i # j => jobs[i].purge \intersect jobs[j].purge = {}

\* The newest cleanup waits for t.
Drained(t) == jobs # <<>> /\ t \in jobs[Len(jobs)].drain

\* A cleanup that waits for t will purge the store t works with.
Followed(t) == \E i \in DOMAIN jobs : Home(t) \in jobs[i].purge /\ t \in jobs[i].drain

\* A transfer of an account that left is waited for; one that passed the gate in this session
\* found no cleanup left.
Running(t) ==
  LET x == transfer[t] IN
  /\ x.user \in User
  /\ x.gen <= gen
  /\ x.gen < gen => Drained(t)
  /\ x.kind = "submit" => IF x.gen = gen THEN x.user \in stores ELSE Followed(t)
  /\ x.pc \in {"work", "asked"} => x.kind = "submit"
  /\ x.pc = "sweep" => x.kind = "file"
  /\ x.gen = gen /\ x.pc = "gate" => x.gate = made
  /\ x.gen = gen /\ x.pc \in {"stream", "create"} => jobs = <<>>

\* A purge is queued.
HasPurge(s) == \E k \in DOMAIN queue[s] : queue[s][k].kind = "purge"

\* A cleanup will purge the store, or has it queued.
Purging(s) == \E i \in DOMAIN jobs : s \in jobs[i].purge /\ (jobs[i].started => HasPurge(s))

\* A write under way in this session found no cleanup left; a purge is the last of its queue.
OpOK(s, i) ==
  LET op == queue[s][i] IN
  /\ op.pc # "queued" => i = 1 /\ op.kind = "write"
  /\ op.kind = "write" => op.gate = s[2] + 1
  /\ op.pc # "queued" /\ s[2] = gen => jobs = <<>>
  /\ op.by # None => transfer[op.by].pc = "asked" /\ Home(op.by) = s
  /\ \A j \in DOMAIN queue[s] : op.by # None /\ queue[s][j].by = op.by => i = j
  /\ op.kind = "purge" => i = Len(queue[s]) /\ jobs # <<>> /\ jobs[1].started /\ s \in jobs[1].purge

\* Only stores of this session, or stores still to be purged, have operations.
QueueOK(s) ==
  /\ \A i \in DOMAIN queue[s] : OpOK(s, i)
  /\ queue[s] # <<>> => IF s[2] = gen THEN s[1] \in stores ELSE s[2] < gen /\ Purging(s)

\* The record of u is going to be erased.
Pending(u) ==
  \E i \in DOMAIN jobs : u \in jobs[i].bare \/ \E s \in jobs[i].purge : s[1] = u /\ (jobs[i].started => HasPurge(s))

\* A record of an account that left is going to be erased, or could not be.
RecordOK(u) ==
  /\ disk[u] = gen => u \in stores
  /\ disk[u] \in Gen => disk[u] <= gen
  /\ disk[u] \notin {None, gen} /\ (disk[u] = Old => u \in gone) => u \in missed \/ Pending(u)

\* The newest cleanup will clear the cache or could not.
Excused == IF jobs = <<>> THEN broken ELSE jobs[Len(jobs)].cache = "todo" \/ jobs[Len(jobs)].failed

\* The downloads that stream, create or fill a file are first in the queue, so at most one does.
CacheOK ==
  /\ Len(files) <= MaxFiles
  /\ \A i, j \in DOMAIN line : line[i] = line[j] => i = j
  /\ \A i \in DOMAIN line :
       transfer[line[i]].kind # "submit" /\ transfer[line[i]].pc \in {"gate", "stream", "create", "fill"}
  /\ \A t \in Transfer : transfer[t].pc \in {"stream", "create", "fill"} => First(t)
  /\ \A t \in Transfer : transfer[t].pc = "create" => Len(files) < MaxFiles
  /\ \A i \in DOMAIN files : files[i].gen # gen => Excused

IInv ==
  /\ Shape
  /\ ChainOK
  /\ \A t \in Tracked : Running(t)
  /\ \A s \in Store : QueueOK(s)
  /\ \A u \in User : RecordOK(u)
  /\ CacheOK

-----------------------------------------------------------------------------
(* Sequences.                                                              *)

\* A sequence with another first element.
LEMMA Joined ==
  ASSUME NEW S, NEW s \in Seq(S), s # <<>>, NEW x \in S, NEW t, t = <<x>> \o Tail(s)
  PROVE  /\ t \in Seq(S) /\ Len(t) = Len(s) /\ t # <<>> /\ DOMAIN t = DOMAIN s
         /\ t[1] = x /\ \A i \in DOMAIN s : i # 1 => t[i] = s[i]
<1>1. Tail(s) \in Seq(S) /\ Len(Tail(s)) = Len(s) - 1 /\ Len(s) \in Nat /\ Len(s) >= 1
  OBVIOUS
<1>2. \A i \in 1..Len(Tail(s)) : Tail(s)[i] = s[i + 1] OBVIOUS
<1>3. <<x>> \in Seq(S) /\ Len(<<x>>) = 1 /\ <<x>>[1] = x OBVIOUS
<1>4. t \in Seq(S) /\ Len(t) = Len(<<x>>) + Len(Tail(s)) BY <1>1, <1>3, ConcatProperties
<1>5. \A i \in 1..(Len(<<x>>) + Len(Tail(s))) :
        t[i] = IF i <= Len(<<x>>) THEN <<x>>[i] ELSE Tail(s)[i - Len(<<x>>)]
  BY <1>1, <1>3, ConcatProperties
<1>6. Len(t) = Len(s) /\ DOMAIN t = 1..Len(s) /\ DOMAIN s = 1..Len(s) BY <1>1, <1>3, <1>4
<1>7. t[1] = x BY <1>1, <1>3, <1>5
<1>8. ASSUME NEW i \in DOMAIN s, i # 1 PROVE t[i] = s[i]
  <2>1. i \in 1..(Len(<<x>>) + Len(Tail(s))) /\ ~(i <= Len(<<x>>)) /\ i - Len(<<x>>) \in 1..Len(Tail(s))
    BY <1>1, <1>3, <1>6, <1>8
  <2>2. t[i] = Tail(s)[i - 1] BY <1>3, <1>5, <2>1
  <2> QED BY <1>1, <1>2, <1>3, <1>6, <2>1, <2>2
<1> QED BY <1>1, <1>4, <1>6, <1>7, <1>8

\* A sequence without its first n elements.
LEMMA Suffix ==
  ASSUME NEW S, NEW s \in Seq(S), NEW n \in Nat, n <= Len(s), NEW t, t = SubSeq(s, n + 1, Len(s))
  PROVE  /\ t \in Seq(S) /\ Len(t) = Len(s) - n
         /\ \A i \in DOMAIN t : i + n \in DOMAIN s /\ t[i] = s[i + n]
<1>1. Len(s) \in Nat /\ DOMAIN s = 1..Len(s) OBVIOUS
<1>2. t \in Seq(S) /\ Len(t) = IF n + 1 <= Len(s) THEN Len(s) - (n + 1) + 1 ELSE 0
  BY <1>1, SubSeqProperties
<1> DEFINE l == Len(s)
           m == Len(t)
<1>3. m = l - n
  <2>1. m = IF n + 1 <= l THEN l - (n + 1) + 1 ELSE 0 BY <1>2
  <2>2. l \in Nat /\ n <= l BY <1>1
  <2> HIDE DEF l, m
  <2> QED BY <2>1, <2>2
<1>6. DOMAIN t = 1..m BY <1>2
<1>4. \A i \in 1..(Len(s) - (n + 1) + 1) : t[i] = s[(n + 1) + i - 1] BY <1>1, SubSeqProperties
<1>5. ASSUME NEW i \in DOMAIN t PROVE i + n \in DOMAIN s /\ t[i] = s[i + n]
  <2>1. i \in 1..(l - (n + 1) + 1) /\ (n + 1) + i - 1 = i + n /\ i + n \in 1..l
    <3>1. l \in Nat /\ i \in 1..m BY <1>1, <1>5, <1>6
    <3> HIDE DEF l, m
    <3> QED BY <1>3, <3>1
  <2>2. t[i] = s[(n + 1) + i - 1] BY <1>4, <2>1
  <2> QED BY <1>1, <2>1, <2>2
<1> QED BY <1>2, <1>3, <1>5

\* A sequence without one of its elements.
LEMMA Removed ==
  ASSUME NEW S, NEW s \in Seq(S), NEW k \in DOMAIN s, NEW t, t = RemoveAt(s, k)
  PROVE  /\ t \in Seq(S) /\ Len(t) = Len(s) - 1
         /\ \A i \in DOMAIN t : \E j \in DOMAIN s : t[i] = s[j]
<1> DEFINE a == SubSeq(s, 1, k - 1)
           b == SubSeq(s, k + 1, Len(s))
<1>1. Len(s) \in Nat /\ DOMAIN s = 1..Len(s) /\ k \in 1..Len(s) OBVIOUS
<1>2. a \in Seq(S) /\ Len(a) = k - 1 /\ \A i \in 1..Len(a) : a[i] = s[i]
  <2>1. a \in Seq(S) /\ Len(a) = IF 1 <= k - 1 THEN (k - 1) - 1 + 1 ELSE 0 BY <1>1, SubSeqProperties
  <2>2. \A i \in 1..((k - 1) - 1 + 1) : a[i] = s[1 + i - 1] BY <1>1, SubSeqProperties
  <2>3. Len(a) = k - 1 BY <1>1, <2>1
  <2>4. ASSUME NEW i \in 1..Len(a) PROVE a[i] = s[i]
    <3>1. i \in 1..((k - 1) - 1 + 1) /\ 1 + i - 1 = i BY <1>1, <2>3
    <3> QED BY <2>2, <3>1
  <2> QED BY <2>1, <2>3, <2>4
<1>3. b \in Seq(S) /\ Len(b) = Len(s) - k /\ \A i \in DOMAIN b : i + k \in DOMAIN s /\ b[i] = s[i + k]
  BY <1>1, Suffix
<1>4. t = a \o b BY DEF RemoveAt
<1> HIDE DEF a, b
<1>5. t \in Seq(S) /\ Len(t) = Len(a) + Len(b) BY <1>2, <1>3, <1>4, ConcatProperties
<1>9. a \in Seq(S) /\ b \in Seq(S) BY <1>2, <1>3
<1>10. \A i \in 1..(Len(a) + Len(b)) : (a \o b)[i] = IF i <= Len(a) THEN a[i] ELSE b[i - Len(a)]
  BY <1>9, ConcatProperties
<1>6. \A i \in 1..(Len(a) + Len(b)) : t[i] = IF i <= Len(a) THEN a[i] ELSE b[i - Len(a)]
  BY <1>4, <1>10
<1>7. ASSUME NEW i \in DOMAIN t PROVE \E j \in DOMAIN s : t[i] = s[j]
  <2>1. i \in 1..(Len(a) + Len(b)) BY <1>5
  <2>2. CASE i <= Len(a)
    <3>1. i \in 1..Len(a) /\ i \in DOMAIN s BY <1>1, <1>2, <2>1, <2>2
    <3> QED BY <1>2, <1>6, <2>1, <2>2, <3>1
  <2>3. CASE ~(i <= Len(a))
    <3>1. i - Len(a) \in DOMAIN b BY <1>1, <1>2, <1>3, <2>1, <2>3
    <3> QED BY <1>3, <1>6, <2>1, <2>3, <3>1
  <2> QED BY <2>2, <2>3
<1>8. Len(t) = Len(s) - 1 BY <1>1, <1>2, <1>3, <1>5
<1> QED BY <1>5, <1>7, <1>8

\* Voiding changes nothing else of a queue.
LEMMA VoidedQueue ==
  ASSUME NEW q \in Seq(Operation)
  PROVE  /\ Voided(q) \in Seq(Operation) /\ Len(Voided(q)) = Len(q) /\ DOMAIN Voided(q) = DOMAIN q
         /\ \A i \in DOMAIN q : /\ Voided(q)[i].kind = q[i].kind /\ Voided(q)[i].gate = q[i].gate
                                /\ Voided(q)[i].by = q[i].by /\ Voided(q)[i].pc = q[i].pc
<1>1. DOMAIN q = 1..Len(q) /\ Len(q) \in Nat OBVIOUS
<1>2. ASSUME NEW i \in DOMAIN q
      PROVE  LET c == [q[i] EXCEPT !.void = TRUE] IN
             c \in Operation /\ c.kind = q[i].kind /\ c.gate = q[i].gate /\ c.by = q[i].by /\ c.pc = q[i].pc
  <2>1. q[i] \in Operation OBVIOUS
  <2>2. PICK c : c = [q[i] EXCEPT !.void = TRUE] OBVIOUS
  <2>3. c.kind = q[i].kind /\ c.gate = q[i].gate /\ c.by = q[i].by /\ c.pc = q[i].pc
    BY <2>1, <2>2 DEF Operation
  <2>4. c \in Operation BY <2>1, <2>2 DEF Operation
  <2> QED BY <2>2, <2>3, <2>4
<1>3. Voided(q) = [i \in 1..Len(q) |-> [q[i] EXCEPT !.void = TRUE]] BY <1>1 DEF Voided
<1>4. \A i \in 1..Len(q) : Voided(q)[i] \in Operation BY <1>1, <1>2, <1>3
<1>5. Voided(q) \in [1..Len(q) -> Operation] BY <1>3, <1>4
<1>6. Voided(q) \in Seq(Operation) /\ Len(Voided(q)) = Len(q) BY <1>1, <1>5
<1> QED BY <1>1, <1>2, <1>3, <1>6

\* Files of no download any more.
LEMMA LetGoFiles ==
  ASSUME files \in Seq(File), NEW t \in Transfer
  PROVE  /\ LetGo(t) \in Seq(File) /\ Len(LetGo(t)) = Len(files) /\ DOMAIN LetGo(t) = DOMAIN files
         /\ \A i \in DOMAIN files : LetGo(t)[i].gen = files[i].gen
<1>1. DOMAIN files = 1..Len(files) /\ Len(files) \in Nat OBVIOUS
<1>2. ASSUME NEW i \in DOMAIN files
      PROVE  LET c == IF files[i].by = t THEN [files[i] EXCEPT !.by = None] ELSE files[i] IN
             c \in File /\ c.gen = files[i].gen
  <2>1. files[i] \in File OBVIOUS
  <2> QED BY <2>1 DEF File
<1>3. LetGo(t) = [i \in 1..Len(files) |-> IF files[i].by = t THEN [files[i] EXCEPT !.by = None] ELSE files[i]]
  BY <1>1 DEF LetGo
<1>4. \A i \in 1..Len(files) : LetGo(t)[i] \in File BY <1>1, <1>2, <1>3
<1>5. LetGo(t) \in [1..Len(files) -> File] BY <1>3, <1>4
<1>6. LetGo(t) \in Seq(File) /\ Len(LetGo(t)) = Len(files) BY <1>1, <1>5
<1> QED BY <1>1, <1>2, <1>3, <1>6

-----------------------------------------------------------------------------
(* What steps that change little keep.                                     *)

\* The cleanups keep their plans and who has started.
SamePlans ==
  /\ Len(jobs') = Len(jobs)
  /\ \A i \in DOMAIN jobs : /\ jobs'[i].drain = jobs[i].drain /\ jobs'[i].purge = jobs[i].purge
                            /\ jobs'[i].started = jobs[i].started

\* Transfers that began do not begin again, and those that are over stay so.
Onward ==
  \A t \in Transfer : /\ transfer'[t].pc = "idle" => transfer[t].pc = "idle"
                      /\ transfer[t].pc = "over" => transfer'[t].pc = "over"

\* The types of a cleanup.
LEMMA JobType ==
  ASSUME Shape, NEW i \in DOMAIN jobs
  PROVE  /\ jobs[i] \in Cleanup
         /\ jobs[i].drain \subseteq Transfer /\ jobs[i].purge \subseteq Store /\ jobs[i].bare \subseteq User
<1>1. jobs \in Seq(Cleanup) BY DEF Shape
<1>2. jobs[i] \in Cleanup BY <1>1
<1> QED BY <1>2 DEF Cleanup

\* The type of an operation.
LEMMA OpType ==
  ASSUME Shape, NEW s \in Store, NEW i \in DOMAIN queue[s]
  PROVE  queue[s][i] \in Operation /\ queue[s][i].by \in Transfer \union {None}
<1>1. queue[s] \in Seq(Operation) BY DEF Shape
<1>2. queue[s][i] \in Operation BY <1>1
<1> QED BY <1>2 DEF Operation

\* As many cleanups as before.
LEMMA SameDomain ==
  ASSUME Shape, Shape', Len(jobs') = Len(jobs)
  PROVE  DOMAIN jobs' = DOMAIN jobs /\ (jobs' = <<>> <=> jobs = <<>>) /\ DOMAIN jobs = 1..Len(jobs)
         /\ Len(jobs) \in Nat
BY DEF Shape

\* A step that leaves the chain alone.
LEMMA Unmoved ==
  ASSUME Shape, UNCHANGED jobs
  PROVE  SamePlans
BY DEF SamePlans

\* What keeps the chain in order.
LEMMA ChainKept ==
  ASSUME Shape, Shape', ChainOK, SamePlans, gen' = gen, Onward,
         \A i \in DOMAIN jobs : ~jobs'[i].started => jobs'[i].cache = "todo"
  PROVE  ChainOK'
<1>1. DOMAIN jobs' = DOMAIN jobs BY SameDomain DEF SamePlans
<1>2. ASSUME NEW i \in DOMAIN jobs', jobs'[i].started
      PROVE  i = 1 /\ jobs'[i].drain \intersect Tracked' = {}
  <2>1. i = 1 /\ jobs[i].drain \intersect Tracked = {} /\ \A t \in jobs[i].drain : transfer[t].pc # "idle"
    BY <1>1, <1>2 DEF ChainOK, SamePlans
  <2>2. ASSUME NEW t \in jobs[i].drain, t \in Transfer PROVE t \notin Tracked'
    <3>1. transfer[t].pc = "over" BY <2>1, <2>2 DEF Tracked
    <3> QED BY <3>1 DEF Onward, Tracked
  <2>3. jobs'[i].drain = jobs[i].drain BY <1>1 DEF SamePlans
  <2> QED BY <2>1, <2>2, <2>3 DEF Tracked
<1>3. ASSUME NEW i \in DOMAIN jobs'
      PROVE  /\ ~jobs'[i].started => jobs'[i].cache = "todo"
             /\ \A t \in jobs'[i].drain : transfer'[t].pc # "idle"
             /\ \A s \in jobs'[i].purge : s[2] < gen'
  <2>1. i \in DOMAIN jobs /\ jobs'[i].drain = jobs[i].drain /\ jobs'[i].purge = jobs[i].purge
    BY <1>1 DEF SamePlans
  <2>2. jobs[i].drain \subseteq Transfer BY <2>1, JobType
  <2> QED BY <2>1, <2>2 DEF ChainOK, Onward
<1>4. \A i, j \in DOMAIN jobs' : i # j => jobs'[i].purge \intersect jobs'[j].purge = {}
  BY <1>1 DEF ChainOK, SamePlans
<1> QED BY <1>2, <1>3, <1>4 DEF ChainOK

\* The cleanups go on following a transfer of theirs.
LEMMA StillFollowed ==
  ASSUME Shape, Shape', SamePlans, NEW t \in Transfer, Home(t)' = Home(t)
  PROVE  (Drained(t) => Drained(t)') /\ (Followed(t) => Followed(t)')
<1>1. DOMAIN jobs' = DOMAIN jobs /\ (jobs' = <<>> <=> jobs = <<>>) /\ DOMAIN jobs = 1..Len(jobs)
  /\ Len(jobs) \in Nat
  BY SameDomain DEF SamePlans
<1>2. Drained(t) => Drained(t)'
  <2> SUFFICES ASSUME Drained(t) PROVE Drained(t)' OBVIOUS
  <2>1. jobs # <<>> /\ t \in jobs[Len(jobs)].drain BY DEF Drained
  <2>2. Len(jobs) \in DOMAIN jobs BY <1>1, <2>1 DEF Shape
  <2> QED BY <1>1, <2>1, <2>2 DEF Drained, SamePlans
<1>3. Followed(t) => Followed(t)' BY <1>1 DEF Followed, SamePlans
<1> QED BY <1>2, <1>3

\* What keeps a transfer in order while it stays where it is.
LEMMA StillRunning ==
  ASSUME Shape, Shape', SamePlans, gen' = gen, stores \subseteq stores', NEW t \in Transfer,
         Running(t), transfer'[t].kind = transfer[t].kind, transfer'[t].gen = transfer[t].gen,
         transfer'[t].user = transfer[t].user, transfer'[t].gate = transfer[t].gate,
         transfer'[t].pc = transfer[t].pc
  PROVE  Running(t)'
<1>1. Home(t)' = Home(t) BY DEF Home
<1>2. made' = made BY DEF Shape
<1>3. (jobs' = <<>> <=> jobs = <<>>) BY SameDomain DEF SamePlans
<1> QED BY <1>1, <1>2, <1>3, StillFollowed DEF Running

\* A queue that does not change stays in order.
LEMMA QueueKept ==
  ASSUME Shape, Shape', SamePlans, gen' = gen, stores \subseteq stores', NEW s \in Store, QueueOK(s),
         queue'[s] = queue[s],
         \A t \in Transfer : transfer[t].pc = "asked" /\ Home(t) = s => transfer'[t].pc = "asked" /\ Home(t)' = s
  PROVE  QueueOK(s)'
<1>1. DOMAIN jobs' = DOMAIN jobs /\ (jobs' = <<>> <=> jobs = <<>>) /\ DOMAIN jobs = 1..Len(jobs)
  /\ Len(jobs) \in Nat
  BY SameDomain DEF SamePlans
<1>2. HasPurge(s)' <=> HasPurge(s) BY DEF HasPurge
<1>3. Purging(s) => Purging(s)' BY <1>1, <1>2 DEF Purging, SamePlans
<1>4. ASSUME NEW i \in DOMAIN queue'[s] PROVE OpOK(s, i)'
  <2>1. i \in DOMAIN queue[s] /\ OpOK(s, i) BY <1>4 DEF QueueOK
  <2>2. queue[s][i].by # None => queue[s][i].by \in Transfer BY <2>1, OpType
  <2>3. jobs # <<>> => 1 \in DOMAIN jobs BY <1>1 DEF Shape
  <2> DEFINE op == queue[s][i]
  <2>4. /\ op.pc # "queued" => i = 1 /\ op.kind = "write"
        /\ op.kind = "write" => op.gate = s[2] + 1
        /\ op.pc # "queued" /\ s[2] = gen => jobs = <<>>
        /\ op.by # None => transfer[op.by].pc = "asked" /\ Home(op.by) = s
        /\ \A j \in DOMAIN queue[s] : op.by # None /\ queue[s][j].by = op.by => i = j
        /\ op.kind = "purge" => i = Len(queue[s]) /\ jobs # <<>> /\ jobs[1].started /\ s \in jobs[1].purge
    BY <2>1 DEF OpOK
  <2>5. queue'[s][i] = op OBVIOUS
  <2>6. op.by # None => transfer'[op.by].pc = "asked" /\ <<transfer'[op.by].user, transfer'[op.by].gen>> = s
    BY <2>2, <2>4 DEF Home
  <2>7. op.kind = "purge" => i = Len(queue'[s]) /\ jobs' # <<>> /\ jobs'[1].started /\ s \in jobs'[1].purge
    BY <1>1, <2>3, <2>4 DEF SamePlans
  <2> DEFINE new == queue'[s][i]
  <2>8. /\ new.pc # "queued" => i = 1 /\ new.kind = "write"
        /\ new.kind = "write" => new.gate = s[2] + 1
        /\ new.pc # "queued" /\ s[2] = gen' => jobs' = <<>>
    BY <1>1, <2>4, <2>5
  <2>9. new.by # None => transfer'[new.by].pc = "asked" /\ <<transfer'[new.by].user, transfer'[new.by].gen>> = s
    BY <2>5, <2>6
  <2>10. \A j \in DOMAIN queue'[s] : new.by # None /\ queue'[s][j].by = new.by => i = j BY <2>4, <2>5
  <2>11. new.kind = "purge" => i = Len(queue'[s]) /\ jobs' # <<>> /\ jobs'[1].started /\ s \in jobs'[1].purge
    BY <2>5, <2>7
  <2> HIDE DEF op
  <2> QED BY <2>8, <2>9, <2>10, <2>11 DEF OpOK, Home
<1> QED BY <1>3, <1>4 DEF QueueOK

\* What is going to be erased still is.
LEMMA PendingKept ==
  ASSUME Shape, Shape', SamePlans, NEW u \in User, Pending(u),
         \A s \in Store : HasPurge(s) => HasPurge(s)',
         \A i \in DOMAIN jobs : u \in jobs[i].bare => u \in jobs'[i].bare
  PROVE  Pending(u)'
<1>1. DOMAIN jobs' = DOMAIN jobs BY SameDomain DEF SamePlans
<1>2. PICK i \in DOMAIN jobs : u \in jobs[i].bare \/ \E s \in jobs[i].purge : s[1] = u /\ (jobs[i].started => HasPurge(s))
  BY DEF Pending
<1>3. CASE u \in jobs[i].bare BY <1>1, <1>2, <1>3 DEF Pending
<1>4. CASE \E s \in jobs[i].purge : s[1] = u /\ (jobs[i].started => HasPurge(s))
  <2>1. PICK s \in jobs[i].purge : s[1] = u /\ (jobs[i].started => HasPurge(s)) BY <1>4
  <2>3. s \in Store BY <1>2, <2>1, JobType
  <2>4. s \in jobs'[i].purge /\ (jobs'[i].started => HasPurge(s)') BY <1>2, <2>1, <2>3 DEF SamePlans
  <2> QED BY <1>1, <2>1, <2>4 DEF Pending
<1> QED BY <1>2, <1>3, <1>4

\* A record that does not change stays as it may be.
LEMMA RecordKept ==
  ASSUME NEW u \in User, RecordOK(u), gen' = gen, disk'[u] = disk[u], gone' = gone, stores \subseteq stores',
         u \in missed => u \in missed', Pending(u) => Pending(u)'
  PROVE  RecordOK(u)'
BY DEF RecordOK

\* Where a download may be that is in the queue of downloads.
Admitted == {"gate", "stream", "create", "fill"}

\* What keeps the cache in order while downloads stay where they are.
LEMMA CacheKept ==
  ASSUME Shape, Shape', CacheOK, Len(jobs') = Len(jobs), gen' = gen, UNCHANGED <<files, line, broken>>,
         \A t \in Transfer : \/ transfer'[t].pc = transfer[t].pc /\ transfer'[t].kind = transfer[t].kind
                             \/ transfer[t].pc \notin Admitted /\ transfer'[t].pc \notin Admitted,
         \A i \in DOMAIN jobs : jobs[i].cache = "todo" \/ jobs[i].failed => jobs'[i].cache = "todo" \/ jobs'[i].failed
  PROVE  CacheOK'
<1>1. DOMAIN jobs' = DOMAIN jobs /\ (jobs' = <<>> <=> jobs = <<>>) /\ DOMAIN jobs = 1..Len(jobs)
  /\ Len(jobs) \in Nat
  BY SameDomain
<1>2. \A i \in DOMAIN line : line[i] \in Transfer BY DEF Shape
<1>3. \A i \in DOMAIN line : transfer'[line[i]].kind # "submit" /\ transfer'[line[i]].pc \in Admitted
  BY <1>2 DEF CacheOK, Admitted
<1>4. \A t \in Transfer : transfer'[t].pc \in {"stream", "create", "fill"} => First(t)
  BY DEF CacheOK, Admitted
<1>5. \A t \in Transfer : First(t)' <=> First(t) BY DEF First
<1>6. \A t \in Transfer : transfer'[t].pc = "create" => Len(files) < MaxFiles BY DEF CacheOK, Admitted
<1>7. ASSUME NEW i \in DOMAIN files, files[i].gen # gen
      PROVE  Excused'
  <2>1. Excused BY <1>7 DEF CacheOK
  <2>2. jobs # <<>> => Len(jobs) \in DOMAIN jobs BY <1>1 DEF Shape
  <2> QED BY <1>1, <2>1, <2>2 DEF Excused
<1>8. Len(files) <= MaxFiles /\ \A i, j \in DOMAIN line : line[i] = line[j] => i = j BY DEF CacheOK
<1> QED BY <1>3, <1>4, <1>5, <1>6, <1>7, <1>8 DEF CacheOK, Admitted

-----------------------------------------------------------------------------
(* Transfers and the cache.                                                *)

\* One transfer moves.
LEMMA Moved ==
  ASSUME Shape, NEW t \in Transfer, NEW x \in State, transfer' = [transfer EXCEPT ![t] = x]
  PROVE  /\ transfer' \in [Transfer -> State] /\ transfer'[t] = x
         /\ \A u \in Transfer : u # t => transfer'[u] = transfer[u]
BY DEF Shape

\* A step of one transfer.
LEMMA TransferStep ==
  ASSUME IInv, NEW t \in Transfer, NEW x \in State, transfer' = [transfer EXCEPT ![t] = x],
         UNCHANGED <<session, queue, disk, chain>>,
         stores \subseteq stores', stores' \subseteq User, files' \in Seq(File), line' \in Seq(Transfer),
         transfer[t].pc # "over", x.pc # "idle",
         transfer[t].pc = "asked" => x.pc = "asked" /\ x.user = transfer[t].user /\ x.gen = transfer[t].gen,
         x.pc # "over" => Running(t)', CacheOK'
  PROVE  IInv'
<1>1. Shape /\ ChainOK BY DEF IInv
<1>2. /\ transfer' \in [Transfer -> State] /\ transfer'[t] = x
      /\ \A u \in Transfer : u # t => transfer'[u] = transfer[u]
  BY <1>1, Moved
<1>3. gen' = gen /\ jobs' = jobs /\ made' = made /\ broken' = broken /\ missed' = missed /\ gone' = gone
  /\ user' = user /\ queue' = queue /\ disk' = disk
  BY DEF session, chain
<1>4. Shape' BY <1>1, <1>2, <1>3 DEF Shape
<1>5. SamePlans BY <1>1, <1>3, Unmoved
<1>6. Onward BY <1>2 DEF Onward
<1>7. ChainOK' BY <1>1, <1>3, <1>4, <1>5, <1>6, ChainKept DEF ChainOK
<1>8. ASSUME NEW u \in Tracked' PROVE Running(u)'
  <2>1. u \in Transfer BY DEF Tracked
  <2>2. CASE u = t BY <1>2, <2>2 DEF Tracked
  <2>3. CASE u # t
    <3>1. transfer'[u] = transfer[u] /\ u \in Tracked BY <1>2, <2>1, <2>3 DEF Tracked
    <3>2. Running(u) BY <3>1 DEF IInv
    <3> QED BY <1>1, <1>3, <1>4, <1>5, <2>1, <3>1, <3>2, StillRunning
  <2> QED BY <2>2, <2>3
<1>9. ASSUME NEW s \in Store PROVE QueueOK(s)'
  <2>1. QueueOK(s) BY DEF IInv
  <2>2. ASSUME NEW u \in Transfer, transfer[u].pc = "asked" /\ Home(u) = s
        PROVE  transfer'[u].pc = "asked" /\ Home(u)' = s
    BY <1>2, <2>2 DEF Home
  <2> QED BY <1>1, <1>3, <1>4, <1>5, <2>1, <2>2, QueueKept
<1>10. ASSUME NEW u \in User PROVE RecordOK(u)'
  <2>1. RecordOK(u) BY DEF IInv
  <2>2. Pending(u) => Pending(u)' BY <1>3 DEF Pending, HasPurge
  <2> QED BY <1>3, <2>1, <2>2, RecordKept
<1> QED BY <1>4, <1>7, <1>8, <1>9, <1>10 DEF IInv

\* Only t moves, and the chain does not.
OnlyMoves(t) ==
  /\ \A u \in Transfer : u # t => transfer'[u] = transfer[u]
  /\ UNCHANGED <<gen, jobs, broken>>

\* The files f, at most as many as there are, and of generations that are there.
Fewer(f) == Len(f) <= Len(files) /\ \A i \in DOMAIN f : \E j \in DOMAIN files : f[i].gen = files[j].gen

\* With fewer files the cache is no worse.
LEMMA FewerFiles ==
  ASSUME CacheOK, UNCHANGED <<gen, jobs, broken>>, Shape, NEW f \in Seq(File), Fewer(f)
  PROVE  /\ Len(f) <= MaxFiles
         /\ \A t \in Transfer : transfer[t].pc = "create" => Len(f) < MaxFiles
         /\ \A i \in DOMAIN f : f[i].gen # gen' => Excused'
<1>1. MaxFiles \in Nat BY CleanupAssumption
<1>2. Len(f) \in Nat /\ Len(files) \in Nat BY DEF Shape
<1>3. Excused' <=> Excused BY DEF Excused
<1> QED BY <1>1, <1>2, <1>3 DEF CacheOK, Fewer

\* A transfer that is not in the queue of downloads stays out of it.
LEMMA Aside ==
  ASSUME Shape, Shape', CacheOK, NEW t \in Transfer, OnlyMoves(t), UNCHANGED <<files, line>>,
         transfer[t].kind = "submit" \/ transfer[t].pc \notin Admitted,
         transfer'[t].pc \notin {"stream", "create", "fill"}
  PROVE  CacheOK'
<1>1. \A i \in DOMAIN line : line[i] \in Transfer BY DEF Shape
<1>2. \A i \in DOMAIN line : line[i] # t BY DEF CacheOK, Admitted
<1>3. \A i \in DOMAIN line : transfer'[line[i]] = transfer[line[i]] BY <1>1, <1>2 DEF OnlyMoves
<1>4. \A u \in Transfer : transfer'[u].pc \in {"stream", "create", "fill"} =>
        First(u)' /\ transfer[u].pc = transfer'[u].pc
  BY DEF CacheOK, OnlyMoves, First
<1>5. Excused' <=> Excused BY DEF OnlyMoves, Excused
<1>6. \A i \in DOMAIN line : transfer'[line[i]].kind # "submit" /\ transfer'[line[i]].pc \in Admitted
  BY <1>3 DEF CacheOK, Admitted
<1>7. \A u \in Transfer : transfer'[u].pc = "create" => Len(files) < MaxFiles BY <1>4 DEF CacheOK
<1> QED BY <1>4, <1>5, <1>6, <1>7 DEF CacheOK, Admitted, OnlyMoves

\* A download joins the queue.
LEMMA Joins ==
  ASSUME Shape, Shape', CacheOK, NEW t \in Transfer, OnlyMoves(t), line' = Append(line, t), Fewer(files'),
         transfer[t].pc \notin Admitted, transfer'[t].kind # "submit", transfer'[t].pc = "gate"
  PROVE  CacheOK'
<1>1. \A i \in DOMAIN line : line[i] \in Transfer BY DEF Shape
<1>2. \A i \in DOMAIN line : line[i] # t BY DEF CacheOK, Admitted
<1>3. \A i \in DOMAIN line : transfer'[line[i]] = transfer[line[i]] BY <1>1, <1>2 DEF OnlyMoves
<1>4. /\ DOMAIN line' = 1..(Len(line) + 1) /\ DOMAIN line = 1..Len(line) /\ Len(line) \in Nat
      /\ \A i \in DOMAIN line : line'[i] = line[i]
      /\ line'[Len(line) + 1] = t
  BY DEF Shape
<1>5. \A i \in DOMAIN line' : i \in DOMAIN line \/ i = Len(line) + 1 BY <1>4
<1>6. \A i, j \in DOMAIN line' : line'[i] = line'[j] => i = j BY <1>2, <1>4, <1>5 DEF CacheOK
<1>7. \A i \in DOMAIN line : transfer'[line[i]].kind # "submit" /\ transfer'[line[i]].pc \in Admitted
  BY <1>3 DEF CacheOK, Admitted
<1>8. \A i \in DOMAIN line' : transfer'[line'[i]].kind # "submit" /\ transfer'[line'[i]].pc \in Admitted
  BY <1>4, <1>5, <1>7 DEF Admitted
<1>9. ASSUME NEW u \in Transfer, First(u) PROVE First(u)'
  <2>1. line # <<>> /\ Head(line) = u /\ line \in Seq(Transfer) BY <1>9 DEF First, Shape
  <2>2. line[1] = u /\ 1 \in DOMAIN line BY <2>1
  <2>5. line' \in Seq(Transfer) BY DEF Shape
  <2>6. line'[1] = u BY <1>4, <2>2
  <2>7. 1 \in DOMAIN line' BY <1>4
  <2>3. line' \in Seq(Transfer) /\ line' # <<>> /\ line'[1] = u BY <2>5, <2>6, <2>7
  <2>4. Head(line') = u BY <2>3
  <2> QED BY <2>3, <2>4 DEF First
<1>10. \A u \in Transfer : transfer'[u].pc \in {"stream", "create", "fill"} =>
        First(u)' /\ transfer[u].pc = transfer'[u].pc
  BY <1>9 DEF CacheOK, OnlyMoves
<1>11. files' \in Seq(File) BY DEF Shape
<1>12. /\ Len(files') <= MaxFiles
       /\ \A u \in Transfer : transfer[u].pc = "create" => Len(files') < MaxFiles
       /\ \A i \in DOMAIN files' : files'[i].gen # gen' => Excused'
  BY <1>11, FewerFiles DEF OnlyMoves
<1> QED BY <1>6, <1>8, <1>10, <1>12 DEF CacheOK, Admitted

\* The first download goes on.
LEMMA Proceeds ==
  ASSUME Shape, Shape', CacheOK, NEW t \in Transfer, OnlyMoves(t), UNCHANGED line, First(t),
         transfer'[t].kind = transfer[t].kind, transfer'[t].pc \in Admitted, Len(files') <= MaxFiles,
         transfer'[t].pc = "create" => Len(files') < MaxFiles,
         \A i \in DOMAIN files' : files'[i].gen # gen => Excused
  PROVE  CacheOK'
<1>1. \A i \in DOMAIN line : line[i] \in Transfer BY DEF Shape
<1>2. \A i \in DOMAIN line : transfer'[line[i]].kind # "submit" /\ transfer'[line[i]].pc \in Admitted
  BY <1>1 DEF CacheOK, Admitted, OnlyMoves
<1>3. ASSUME NEW u \in Transfer, transfer'[u].pc \in {"stream", "create", "fill"}
      PROVE  u = t
  BY <1>3 DEF CacheOK, OnlyMoves, First
<1>4. First(t)' BY DEF First
<1>5. Excused' <=> Excused BY DEF OnlyMoves, Excused
<1>6. \A i, j \in DOMAIN line : line[i] = line[j] => i = j BY DEF CacheOK
<1>7. \A u \in Transfer : transfer'[u].pc \in {"stream", "create", "fill"} => First(u)' BY <1>3, <1>4
<1>8. \A u \in Transfer : transfer'[u].pc = "create" => Len(files') < MaxFiles BY <1>3
<1>9. \A i \in DOMAIN files' : files'[i].gen # gen' => Excused' BY <1>5 DEF OnlyMoves
<1> QED BY <1>2, <1>6, <1>7, <1>8, <1>9 DEF CacheOK, Admitted

\* A transfer ends, and if it was a download, the next one is first.
LEMMA Passes ==
  ASSUME Shape, CacheOK, NEW t \in Transfer, OnlyMoves(t), PassOn(t),
         transfer[t].kind = "submit" \/ First(t) \/ transfer[t].pc \notin Admitted,
         transfer'[t].pc \notin Admitted, files' \in Seq(File), Fewer(files')
  PROVE  line' \in Seq(Transfer) /\ CacheOK'
<1>1. \A i \in DOMAIN line : line[i] \in Transfer BY DEF Shape
<1>2. /\ Len(files') <= MaxFiles
      /\ \A u \in Transfer : transfer[u].pc = "create" => Len(files') < MaxFiles
      /\ \A i \in DOMAIN files' : files'[i].gen # gen' => Excused'
  BY FewerFiles DEF OnlyMoves
<1>3. CASE First(t)
  <2>1. line' = Tail(line) /\ line # <<>> /\ Head(line) = t BY <1>3 DEF First, PassOn
  <2>2. /\ line' \in Seq(Transfer) /\ Len(line') = Len(line) - 1 /\ Len(line) \in Nat /\ DOMAIN line = 1..Len(line)
        /\ DOMAIN line' = 1..Len(line') /\ 1 \in DOMAIN line /\ line[1] = t
        /\ \A i \in DOMAIN line' : line'[i] = line[i + 1]
    BY <2>1 DEF Shape
  <2>3. \A i \in DOMAIN line' : i + 1 \in DOMAIN line /\ i + 1 # 1 BY <2>2
  <2>4. \A i, j \in DOMAIN line' : line'[i] = line'[j] => i = j
    <3>1. SUFFICES ASSUME NEW i \in DOMAIN line', NEW j \in DOMAIN line', line'[i] = line'[j] PROVE i = j OBVIOUS
    <3>2. i + 1 = j + 1 BY <2>2, <2>3, <3>1 DEF CacheOK
    <3> QED BY <2>2, <3>2
  <2>5. \A i \in DOMAIN line' : line'[i] # t /\ line'[i] \in Transfer BY <1>1, <2>2, <2>3 DEF CacheOK
  <2>6. \A i \in DOMAIN line' : transfer'[line'[i]].kind # "submit" /\ transfer'[line'[i]].pc \in Admitted
    BY <2>2, <2>3, <2>5 DEF CacheOK, Admitted, OnlyMoves
  <2>7. \A u \in Transfer : transfer'[u].pc \notin {"stream", "create", "fill"}
    BY <2>1 DEF CacheOK, Admitted, OnlyMoves, First
  <2> QED BY <1>2, <2>2, <2>4, <2>6, <2>7 DEF CacheOK, Admitted
<1>4. CASE ~First(t)
  <2>1. line' = line BY <1>4 DEF First, PassOn
  <2>2. \A i \in DOMAIN line : line[i] # t BY <1>4 DEF CacheOK, Admitted
  <2>3. \A i \in DOMAIN line : transfer'[line[i]].kind # "submit" /\ transfer'[line[i]].pc \in Admitted
    BY <1>1, <2>2 DEF CacheOK, Admitted, OnlyMoves
  <2>4. \A u \in Transfer : transfer'[u].pc \in {"stream", "create", "fill"} =>
          First(u)' /\ transfer[u].pc = transfer'[u].pc
    BY <2>1 DEF CacheOK, OnlyMoves, First, Admitted
  <2>5. \A i, j \in DOMAIN line : line[i] = line[j] => i = j BY DEF CacheOK
  <2> QED BY <1>2, <2>1, <2>3, <2>4, <2>5 DEF CacheOK, Admitted, Shape
<1> QED BY <1>3, <1>4

\* A transfer that is tracked stays with its account.
LEMMA MovesOn ==
  ASSUME Shape, NEW t \in Transfer, Running(t), UNCHANGED <<gen, jobs, made, stores>>,
         transfer'[t].kind = transfer[t].kind, transfer'[t].gen = transfer[t].gen,
         transfer'[t].user = transfer[t].user,
         transfer'[t].pc \in {"work", "asked"} => transfer[t].kind = "submit",
         transfer'[t].pc # "sweep",
         transfer'[t].pc = "gate" => transfer'[t].gate = made,
         transfer[t].gen = gen /\ transfer'[t].pc \in {"stream", "create"} => jobs = <<>>
  PROVE  Running(t)'
<1>1. Home(t)' = Home(t) BY DEF Home
<1>2. (Drained(t) => Drained(t)') /\ (Followed(t) => Followed(t)') BY <1>1 DEF Drained, Followed
<1> QED BY <1>2 DEF Running

\* The type of a transfer.
LEMMA StateType ==
  ASSUME Shape, NEW t \in Transfer
  PROVE  transfer[t] \in State
BY DEF Shape

\* An account signs in.
LEMMA SignsIn ==
  ASSUME IInv, SignIn
  PROVE  IInv'
<1>1. UNCHANGED <<gen, gone, stores, queue, disk, jobs, made, broken, missed, files, line, transfer>>
  BY DEF SignIn, records, chain, cache
<1>2. user' \in User BY DEF SignIn
<1>3. Shape' BY <1>1, <1>2 DEF IInv, Shape
<1>4. ChainOK' BY <1>1 DEF IInv, ChainOK, Tracked
<1>5. \A t \in Tracked' : Running(t)' BY <1>1 DEF IInv, Running, Tracked, Drained, Followed, Home
<1>6. \A s \in Store : QueueOK(s)' BY <1>1 DEF IInv, QueueOK, OpOK, Home, Purging, HasPurge
<1>7. \A u \in User : RecordOK(u)' BY <1>1 DEF IInv, RecordOK, Pending, HasPurge
<1>8. CacheOK' BY <1>1 DEF IInv, CacheOK, Excused, First
<1> QED BY <1>3, <1>4, <1>5, <1>6, <1>7, <1>8 DEF IInv

\* A screen is left.
LEMMA Leaves ==
  ASSUME IInv, NEW t \in Transfer, Leave(t)
  PROVE  IInv'
<1>1. Shape /\ CacheOK BY DEF IInv
<1>2. t \in Tracked /\ Running(t) BY DEF Leave, IInv
<1>3. PICK x : x = [transfer[t] EXCEPT !.aborted = TRUE] OBVIOUS
<1>4. transfer[t] \in State BY <1>1, StateType
<1>5. x \in State /\ x.kind = transfer[t].kind /\ x.gen = transfer[t].gen /\ x.user = transfer[t].user
  /\ x.gate = transfer[t].gate /\ x.pc = transfer[t].pc
  BY <1>3, <1>4 DEF State
<1>6. transfer' = [transfer EXCEPT ![t] = x] BY <1>3 DEF Leave
<1>7. UNCHANGED <<session, queue, disk, chain, stores, files, line, gen, jobs, made, broken>>
  BY DEF Leave, records, session, chain, cache
<1>8. transfer'[t] = x /\ transfer' \in [Transfer -> State]
  /\ \A u \in Transfer : u # t => transfer'[u] = transfer[u]
  BY <1>1, <1>5, <1>6, Moved
<1>9. Shape' BY <1>1, <1>7, <1>8 DEF Shape, session, chain
<1>10. Running(t)'
  <2>1. SamePlans BY <1>1, <1>7, Unmoved
  <2> QED BY <1>1, <1>2, <1>5, <1>7, <1>8, <1>9, <2>1, StillRunning
<1>11. CacheOK' BY <1>1, <1>5, <1>7, <1>8, <1>9, CacheKept
<1>12. transfer[t].pc # "over" /\ x.pc # "idle" BY <1>2, <1>5 DEF Tracked
<1> QED BY <1>1, <1>5, <1>6, <1>7, <1>9, <1>10, <1>11, <1>12, TransferStep DEF Shape

\* A transfer ends.
LEMMA Ends ==
  ASSUME IInv, NEW t \in Transfer, transfer[t].pc \notin {"over", "idle", "asked"}, Release(t),
         transfer[t].kind = "submit" \/ First(t) \/ transfer[t].pc \notin Admitted,
         files' \in Seq(File), Fewer(files'), UNCHANGED <<session, records, chain>>
  PROVE  IInv'
<1>1. Shape /\ CacheOK BY DEF IInv
<1>2. Done \in State /\ Done.pc = "over"
  <2>1. 0 \in Gen BY CleanupAssumption DEF Gen
  <2> QED BY <2>1 DEF Done, Idle, State, Pcs
<1>3. transfer' = [transfer EXCEPT ![t] = Done] /\ PassOn(t) BY DEF Release
<1>4. transfer'[t] = Done /\ \A u \in Transfer : u # t => transfer'[u] = transfer[u]
  BY <1>1, <1>2, <1>3, Moved
<1>5. OnlyMoves(t) BY <1>4 DEF OnlyMoves, session, chain
<1>6. transfer'[t].pc \notin Admitted BY <1>2, <1>4 DEF Admitted
<1>7. line' \in Seq(Transfer) /\ CacheOK' BY <1>1, <1>3, <1>5, <1>6, Passes
<1>8. stores \subseteq stores' /\ stores' \subseteq User /\ UNCHANGED <<session, queue, disk, chain>>
  BY <1>1 DEF Shape, records
<1> QED BY <1>2, <1>3, <1>7, <1>8, TransferStep

\* The files there are.
LEMMA AllFiles ==
  ASSUME files \in Seq(File)
  PROVE  Fewer(files)
BY DEF Fewer

\* A file is closed, or a submit flow ends.
LEMMA ClosesFile ==
  ASSUME IInv, NEW t \in Transfer, CloseFile(t) \/ EndSubmit(t)
  PROVE  IInv'
<1>1. files \in Seq(File) BY DEF IInv, Shape
<1>2. files' \in Seq(File) /\ Fewer(files') BY <1>1, AllFiles DEF CloseFile, EndSubmit
<1>3. transfer[t].pc \notin {"over", "idle", "asked"} /\ transfer[t].pc \notin Admitted
  BY DEF CloseFile, EndSubmit, Admitted
<1>4. Release(t) /\ UNCHANGED <<session, records, chain>> BY DEF CloseFile, EndSubmit
<1> QED BY <1>2, <1>3, <1>4, Ends

\* The youngest files.
LEMMA SomeFiles ==
  ASSUME files \in Seq(File), NEW n \in Nat, n <= Len(files), NEW f, f = SubSeq(files, n + 1, Len(files))
  PROVE  f \in Seq(File) /\ Fewer(f) /\ Len(f) = Len(files) - n
<1>1. f \in Seq(File) /\ Len(f) = Len(files) - n
  /\ \A i \in DOMAIN f : i + n \in DOMAIN files /\ f[i] = files[i + n]
  BY Suffix
<1> QED BY <1>1 DEF Fewer

\* The stream of a download ends.
LEMMA EndsStream ==
  ASSUME IInv, NEW t \in Transfer, EndStream(t)
  PROVE  IInv'
<1>1. Shape /\ CacheOK /\ files \in Seq(File) BY DEF IInv, Shape
<1>2. transfer[t].pc \in {"stream", "create", "fill"} /\ UNCHANGED <<session, records, chain>> BY DEF EndStream
<1>3. First(t) BY <1>1, <1>2 DEF CacheOK
<1>4. /\ LetGo(t) \in Seq(File) /\ Fewer(LetGo(t))
  <2>1. /\ LetGo(t) \in Seq(File) /\ Len(LetGo(t)) = Len(files) /\ DOMAIN LetGo(t) = DOMAIN files
        /\ \A i \in DOMAIN files : LetGo(t)[i].gen = files[i].gen
    BY <1>1, LetGoFiles
  <2>2. Len(files) \in Nat BY <1>1
  <2> QED BY <2>1, <2>2 DEF Fewer
<1>5. CASE Release(t) /\ \E i \in DOMAIN files : files[i].by = t /\ files' = RemoveAt(files, i)
  <2>1. PICK k \in DOMAIN files : files' = RemoveAt(files, k) BY <1>5
  <2>2. /\ files' \in Seq(File) /\ Len(files') = Len(files) - 1
        /\ \A i \in DOMAIN files' : \E j \in DOMAIN files : files'[i] = files[j]
    BY <1>1, <2>1, Removed
  <2>3. Fewer(files') BY <1>1, <2>2 DEF Fewer
  <2> QED BY <1>2, <1>3, <1>5, <2>2, <2>3, Ends
<1>6. CASE Release(t) /\ files' = LetGo(t) BY <1>2, <1>3, <1>4, <1>6, Ends
<1>7. CASE transfer[t].pc = "fill" /\ transfer' = [transfer EXCEPT ![t].pc = "open"] /\ files' = LetGo(t) /\ PassOn(t)
  <2>1. PICK x : x = [transfer[t] EXCEPT !.pc = "open"] OBVIOUS
  <2>2. transfer[t] \in State BY <1>1, StateType
  <2>3. x \in State /\ x.kind = transfer[t].kind /\ x.gen = transfer[t].gen /\ x.user = transfer[t].user
    /\ x.pc = "open"
    BY <2>1, <2>2 DEF State, Pcs
  <2>4. transfer' = [transfer EXCEPT ![t] = x] BY <1>7, <2>1
  <2>5. transfer'[t] = x /\ \A u \in Transfer : u # t => transfer'[u] = transfer[u]
    BY <1>1, <2>3, <2>4, Moved
  <2>6. OnlyMoves(t) BY <1>2, <2>5 DEF OnlyMoves, session, chain
  <2>7. line' \in Seq(Transfer) /\ CacheOK'
    BY <1>1, <1>3, <1>4, <1>7, <2>3, <2>5, <2>6, Passes DEF Admitted
  <2>8. t \in Tracked /\ Running(t) BY <1>7 DEF Tracked, IInv
  <2>9. Running(t)'
    <3>1. UNCHANGED <<gen, jobs, made, stores>> BY <1>2 DEF session, chain, records
    <3> QED BY <1>1, <2>3, <2>5, <2>8, <3>1, MovesOn
  <2>10. stores \subseteq stores' /\ stores' \subseteq User /\ UNCHANGED <<session, queue, disk, chain>>
    BY <1>1, <1>2 DEF Shape, records
  <2> QED BY <1>4, <1>7, <2>3, <2>4, <2>7, <2>9, <2>10, TransferStep
<1> QED BY <1>5, <1>6, <1>7 DEF EndStream

\* A screen starts a transfer.
LEMMA Starts ==
  ASSUME IInv, NEW t \in Transfer, Start(t)
  PROVE  IInv'
<1>1. Shape /\ CacheOK BY DEF IInv
<1>2. PICK kind \in Kinds[t] :
        /\ transfer' = [transfer EXCEPT ![t] =
             [kind |-> kind, gen |-> gen, user |-> user, gate |-> Gate, aborted |-> FALSE,
              pc |-> Begins(kind)]]
        /\ stores' = IF kind = "submit" THEN stores \union {user} ELSE stores
        /\ line' = IF kind # "submit" /\ Begins(kind) = "gate" THEN Append(line, t) ELSE line
  BY DEF Start
<1>3. kind \in {"submit", "guidebook", "file"} BY CleanupAssumption
<1>4. transfer[t].pc = "idle" BY DEF Start, Idle
<1>5. user \in User BY <1>1 DEF Start, Shape
<1>6. Begins(kind) = IF kind = "file" THEN "sweep" ELSE "gate" BY DEF Begins
<1> DEFINE x == [kind |-> kind, gen |-> gen, user |-> user, gate |-> made, aborted |-> FALSE, pc |-> Begins(kind)]
<1>7. x \in State
  <2>1. Begins(kind) \in Pcs BY <1>6 DEF Pcs
  <2>2. made \in Nat /\ gen \in Gen
    <3>1. gen \in Gen /\ made = gen + 1 BY <1>1 DEF Shape
    <3> QED BY <3>1 DEF Gen
  <2> QED BY <1>3, <1>5, <2>1, <2>2 DEF State
<1>8. /\ x.kind = kind /\ x.gen = gen /\ x.user = user /\ x.gate = made /\ x.pc = Begins(kind) OBVIOUS
<1>9. transfer' = [transfer EXCEPT ![t] = x] BY <1>2 DEF Gate
<1> HIDE DEF x
<1>10. /\ transfer' \in [Transfer -> State] /\ transfer'[t] = x
       /\ \A u \in Transfer : u # t => transfer'[u] = transfer[u]
  BY <1>1, <1>7, <1>9, Moved
<1>11. UNCHANGED <<session, queue, disk, chain, files, gen, jobs, made, broken>>
  BY DEF Start, session, chain
<1>12. stores \subseteq stores' /\ stores' \subseteq User BY <1>1, <1>2, <1>5 DEF Shape
<1>13. line' \in Seq(Transfer) /\ files' \in Seq(File) BY <1>1, <1>2, <1>11 DEF Shape
<1>14. Shape' BY <1>1, <1>10, <1>11, <1>12, <1>13 DEF Shape, session, chain
<1>15. OnlyMoves(t) BY <1>10, <1>11 DEF OnlyMoves
<1>16. CacheOK'
  <2>1. transfer[t].pc \notin Admitted BY <1>4 DEF Admitted
  <2>2. CASE kind # "submit" /\ Begins(kind) = "gate"
    <3>1. Fewer(files') BY <1>1, <1>11, AllFiles DEF Shape
    <3>2. line' = Append(line, t) BY <1>2, <2>2
    <3>3. transfer'[t].kind # "submit" /\ transfer'[t].pc = "gate" BY <1>8, <1>10, <2>2
    <3> QED BY <1>1, <1>14, <1>15, <2>1, <3>1, <3>2, <3>3, Joins
  <2>3. CASE ~(kind # "submit" /\ Begins(kind) = "gate")
    <3>1. UNCHANGED <<files, line>> BY <1>2, <1>11, <2>3
    <3>2. transfer'[t].pc \notin {"stream", "create", "fill"} BY <1>6, <1>8, <1>10
    <3> QED BY <1>1, <1>14, <1>15, <2>1, <3>1, <3>2, Aside
  <2> QED BY <2>2, <2>3
<1>17. Running(t)'
  <2>1. gen \in Int BY <1>1 DEF Shape, Gen
  <2>3. user \in stores' \/ kind # "submit" BY <1>2
  <2>4. /\ transfer'[t].user = user /\ transfer'[t].gen = gen /\ transfer'[t].kind = kind
        /\ transfer'[t].pc = Begins(kind) /\ transfer'[t].gate = made
    BY <1>8, <1>10
  <2> QED BY <1>3, <1>5, <1>6, <1>11, <2>1, <2>3, <2>4 DEF Running
<1>18. transfer[t].pc # "over" /\ x.pc # "idle" /\ transfer[t].pc # "asked" BY <1>4, <1>6, <1>8
<1>19. UNCHANGED <<session, queue, disk, chain>> BY <1>11
<1> QED BY <1>7, <1>9, <1>12, <1>13, <1>16, <1>17, <1>18, <1>19, TransferStep

\* The cache is swept, and the gate is asked for.
LEMMA Sweeps ==
  ASSUME IInv, NEW t \in Transfer, Sweep(t)
  PROVE  IInv'
<1>1. Shape /\ CacheOK BY DEF IInv
<1>2. t \in Tracked /\ Running(t) /\ transfer[t].pc = "sweep" BY DEF Sweep, Tracked, IInv
<1>3. PICK x : x = [transfer[t] EXCEPT !.pc = "gate", !.gate = Gate] OBVIOUS
<1>4. transfer[t] \in State BY <1>1, StateType
<1>5. made \in Nat
  <2>1. gen \in Gen /\ made = gen + 1 BY <1>1 DEF Shape
  <2> QED BY <2>1 DEF Gen
<1>6. x \in State /\ x.kind = transfer[t].kind /\ x.gen = transfer[t].gen /\ x.user = transfer[t].user
  /\ x.gate = made /\ x.pc = "gate"
  BY <1>3, <1>4, <1>5 DEF State, Gate, Pcs
<1>7. transfer' = [transfer EXCEPT ![t] = x] BY <1>3 DEF Sweep
<1>8. UNCHANGED <<session, queue, disk, chain, stores, gen, jobs, made, broken>>
  BY DEF Sweep, records, session, chain
<1>9. transfer'[t] = x /\ transfer' \in [Transfer -> State]
  /\ \A u \in Transfer : u # t => transfer'[u] = transfer[u]
  BY <1>1, <1>6, <1>7, Moved
<1>10. files' \in Seq(File) /\ Fewer(files')
  <2>1. PICK n \in 0..Len(files) : files' = SubSeq(files, n + 1, Len(files)) BY DEF Sweep
  <2>2. files \in Seq(File) /\ n \in Nat /\ n <= Len(files) BY <1>1, <2>1 DEF Shape
  <2> QED BY <2>1, <2>2, SomeFiles
<1>11. line' = Append(line, t) /\ line' \in Seq(Transfer) BY <1>1 DEF Sweep, Shape
<1>12. Shape' BY <1>1, <1>8, <1>9, <1>10, <1>11 DEF Shape, session, chain
<1>13. OnlyMoves(t) BY <1>8, <1>9 DEF OnlyMoves
<1>14. CacheOK'
  <2>1. transfer[t].kind = "file" BY <1>2 DEF Running
  <2>2. transfer'[t].kind # "submit" /\ transfer'[t].pc = "gate" BY <1>6, <1>9, <2>1
  <2>3. transfer[t].pc \notin Admitted BY <1>2 DEF Admitted
  <2> QED BY <1>1, <1>10, <1>11, <1>12, <1>13, <2>2, <2>3, Joins
<1>15. Running(t)' BY <1>1, <1>2, <1>6, <1>8, <1>9, MovesOn
<1>16. stores \subseteq stores' /\ stores' \subseteq User BY <1>1, <1>8 DEF Shape
<1> QED BY <1>2, <1>6, <1>7, <1>8, <1>10, <1>11, <1>14, <1>15, <1>16, TransferStep

\* No cleanup is left before the gate of a transfer of this session is passed.
LEMMA Passed ==
  ASSUME Shape, NEW g, g = made, Through(g)
  PROVE  jobs = <<>>
<1>1. made \in Int /\ jobs \in Seq(Cleanup) BY DEF Shape, Gen
<1>2. Len(jobs) = 0 BY <1>1 DEF Through, Finished
<1> QED BY <1>1, <1>2

\* A gate opens, or is given up.
LEMMA Admits ==
  ASSUME IInv, NEW t \in Transfer, Admit(t)
  PROVE  IInv'
<1>1. Shape /\ CacheOK BY DEF IInv
<1>2. t \in Tracked /\ Running(t) /\ transfer[t].pc = "gate" /\ Through(transfer[t].gate)
  BY DEF Admit, Tracked, IInv
<1>3. UNCHANGED <<session, queue, disk, chain, stores, files, gen, jobs, made, broken>>
  BY DEF Admit, records, session, chain
<1>4. transfer[t] \in State BY <1>1, StateType
<1>5. stores \subseteq stores' /\ stores' \subseteq User /\ files' \in Seq(File) BY <1>1, <1>3 DEF Shape
<1>6. ASSUME NEW p \in {"work", "stream"}, transfer' = [transfer EXCEPT ![t].pc = p], UNCHANGED line,
             p = "work" => transfer[t].kind = "submit", p = "stream" => First(t)
      PROVE  IInv'
  <2>1. PICK x : x = [transfer[t] EXCEPT !.pc = p] OBVIOUS
  <2>2. x \in State /\ x.kind = transfer[t].kind /\ x.gen = transfer[t].gen /\ x.user = transfer[t].user
    /\ x.gate = transfer[t].gate /\ x.pc = p
    BY <1>4, <1>6, <2>1 DEF State, Pcs
  <2>3. transfer' = [transfer EXCEPT ![t] = x] BY <1>6, <2>1
  <2>4. transfer'[t] = x /\ transfer' \in [Transfer -> State]
    /\ \A u \in Transfer : u # t => transfer'[u] = transfer[u]
    BY <1>1, <2>2, <2>3, Moved
  <2>5. line' \in Seq(Transfer) BY <1>1, <1>6 DEF Shape
  <2>6. Shape' BY <1>1, <1>3, <2>4, <2>5 DEF Shape, session, chain
  <2>7. OnlyMoves(t) BY <1>3, <2>4 DEF OnlyMoves
  <2>8. transfer[t].gen = gen => jobs = <<>>
    <3> SUFFICES ASSUME transfer[t].gen = gen PROVE jobs = <<>> OBVIOUS
    <3>1. transfer[t].gate = made BY <1>2 DEF Running
    <3> QED BY <1>1, <1>2, <3>1, Passed
  <2>9. Running(t)' BY <1>1, <1>2, <1>3, <1>6, <2>2, <2>4, <2>8, MovesOn
  <2>10. CacheOK'
    <3>1. CASE p = "work"
      <4>1. transfer'[t].pc \notin {"stream", "create", "fill"} BY <2>2, <2>4, <3>1
      <4> QED BY <1>1, <1>3, <1>6, <2>6, <2>7, <3>1, <4>1, Aside
    <3>2. CASE p = "stream"
      <4>1. First(t) /\ transfer'[t].pc \in Admitted /\ transfer'[t].pc # "create"
        /\ transfer'[t].kind = transfer[t].kind
        BY <1>6, <2>2, <2>4, <3>2 DEF Admitted
      <4>2. Len(files') <= MaxFiles /\ \A i \in DOMAIN files' : files'[i].gen # gen => Excused
        BY <1>1, <1>3 DEF CacheOK
      <4> QED BY <1>1, <1>6, <2>6, <2>7, <4>1, <4>2, Proceeds
    <3> QED BY <1>6, <3>1, <3>2
  <2> QED BY <1>2, <1>3, <1>5, <1>6, <2>2, <2>3, <2>5, <2>9, <2>10, TransferStep
<1>7. CASE transfer[t].kind = "submit" /\ transfer' = [transfer EXCEPT ![t].pc = "work"] /\ UNCHANGED line
  BY <1>6, <1>7
<1>8. CASE First(t) /\ transfer' = [transfer EXCEPT ![t].pc = "stream"] /\ UNCHANGED line
  BY <1>6, <1>8
<1>9. CASE (transfer[t].kind = "submit" \/ First(t)) /\ Release(t)
  <2>1. Fewer(files') BY <1>1, <1>3, AllFiles DEF Shape
  <2>2. UNCHANGED <<session, records, chain>> BY DEF Admit
  <2> QED BY <1>2, <1>5, <1>9, <2>1, <2>2, Ends
<1> QED BY <1>7, <1>8, <1>9 DEF Admit

\* Room is made for the file.
LEMMA Accepts ==
  ASSUME IInv, NEW t \in Transfer, Accept(t)
  PROVE  IInv'
<1>1. Shape /\ CacheOK BY DEF IInv
<1>2. t \in Tracked /\ Running(t) /\ transfer[t].pc = "stream" /\ First(t)
  BY <1>1 DEF Accept, Tracked, IInv, CacheOK
<1>3. UNCHANGED <<session, queue, disk, chain, stores, line, gen, jobs, made, broken>>
  BY DEF Accept, records, session, chain
<1>4. PICK x : x = [transfer[t] EXCEPT !.pc = "create"] OBVIOUS
<1>5. transfer[t] \in State BY <1>1, StateType
<1>6. x \in State /\ x.kind = transfer[t].kind /\ x.gen = transfer[t].gen /\ x.user = transfer[t].user
  /\ x.pc = "create"
  BY <1>4, <1>5 DEF State, Pcs
<1>7. transfer' = [transfer EXCEPT ![t] = x] BY <1>4 DEF Accept
<1>8. transfer'[t] = x /\ transfer' \in [Transfer -> State]
  /\ \A u \in Transfer : u # t => transfer'[u] = transfer[u]
  BY <1>1, <1>6, <1>7, Moved
<1>9. files' \in Seq(File) /\ Fewer(files') /\ Len(files') < MaxFiles
  <2>1. files \in Seq(File) /\ Len(files) \in Nat BY <1>1 DEF Shape
  <2>2. MaxFiles \in Nat \ {0} BY CleanupAssumption
  <2>3. CASE Len(files) < MaxFiles
    <3>1. files' = files BY <2>3 DEF Accept, Reserved
    <3> QED BY <2>1, <2>3, <3>1, AllFiles
  <2>4. CASE ~(Len(files) < MaxFiles)
    <3>1. files' = SubSeq(files, Len(files) - MaxFiles + 2, Len(files)) BY <2>4 DEF Accept, Reserved
    <3>2. PICK n : n = Len(files) - MaxFiles + 1 OBVIOUS
    <3>3. n \in Nat /\ n <= Len(files) /\ n + 1 = Len(files) - MaxFiles + 2 BY <2>1, <2>2, <2>4, <3>2
    <3>4. files' \in Seq(File) /\ Fewer(files') /\ Len(files') = Len(files) - n
      BY <2>1, <3>1, <3>3, SomeFiles
    <3> QED BY <2>1, <2>2, <3>2, <3>4
  <2> QED BY <2>3, <2>4
<1>10. Shape' BY <1>1, <1>3, <1>8, <1>9 DEF Shape, session, chain
<1>11. OnlyMoves(t) BY <1>3, <1>8 DEF OnlyMoves
<1>12. CacheOK'
  <2>1. /\ Len(files') <= MaxFiles
        /\ \A i \in DOMAIN files' : files'[i].gen # gen' => Excused'
    BY <1>1, <1>9, <1>11, FewerFiles DEF OnlyMoves
  <2>2. Excused' <=> Excused BY <1>3 DEF Excused
  <2>3. \A i \in DOMAIN files' : files'[i].gen # gen => Excused BY <1>3, <2>1, <2>2
  <2>4. transfer'[t].pc \in Admitted /\ transfer'[t].kind = transfer[t].kind BY <1>6, <1>8 DEF Admitted
  <2> QED BY <1>1, <1>2, <1>3, <1>9, <1>10, <1>11, <2>1, <2>3, <2>4, Proceeds
<1>13. Running(t)'
  <2>1. transfer[t].gen = gen => jobs = <<>> BY <1>2 DEF Running
  <2> QED BY <1>1, <1>2, <1>3, <1>6, <1>8, <2>1, MovesOn
<1>14. stores \subseteq stores' /\ stores' \subseteq User /\ line' \in Seq(Transfer) BY <1>1, <1>3 DEF Shape
<1> QED BY <1>2, <1>3, <1>6, <1>7, <1>9, <1>12, <1>13, <1>14, TransferStep

\* A transfer of an earlier session finds the newest cleanup before its start.
LEMMA LateFile ==
  ASSUME IInv, NEW t \in Tracked, transfer[t].gen # gen
  PROVE  Excused
<1>1. Shape /\ ChainOK /\ Running(t) BY DEF IInv
<1>2. t \in Transfer BY DEF Tracked
<1>3. transfer[t].gen < gen
  <2>1. transfer[t].gen <= gen BY <1>1 DEF Running
  <2>2. transfer[t].gen \in Gen BY <1>1, <1>2, StateType DEF State
  <2>3. gen \in Gen BY <1>1 DEF Shape
  <2> QED BY <2>1, <2>2, <2>3 DEF Gen
<1>4. jobs # <<>> /\ t \in jobs[Len(jobs)].drain BY <1>1, <1>3 DEF Running, Drained
<1>5. Len(jobs) \in DOMAIN jobs BY <1>1, <1>4 DEF Shape
<1>6. ~jobs[Len(jobs)].started BY <1>1, <1>4, <1>5 DEF ChainOK
<1>7. jobs[Len(jobs)].cache = "todo" BY <1>1, <1>5, <1>6 DEF ChainOK
<1> QED BY <1>4, <1>7 DEF Excused

\* The file is created.
LEMMA Creates ==
  ASSUME IInv, NEW t \in Transfer, Create(t)
  PROVE  IInv'
<1>1. Shape /\ CacheOK BY DEF IInv
<1>2. t \in Tracked /\ Running(t) /\ transfer[t].pc = "create" /\ First(t) /\ Len(files) < MaxFiles
  BY <1>1 DEF Create, Tracked, IInv, CacheOK
<1>3. UNCHANGED <<session, queue, disk, chain, stores, line, gen, jobs, made, broken>>
  BY DEF Create, records, session, chain
<1>4. PICK x : x = [transfer[t] EXCEPT !.pc = "fill"] OBVIOUS
<1>5. transfer[t] \in State BY <1>1, StateType
<1>6. x \in State /\ x.kind = transfer[t].kind /\ x.gen = transfer[t].gen /\ x.user = transfer[t].user
  /\ x.pc = "fill"
  BY <1>4, <1>5 DEF State, Pcs
<1>7. transfer' = [transfer EXCEPT ![t] = x] BY <1>4 DEF Create
<1>8. transfer'[t] = x /\ transfer' \in [Transfer -> State]
  /\ \A u \in Transfer : u # t => transfer'[u] = transfer[u]
  BY <1>1, <1>6, <1>7, Moved
<1>9. PICK f : f = [by |-> t, gen |-> transfer[t].gen] OBVIOUS
<1>10. f \in File /\ f.gen = transfer[t].gen BY <1>5, <1>9 DEF File, State
<1>11. /\ files' \in Seq(File) /\ Len(files') = Len(files) + 1 /\ Len(files) \in Nat
       /\ \A i \in DOMAIN files' : IF i = Len(files) + 1 THEN files'[i] = f
                                   ELSE i \in DOMAIN files /\ files'[i] = files[i]
  <2>1. files' = Append(files, f) /\ files \in Seq(File) BY <1>1, <1>9 DEF Create, Shape
  <2> QED BY <1>10, <2>1
<1>12. Shape' BY <1>1, <1>3, <1>8, <1>11 DEF Shape, session, chain
<1>13. OnlyMoves(t) BY <1>3, <1>8 DEF OnlyMoves
<1>14. CacheOK'
  <2>1. Len(files') <= MaxFiles
    <3>1. MaxFiles \in Nat BY CleanupAssumption
    <3> QED BY <1>2, <1>11, <3>1
  <2>2. ASSUME NEW i \in DOMAIN files', files'[i].gen # gen PROVE Excused
    <3>1. CASE i = Len(files) + 1
      <4>1. transfer[t].gen # gen BY <1>10, <1>11, <2>2, <3>1
      <4> QED BY <1>2, <4>1, LateFile
    <3>2. CASE i # Len(files) + 1 BY <1>1, <1>11, <2>2, <3>2 DEF CacheOK
    <3> QED BY <3>1, <3>2
  <2>3. transfer'[t].pc \in Admitted /\ transfer'[t].kind = transfer[t].kind /\ transfer'[t].pc # "create"
    BY <1>6, <1>8 DEF Admitted
  <2> QED BY <1>1, <1>2, <1>3, <1>12, <1>13, <2>1, <2>2, <2>3, Proceeds
<1>15. Running(t)' BY <1>1, <1>2, <1>3, <1>6, <1>8, MovesOn
<1>16. stores \subseteq stores' /\ stores' \subseteq User /\ line' \in Seq(Transfer) BY <1>1, <1>3 DEF Shape
<1> QED BY <1>2, <1>3, <1>6, <1>7, <1>11, <1>14, <1>15, <1>16, TransferStep

-----------------------------------------------------------------------------
(* The stores.                                                             *)

\* The transfers that a step of the store s may move: those that ask it.
OnlyAsking(s) ==
  \A t \in Transfer :
    \/ transfer'[t] = transfer[t]
    \/ /\ Home(t) = s /\ transfer[t].pc \in {"work", "asked"} /\ transfer'[t].pc \in {"work", "asked"}
       /\ transfer'[t].kind = transfer[t].kind /\ transfer'[t].gen = transfer[t].gen
       /\ transfer'[t].user = transfer[t].user

\* What a step of a store leaves of the cleanups.
SameJobs ==
  /\ SamePlans
  /\ \A i \in DOMAIN jobs : /\ jobs'[i].bare = jobs[i].bare /\ jobs'[i].cache = jobs[i].cache
                            /\ jobs[i].failed => jobs'[i].failed

\* A step that leaves the cleanups alone.
LEMMA Unstirred ==
  ASSUME Shape, UNCHANGED jobs
  PROVE  SameJobs
BY Unmoved DEF SameJobs

\* A step of one store keeps the invariant, if its queue and the records do.
LEMMA StoreStep ==
  ASSUME IInv, NEW s \in Store, NEW q \in Seq(Operation), queue' = [queue EXCEPT ![s] = q],
         UNCHANGED <<session, made, broken, cache>>, stores \subseteq stores', stores' \subseteq User,
         disk' \in [User -> Gen \union {None, Old}], jobs' \in Seq(Cleanup), SameJobs,
         transfer' \in [Transfer -> State], OnlyAsking(s),
         QueueOK(s)', \A u \in User : RecordOK(u)'
  PROVE  IInv'
<1>1. Shape /\ ChainOK /\ CacheOK BY DEF IInv
<1>2. UNCHANGED <<gen, user, gone, made, broken, files, line>> BY DEF session, cache
<1>3. Len(jobs') = Len(jobs) /\ SamePlans BY DEF SameJobs, SamePlans
<1>4. queue' \in [Store -> Seq(Operation)] /\ \A r \in Store : r # s => queue'[r] = queue[r]
  BY <1>1 DEF Shape
<1>5. Shape' BY <1>1, <1>2, <1>3, <1>4 DEF Shape
<1>6. DOMAIN jobs' = DOMAIN jobs /\ (jobs' = <<>> <=> jobs = <<>>) BY <1>1, <1>3, <1>5, SameDomain
<1>7. Onward BY DEF Onward, OnlyAsking
<1>8. ChainOK'
  <2>1. \A i \in DOMAIN jobs : ~jobs'[i].started => jobs'[i].cache = "todo"
    BY <1>1 DEF ChainOK, SameJobs, SamePlans
  <2> QED BY <1>1, <1>2, <1>3, <1>5, <1>7, <2>1, ChainKept
<1>9. ASSUME NEW t \in Tracked' PROVE Running(t)'
  <2>1. t \in Transfer /\ t \in Tracked BY <1>9 DEF Tracked, OnlyAsking
  <2>2. Running(t) BY <2>1 DEF IInv
  <2>3. CASE transfer'[t] = transfer[t] BY <1>1, <1>2, <1>3, <1>5, <2>1, <2>2, <2>3, StillRunning
  <2>4. CASE transfer'[t] # transfer[t]
    <3>1. /\ transfer[t].pc \in {"work", "asked"} /\ transfer'[t].pc \in {"work", "asked"}
          /\ transfer'[t].kind = transfer[t].kind /\ transfer'[t].gen = transfer[t].gen
          /\ transfer'[t].user = transfer[t].user
      BY <2>1, <2>4 DEF OnlyAsking
    <3>2. Home(t)' = Home(t) BY <3>1 DEF Home
    <3>3. (Drained(t) => Drained(t)') /\ (Followed(t) => Followed(t)')
      BY <1>1, <1>3, <1>5, <2>1, <3>2, StillFollowed
    <3> QED BY <1>2, <2>2, <3>1, <3>3 DEF Running
  <2> QED BY <2>3, <2>4
<1>10. ASSUME NEW r \in Store PROVE QueueOK(r)'
  <2>1. CASE r = s BY <2>1
  <2>2. CASE r # s
    <3>1. QueueOK(r) /\ queue'[r] = queue[r] BY <1>4, <2>2 DEF IInv
    <3>2. ASSUME NEW t \in Transfer, transfer[t].pc = "asked" /\ Home(t) = r
          PROVE  transfer'[t].pc = "asked" /\ Home(t)' = r
      <4>1. transfer'[t] = transfer[t] BY <2>2, <3>2 DEF OnlyAsking
      <4> QED BY <3>2, <4>1 DEF Home
    <3> QED BY <1>1, <1>2, <1>3, <1>5, <3>1, <3>2, QueueKept
  <2> QED BY <2>1, <2>2
<1>11. CacheOK'
  <2>1. \A t \in Transfer : \/ transfer'[t].pc = transfer[t].pc /\ transfer'[t].kind = transfer[t].kind
                            \/ transfer[t].pc \notin Admitted /\ transfer'[t].pc \notin Admitted
    BY DEF OnlyAsking, Admitted
  <2>2. \A i \in DOMAIN jobs : jobs[i].cache = "todo" \/ jobs[i].failed => jobs'[i].cache = "todo" \/ jobs'[i].failed
    BY DEF SameJobs
  <2> QED BY <1>1, <1>2, <1>3, <1>5, <2>1, <2>2, CacheKept
<1> QED BY <1>5, <1>8, <1>9, <1>10, <1>11 DEF IInv

\* The first operation of a queue.
LEMMA QueueHead ==
  ASSUME Shape, NEW s \in Store, queue[s] # <<>>
  PROVE  /\ 1 \in DOMAIN queue[s] /\ Head(queue[s]) = queue[s][1] /\ queue[s][1] \in Operation
         /\ Tail(queue[s]) \in Seq(Operation) /\ Len(queue[s]) \in Nat /\ Len(Tail(queue[s])) = Len(queue[s]) - 1
         /\ DOMAIN Tail(queue[s]) = 1..Len(Tail(queue[s])) /\ DOMAIN queue[s] = 1..Len(queue[s])
         /\ \A i \in DOMAIN Tail(queue[s]) : i + 1 \in DOMAIN queue[s] /\ Tail(queue[s])[i] = queue[s][i + 1]
<1>1. queue[s] \in Seq(Operation) BY DEF Shape
<1> QED BY <1>1

\* The invariant of an operation.
LEMMA OpKnown ==
  ASSUME IInv, NEW s \in Store, NEW i \in DOMAIN queue[s]
  PROVE  OpOK(s, i) /\ queue[s][i] \in Operation
<1>1. QueueOK(s) /\ Shape BY DEF IInv
<1> QED BY <1>1, OpType DEF QueueOK

\* Who waited for the first operation goes on.
LEMMA WaiterGoesOn ==
  ASSUME IInv, NEW s \in Store, queue[s] # <<>>, NEW d, Over(s, d)
  PROVE  /\ transfer' \in [Transfer -> State] /\ OnlyAsking(s)
         /\ \A t \in Transfer : t # queue[s][1].by => transfer'[t] = transfer[t]
<1>1. Shape BY DEF IInv
<1>2. PICK op : op = queue[s][1] OBVIOUS
<1>3. op = Head(queue[s]) /\ op \in Operation /\ 1 \in DOMAIN queue[s] BY <1>1, <1>2, QueueHead
<1>4. transfer' = IF op.by = None THEN transfer ELSE [transfer EXCEPT ![op.by].pc = "work"]
  BY <1>3 DEF Over
<1>5. CASE op.by = None BY <1>1, <1>4, <1>5 DEF Shape, OnlyAsking
<1>6. CASE op.by # None
  <2>1. op.by \in Transfer BY <1>3, <1>6 DEF Operation
  <2>2. PICK t \in Transfer : t = op.by BY <2>1
  <2>3. transfer[t].pc = "asked" /\ Home(t) = s BY <1>2, <1>3, <1>6, <2>2, OpKnown DEF OpOK, Home
  <2>4. PICK x : x = [transfer[t] EXCEPT !.pc = "work"] OBVIOUS
  <2>5. transfer[t] \in State BY <1>1, StateType
  <2>6. x \in State /\ x.pc = "work" /\ x.kind = transfer[t].kind /\ x.gen = transfer[t].gen
    /\ x.user = transfer[t].user
    BY <2>4, <2>5 DEF State, Pcs
  <2>7. transfer' = [transfer EXCEPT ![t] = x] BY <1>4, <1>6, <2>2, <2>4
  <2>8. /\ transfer' \in [Transfer -> State] /\ transfer'[t] = x
        /\ \A u \in Transfer : u # t => transfer'[u] = transfer[u]
    BY <1>1, <2>6, <2>7, Moved
  <2>9. OnlyAsking(s) BY <2>3, <2>6, <2>8 DEF OnlyAsking
  <2> QED BY <1>2, <2>2, <2>8, <2>9
<1> QED BY <1>5, <1>6

\* The others of its queue are as they were.
LEMMA RestOfQueue ==
  ASSUME IInv, Shape', NEW s \in Store, queue[s] # <<>>, queue'[s] = Tail(queue[s]),
         \A t \in Transfer : t # queue[s][1].by => transfer'[t] = transfer[t],
         SamePlans, gen' = gen, stores \subseteq stores'
  PROVE  QueueOK(s)' /\ (queue[s][1].kind # "purge" /\ HasPurge(s) => HasPurge(s)')
<1>1. Shape /\ QueueOK(s) BY DEF IInv
<1>2. DOMAIN jobs' = DOMAIN jobs /\ (jobs' = <<>> <=> jobs = <<>>) /\ DOMAIN jobs = 1..Len(jobs)
  /\ Len(jobs) \in Nat
  BY <1>1, SameDomain DEF SamePlans
<1>3. /\ 1 \in DOMAIN queue[s] /\ Len(queue[s]) \in Nat /\ Len(queue'[s]) = Len(queue[s]) - 1
      /\ DOMAIN queue'[s] = 1..Len(queue'[s]) /\ DOMAIN queue[s] = 1..Len(queue[s])
      /\ \A i \in DOMAIN queue'[s] : i + 1 \in DOMAIN queue[s] /\ queue'[s][i] = queue[s][i + 1]
  BY <1>1, QueueHead
<1>4. ASSUME NEW i \in DOMAIN queue'[s] PROVE OpOK(s, i)'
  <2>1. PICK k : k = i + 1 OBVIOUS
  <2>2. k \in DOMAIN queue[s] /\ k # 1 /\ queue'[s][i] = queue[s][k] BY <1>3, <2>1
  <2>3. PICK op : op = queue[s][k] OBVIOUS
  <2>4. /\ op.pc # "queued" => k = 1 /\ op.kind = "write"
        /\ op.kind = "write" => op.gate = s[2] + 1
        /\ op.by # None => transfer[op.by].pc = "asked" /\ Home(op.by) = s
        /\ \A j \in DOMAIN queue[s] : op.by # None /\ queue[s][j].by = op.by => k = j
        /\ op.kind = "purge" => k = Len(queue[s]) /\ jobs # <<>> /\ jobs[1].started /\ s \in jobs[1].purge
    BY <2>2, <2>3, OpKnown DEF OpOK
  <2>5. op.by # None => op.by \in Transfer BY <1>1, <2>2, <2>3, OpType
  <2>6. op.by # None => op.by # queue[s][1].by BY <1>3, <2>2, <2>4
  <2>7. op.by # None => transfer'[op.by].pc = "asked" /\ <<transfer'[op.by].user, transfer'[op.by].gen>> = s
    BY <2>4, <2>5, <2>6 DEF Home
  <2>8. \A j \in DOMAIN queue'[s] : op.by # None /\ queue'[s][j].by = op.by => i = j
    <3> SUFFICES ASSUME NEW j \in DOMAIN queue'[s], op.by # None, queue'[s][j].by = op.by PROVE i = j OBVIOUS
    <3>1. j + 1 \in DOMAIN queue[s] /\ queue[s][j + 1].by = op.by BY <1>3
    <3>2. k = j + 1 BY <2>4, <3>1
    <3>3. i \in Nat /\ j \in Nat BY <1>3
    <3> QED BY <2>1, <3>2, <3>3
  <2>9. jobs # <<>> => 1 \in DOMAIN jobs BY <1>1, <1>2 DEF Shape
  <2>10. op.kind = "purge" => i = Len(queue'[s]) /\ jobs' # <<>> /\ jobs'[1].started /\ s \in jobs'[1].purge
    <3>1. op.kind = "purge" => i = Len(queue'[s]) BY <1>3, <2>1, <2>4
    <3> QED BY <1>2, <2>4, <2>9, <3>1 DEF SamePlans
  <2>11. op.pc = "queued" BY <2>2, <2>4
  <2>12. queue'[s][i] = op BY <2>2, <2>3
  <2> QED BY <2>4, <2>7, <2>8, <2>10, <2>11, <2>12 DEF OpOK, Home
<1>5. ASSUME HasPurge(s), queue'[s] # <<>> \/ queue[s][1].kind # "purge" PROVE HasPurge(s)'
  <2>1. PICK k \in DOMAIN queue[s] : queue[s][k].kind = "purge" BY <1>5 DEF HasPurge
  <2>2. k = Len(queue[s]) BY <2>1, OpKnown DEF OpOK
  <2>3. queue'[s] # <<>> => Len(queue'[s]) # 0
    <3>1. PICK q : q = queue'[s] OBVIOUS
    <3>2. queue'[s] \in Seq(Operation) BY DEF Shape
    <3>3. q \in Seq(Operation) BY <3>1, <3>2
    <3>4. q # <<>> => Len(q) # 0 BY <3>3, EmptySeq
    <3> QED BY <3>1, <3>4
  <2>4. k # 1 BY <1>3, <1>5, <2>1, <2>2, <2>3
  <2>5. PICK i : i = k - 1 OBVIOUS
  <2>8. PICK l, m : l = Len(queue[s]) /\ m = Len(queue'[s]) OBVIOUS
  <2>9. l \in Nat /\ m = l - 1 /\ k = l /\ k \in 1..l /\ DOMAIN queue'[s] = 1..m BY <1>3, <2>2, <2>8
  <2>6. i \in DOMAIN queue'[s] /\ i + 1 = k
    <3>1. i \in 1..m /\ i + 1 = k BY <2>4, <2>5, <2>9
    <3> QED BY <2>9, <3>1
  <2>7. queue'[s][i].kind = "purge" BY <1>3, <2>1, <2>6
  <2> QED BY <2>6, <2>7 DEF HasPurge
<1>6. queue'[s] # <<>> => IF s[2] = gen' THEN s[1] \in stores' ELSE s[2] < gen' /\ Purging(s)'
  <2> SUFFICES ASSUME queue'[s] # <<>>
      PROVE  IF s[2] = gen' THEN s[1] \in stores' ELSE s[2] < gen' /\ Purging(s)'
    OBVIOUS
  <2>1. IF s[2] = gen THEN s[1] \in stores ELSE s[2] < gen /\ Purging(s) BY <1>1 DEF QueueOK
  <2>2. Purging(s) => Purging(s)' BY <1>2, <1>5 DEF Purging, SamePlans
  <2> QED BY <2>1, <2>2
<1> QED BY <1>4, <1>5, <1>6 DEF QueueOK

\* What an operation of the store s may leave on the device.
NewDisks(s) == {disk, Erased(s), [disk EXCEPT ![s[1]] = s[2]]}

\* A record is written or erased by a store.
LEMMA RecordsOver ==
  ASSUME IInv, Shape', SameJobs, NEW s \in Store, queue[s] # <<>>, disk' \in NewDisks(s),
         UNCHANGED <<gen, gone, missed>>, stores \subseteq stores',
         \A r \in Store : HasPurge(r) => HasPurge(r)'
  PROVE  \A u \in User : RecordOK(u)'
<1> SUFFICES ASSUME NEW u \in User PROVE RecordOK(u)' OBVIOUS
<1>1. Shape /\ RecordOK(u) /\ QueueOK(s) BY DEF IInv
<1>2. SamePlans /\ \A i \in DOMAIN jobs : jobs'[i].bare = jobs[i].bare BY DEF SameJobs
<1>3. Pending(u) => Pending(u)' BY <1>1, <1>2, PendingKept
<1>4. CASE disk'[u] = disk[u] BY <1>1, <1>3, <1>4, RecordKept
<1>5. CASE disk'[u] # disk[u]
  <2>1. u = s[1] /\ s[2] \in Gen /\ (disk'[u] = None \/ disk'[u] = s[2])
    <3>1. disk \in [User -> Gen \union {None, Old}] /\ s[2] \in Gen BY <1>1 DEF Shape, Store
    <3>2. disk' = [disk EXCEPT ![s[1]] = None] \/ disk' = [disk EXCEPT ![s[1]] = s[2]]
      BY <1>5 DEF NewDisks, Erased
    <3> QED BY <1>5, <3>1, <3>2
  <2>2. None \notin Gen \union {Old} BY CleanupAssumption
  <2>3. gen \in Gen BY <1>1 DEF Shape
  <2>4. CASE disk'[u] = None BY <2>2, <2>3, <2>4 DEF RecordOK
  <2>5. CASE disk'[u] = s[2]
    <3>1. IF s[2] = gen THEN s[1] \in stores ELSE s[2] < gen /\ Purging(s) BY <1>1 DEF QueueOK
    <3>2. CASE s[2] = gen
      <4>1. u \in stores' BY <2>1, <3>1, <3>2
      <4>2. disk'[u] = gen' /\ gen' <= gen' BY <2>3, <2>5, <3>2 DEF Gen
      <4> QED BY <4>1, <4>2 DEF RecordOK
    <3>3. CASE s[2] # gen
      <4>1. s[2] < gen /\ Purging(s) BY <3>1, <3>3
      <4>2. Pending(u) BY <2>1, <4>1 DEF Purging, Pending
      <4>3. disk'[u] # gen' /\ disk'[u] <= gen' BY <2>1, <2>3, <2>5, <3>3, <4>1 DEF Gen
      <4> QED BY <1>3, <4>2, <4>3 DEF RecordOK
    <3> QED BY <3>2, <3>3
  <2> QED BY <2>1, <2>4, <2>5
<1> QED BY <1>4, <1>5

\* The records after an operation.
LEMMA DiskType ==
  ASSUME Shape, NEW s \in Store, NEW d \in NewDisks(s)
  PROVE  d \in [User -> Gen \union {None, Old}]
<1>1. disk \in [User -> Gen \union {None, Old}] /\ s[1] \in User /\ s[2] \in Gen BY DEF Shape, Store
<1> QED BY <1>1 DEF NewDisks, Erased

\* An operation that is not a purge is over.
LEMMA OperationEnds ==
  ASSUME IInv, NEW s \in Store, queue[s] # <<>>, NEW d \in NewDisks(s), Over(s, d),
         queue[s][1].kind # "purge", UNCHANGED <<session, stores, chain, cache>>
  PROVE  IInv'
<1>1. Shape BY DEF IInv
<1>2. queue' = [queue EXCEPT ![s] = Tail(@)] /\ disk' = d BY DEF Over
<1>3. UNCHANGED <<gen, gone, user, jobs, made, broken, missed, files, line>> BY DEF session, chain, cache
<1>4. Tail(queue[s]) \in Seq(Operation) BY <1>1, QueueHead
<1>5. queue' = [queue EXCEPT ![s] = Tail(queue[s])] BY <1>2
<1>6. queue' \in [Store -> Seq(Operation)] /\ queue'[s] = Tail(queue[s])
  /\ \A r \in Store : r # s => queue'[r] = queue[r]
  BY <1>1, <1>4, <1>5 DEF Shape
<1>7. /\ transfer' \in [Transfer -> State] /\ OnlyAsking(s)
      /\ \A t \in Transfer : t # queue[s][1].by => transfer'[t] = transfer[t]
  BY WaiterGoesOn
<1>8. disk' \in [User -> Gen \union {None, Old}] BY <1>1, <1>2, DiskType
<1>9. Shape' BY <1>1, <1>3, <1>6, <1>7, <1>8 DEF Shape
<1>10. SameJobs /\ SamePlans BY <1>1, <1>3, Unstirred, Unmoved
<1>11. QueueOK(s)' /\ (HasPurge(s) => HasPurge(s)') BY <1>3, <1>6, <1>7, <1>9, <1>10, RestOfQueue
<1>12. \A r \in Store : HasPurge(r) => HasPurge(r)'
  <2> SUFFICES ASSUME NEW r \in Store, r # s PROVE HasPurge(r) => HasPurge(r)' BY <1>11
  <2> QED BY <1>6 DEF HasPurge
<1>13. \A u \in User : RecordOK(u)' BY <1>2, <1>3, <1>9, <1>10, <1>12, RecordsOver
<1>14. stores \subseteq stores' /\ stores' \subseteq User /\ jobs' \in Seq(Cleanup) BY <1>1, <1>3 DEF Shape
<1>15. UNCHANGED <<session, made, broken, cache>> BY <1>3
<1> QED BY <1>4, <1>5, <1>7, <1>8, <1>10, <1>11, <1>13, <1>14, <1>15, StoreStep

\* The first operation of a store goes on.
LEMMA HeadGoesOn ==
  ASSUME IInv, NEW s \in Store, queue[s] # <<>>, NEW d \in NewDisks(s), disk' = d, NEW p \in {"writing", "undoing"},
         queue' = [queue EXCEPT ![s] = <<[queue[s][1] EXCEPT !.pc = p]>> \o Tail(@)],
         queue[s][1].kind = "write", s[2] = gen => jobs = <<>>,
         UNCHANGED <<session, stores, chain, cache, transfer>>
  PROVE  IInv'
<1>1. Shape /\ QueueOK(s) BY DEF IInv
<1>2. UNCHANGED <<gen, gone, user, jobs, made, broken, missed, files, line>> BY DEF session, chain, cache
<1>3. PICK x : x = [queue[s][1] EXCEPT !.pc = p] OBVIOUS
<1>4. 1 \in DOMAIN queue[s] /\ queue[s][1] \in Operation BY <1>1, QueueHead
<1>5. x \in Operation /\ x.kind = queue[s][1].kind /\ x.gate = queue[s][1].gate /\ x.by = queue[s][1].by
  BY <1>3, <1>4 DEF Operation
<1>6. PICK q : q = <<x>> \o Tail(queue[s]) OBVIOUS
<1>7. /\ q \in Seq(Operation) /\ Len(q) = Len(queue[s]) /\ q # <<>> /\ DOMAIN q = DOMAIN queue[s]
      /\ q[1] = x /\ \A i \in DOMAIN queue[s] : i # 1 => q[i] = queue[s][i]
  <2>1. queue[s] \in Seq(Operation) BY <1>1 DEF Shape
  <2> QED BY <1>5, <1>6, <2>1, Joined
<1>8. queue' = [queue EXCEPT ![s] = q] BY <1>3, <1>6
<1>9. queue' \in [Store -> Seq(Operation)] /\ queue'[s] = q
  /\ \A r \in Store : r # s => queue'[r] = queue[r]
  BY <1>1, <1>7, <1>8 DEF Shape
<1>10. disk' \in [User -> Gen \union {None, Old}] BY <1>1, DiskType
<1>11. Shape' BY <1>1, <1>2, <1>9, <1>10 DEF Shape
<1>12. SameJobs /\ SamePlans BY <1>1, <1>2, Unstirred, Unmoved
<1>13. \A i \in DOMAIN q : q[i].kind = queue[s][i].kind /\ q[i].gate = queue[s][i].gate /\ q[i].by = queue[s][i].by
  BY <1>5, <1>7
<1>14. ASSUME NEW i \in DOMAIN queue'[s] PROVE OpOK(s, i)'
  <2>1. PICK op : op = queue[s][i] OBVIOUS
  <2>2. i \in DOMAIN queue[s] /\ i \in DOMAIN q BY <1>7, <1>9
  <2>3. /\ op.pc # "queued" => i = 1 /\ op.kind = "write"
        /\ op.kind = "write" => op.gate = s[2] + 1
        /\ op.pc # "queued" /\ s[2] = gen => jobs = <<>>
        /\ op.by # None => transfer[op.by].pc = "asked" /\ Home(op.by) = s
        /\ \A j \in DOMAIN queue[s] : op.by # None /\ queue[s][j].by = op.by => i = j
        /\ op.kind = "purge" => i = Len(queue[s]) /\ jobs # <<>> /\ jobs[1].started /\ s \in jobs[1].purge
    BY <2>1, <2>2, OpKnown DEF OpOK
  <2>4. PICK new : new = queue'[s][i] OBVIOUS
  <2>5. new.kind = op.kind /\ new.gate = op.gate /\ new.by = op.by /\ (new.pc # "queued" => i = 1 \/ new = op)
    BY <1>7, <1>9, <1>13, <2>1, <2>2, <2>4
  <2>6. \A j \in DOMAIN queue'[s] : queue'[s][j].by = queue[s][j].by BY <1>9, <1>13
  <2>7. new.pc # "queued" => i = 1 /\ new.kind = "write" BY <2>1, <2>3, <2>5
  <2>8. /\ new.kind = "write" => new.gate = s[2] + 1
        /\ new.pc # "queued" /\ s[2] = gen => jobs = <<>>
    BY <2>3, <2>5
  <2>9. new.by # None => transfer'[new.by].pc = "asked" /\ <<transfer'[new.by].user, transfer'[new.by].gen>> = s
    BY <2>3, <2>5 DEF Home
  <2>10. \A j \in DOMAIN queue'[s] : new.by # None /\ queue'[s][j].by = new.by => i = j
    BY <1>7, <1>9, <2>3, <2>5, <2>6
  <2>11. new.kind = "purge" => i = Len(queue'[s]) /\ jobs' # <<>> /\ jobs'[1].started /\ s \in jobs'[1].purge
    BY <1>2, <1>7, <1>9, <2>3, <2>5
  <2> QED BY <1>2, <2>4, <2>7, <2>8, <2>9, <2>10, <2>11 DEF OpOK, Home
<1>15. HasPurge(s)' <=> HasPurge(s) BY <1>7, <1>9, <1>13 DEF HasPurge
<1>16. QueueOK(s)'
  <2>1. IF s[2] = gen THEN s[1] \in stores ELSE s[2] < gen /\ Purging(s) BY <1>1 DEF QueueOK
  <2>2. Purging(s)' <=> Purging(s) BY <1>2, <1>15 DEF Purging
  <2>3. stores' = stores OBVIOUS
  <2> QED BY <1>2, <1>14, <2>1, <2>2, <2>3 DEF QueueOK
<1>17. \A r \in Store : HasPurge(r) => HasPurge(r)'
  <2> SUFFICES ASSUME NEW r \in Store, r # s PROVE HasPurge(r) => HasPurge(r)' BY <1>15
  <2> QED BY <1>9 DEF HasPurge
<1>18. \A u \in User : RecordOK(u)' BY <1>2, <1>11, <1>12, <1>17, RecordsOver
<1>19. stores \subseteq stores' /\ stores' \subseteq User /\ jobs' \in Seq(Cleanup) BY <1>1, <1>2 DEF Shape
<1>20. UNCHANGED <<session, made, broken, cache>> BY <1>2
<1>21. transfer' \in [Transfer -> State] /\ OnlyAsking(s) BY <1>1 DEF Shape, OnlyAsking
<1> QED BY <1>7, <1>8, <1>10, <1>12, <1>16, <1>18, <1>19, <1>20, <1>21, StoreStep

\* Reading, clearing, and taking a record back.
LEMMA SimpleOperations ==
  ASSUME IInv, NEW s \in Store, Read(s) \/ Clear(s) \/ Undo(s)
  PROVE  IInv'
<1>1. Shape /\ queue[s] # <<>> /\ UNCHANGED <<session, stores, chain, cache>>
  BY DEF IInv, Read, Clear, Undo
<1>2. Head(queue[s]) = queue[s][1] /\ 1 \in DOMAIN queue[s] BY <1>1, QueueHead
<1>3. queue[s][1].kind # "purge"
  <2>1. CASE queue[s][1].pc = "undoing" BY <1>2, <2>1, OpKnown DEF OpOK
  <2>2. CASE queue[s][1].kind \in {"read", "clear"} BY <2>2
  <2> QED BY <1>2, <2>1, <2>2 DEF Read, Clear, Undo
<1>4. disk \in NewDisks(s) /\ Erased(s) \in NewDisks(s) BY DEF NewDisks
<1>5. CASE Over(s, disk) BY <1>1, <1>3, <1>4, <1>5, OperationEnds
<1>6. CASE Over(s, Erased(s)) BY <1>1, <1>3, <1>4, <1>6, OperationEnds
<1> QED BY <1>5, <1>6 DEF Read, Clear, Undo

\* A write begins, or is refused.
LEMMA Writes ==
  ASSUME IInv, NEW s \in Store, Write(s)
  PROVE  IInv'
<1>1. Shape /\ queue[s] # <<>> /\ UNCHANGED <<session, stores, chain, cache>> BY DEF IInv, Write
<1>2. Head(queue[s]) = queue[s][1] /\ 1 \in DOMAIN queue[s] BY <1>1, QueueHead
<1>3. queue[s][1].kind = "write" /\ Through(queue[s][1].gate) BY <1>2 DEF Write
<1>4. disk \in NewDisks(s) BY DEF NewDisks
<1>5. CASE /\ queue' = [queue EXCEPT ![s] = <<[queue[s][1] EXCEPT !.pc = "writing"]>> \o Tail(@)]
           /\ UNCHANGED <<disk, transfer>>
  <2>1. queue[s][1].gate = s[2] + 1 BY <1>2, <1>3, OpKnown DEF OpOK
  <2>2. s[2] = gen => queue[s][1].gate = made BY <1>1, <2>1 DEF Shape
  <2>3. s[2] = gen => jobs = <<>> BY <1>1, <1>3, <2>2, Passed
  <2> QED BY <1>1, <1>3, <1>4, <1>5, <2>3, HeadGoesOn
<1>6. CASE Over(s, disk) BY <1>1, <1>3, <1>4, <1>6, OperationEnds
<1> QED BY <1>2, <1>5, <1>6 DEF Write

\* The device has answered a write.
LEMMA WritesEnd ==
  ASSUME IInv, NEW s \in Store, Written(s)
  PROVE  IInv'
<1>1. Shape /\ queue[s] # <<>> /\ UNCHANGED <<session, stores, chain, cache>> BY DEF IInv, Written
<1>2. Head(queue[s]) = queue[s][1] /\ 1 \in DOMAIN queue[s] BY <1>1, QueueHead
<1>3. queue[s][1].pc = "writing" BY <1>2 DEF Written
<1>4. queue[s][1].kind = "write" /\ (s[2] = gen => jobs = <<>>) BY <1>2, <1>3, OpKnown DEF OpOK
<1>5. PICK new : new = [disk EXCEPT ![s[1]] = s[2]] OBVIOUS
<1>6. disk \in NewDisks(s) /\ new \in NewDisks(s) BY <1>5 DEF NewDisks
<1>7. CASE Over(s, disk) BY <1>1, <1>4, <1>6, <1>7, OperationEnds
<1>8. CASE Over(s, new) BY <1>1, <1>4, <1>6, <1>8, OperationEnds
<1>9. CASE /\ disk' = new
           /\ queue' = [queue EXCEPT ![s] = <<[queue[s][1] EXCEPT !.pc = "undoing"]>> \o Tail(@)]
           /\ UNCHANGED transfer
  BY <1>1, <1>4, <1>6, <1>9, HeadGoesOn
<1> QED BY <1>2, <1>5, <1>7, <1>8, <1>9 DEF Written

\* A purge ends, with or without the record.
LEMMA Purges ==
  ASSUME IInv, NEW s \in Store, Purged(s)
  PROVE  IInv'
<1>1. Shape /\ queue[s] # <<>> /\ UNCHANGED <<session, stores, made, broken, cache>> BY DEF IInv, Purged
<1>2. Head(queue[s]) = queue[s][1] /\ 1 \in DOMAIN queue[s] BY <1>1, QueueHead
<1>3. queue[s][1].kind = "purge" BY <1>2 DEF Purged
<1>4. 1 = Len(queue[s]) /\ jobs # <<>>
  <2>1. OpOK(s, 1) BY <1>2, OpKnown
  <2>2. queue[s][1].kind = "purge" => 1 = Len(queue[s]) /\ jobs # <<>> BY <2>1 DEF OpOK
  <2> QED BY <1>3, <2>2
<1>5. Tail(queue[s]) = <<>> /\ Tail(queue[s]) \in Seq(Operation)
  <2>1. Tail(queue[s]) \in Seq(Operation) /\ Len(Tail(queue[s])) = Len(queue[s]) - 1 BY <1>1, QueueHead
  <2>2. PICK q : q = Tail(queue[s]) OBVIOUS
  <2>3. q \in Seq(Operation) /\ Len(q) = 0 BY <1>4, <2>1, <2>2
  <2> QED BY <2>2, <2>3, EmptySeq
<1>6. PICK d \in NewDisks(s) : Over(s, d) /\ (d = Erased(s) \/ d = disk)
  BY DEF Purged, NewDisks
<1>7. \/ d = Erased(s) /\ UNCHANGED jobs /\ missed' = missed \ {s[1]}
      \/ NowIs([Now EXCEPT !.failed = TRUE]) /\ missed' = missed \union {s[1]}
  <2>1. Over(s, d) => disk' = d BY DEF Over
  <2>2. CASE Over(s, Erased(s)) /\ UNCHANGED jobs /\ missed' = missed \ {s[1]}
    <3>1. disk' = Erased(s) BY <2>2 DEF Over
    <3> QED BY <1>6, <2>1, <2>2, <3>1
  <2>3. CASE Over(s, disk) /\ NowIs([Now EXCEPT !.failed = TRUE]) /\ missed' = missed \union {s[1]}
    BY <2>3
  <2> QED BY <2>2, <2>3 DEF Purged
<1>8. jobs' \in Seq(Cleanup) /\ SameJobs
  <2>1. CASE UNCHANGED jobs BY <1>1, <2>1, Unstirred DEF Shape
  <2>2. CASE NowIs([Now EXCEPT !.failed = TRUE])
    <3>1. jobs \in Seq(Cleanup) BY <1>1 DEF Shape
    <3>2. Now = jobs[1] /\ 1 \in DOMAIN jobs BY <1>4, <3>1 DEF Now
    <3>3. PICK j : j = [jobs[1] EXCEPT !.failed = TRUE] OBVIOUS
    <3>4. jobs[1] \in Cleanup BY <1>1, <3>2, JobType
    <3>5. j \in Cleanup /\ j.drain = jobs[1].drain /\ j.purge = jobs[1].purge /\ j.bare = jobs[1].bare
      /\ j.cache = jobs[1].cache /\ j.started = jobs[1].started /\ j.failed = TRUE
      BY <3>3, <3>4 DEF Cleanup
    <3>6. jobs' = <<j>> \o Tail(jobs) BY <2>2, <3>2, <3>3 DEF NowIs
    <3>7. /\ jobs' \in Seq(Cleanup) /\ Len(jobs') = Len(jobs) /\ jobs' # <<>> /\ DOMAIN jobs' = DOMAIN jobs
          /\ jobs'[1] = j /\ \A i \in DOMAIN jobs : i # 1 => jobs'[i] = jobs[i]
      BY <1>4, <3>1, <3>5, <3>6, Joined
    <3> QED BY <3>5, <3>7 DEF SameJobs, SamePlans
  <2> QED BY <1>7, <2>1, <2>2
<1>9. UNCHANGED <<gen, gone, user, made, broken, files, line>> BY <1>1 DEF session, cache
<1>10. queue' = [queue EXCEPT ![s] = Tail(queue[s])] /\ disk' = d BY <1>6 DEF Over
<1>11. queue' \in [Store -> Seq(Operation)] /\ queue'[s] = Tail(queue[s])
  /\ \A r \in Store : r # s => queue'[r] = queue[r]
  BY <1>1, <1>5, <1>10 DEF Shape
<1>12. /\ transfer' \in [Transfer -> State] /\ OnlyAsking(s)
       /\ \A t \in Transfer : t # queue[s][1].by => transfer'[t] = transfer[t]
  BY <1>1, <1>6, WaiterGoesOn
<1>13. disk' \in [User -> Gen \union {None, Old}] BY <1>1, <1>10, DiskType
<1>14. Len(jobs') = Len(jobs) /\ SamePlans BY <1>8 DEF SameJobs, SamePlans
<1>15. Shape' BY <1>1, <1>8, <1>9, <1>11, <1>12, <1>13, <1>14 DEF Shape
<1>16. QueueOK(s)' BY <1>1, <1>9, <1>11, <1>12, <1>14, <1>15, RestOfQueue
<1>17. ASSUME NEW u \in User PROVE RecordOK(u)'
  <2>1. RecordOK(u) BY DEF IInv
  <2>2. CASE u # s[1]
    <3>1. disk'[u] = disk[u] BY <1>1, <1>6, <1>10, <2>2 DEF Erased, Shape
    <3>2. u \in missed => u \in missed' BY <1>7, <2>2
    <3>3. Pending(u) => Pending(u)'
      <4> SUFFICES ASSUME Pending(u) PROVE Pending(u)' OBVIOUS
      <4>1. DOMAIN jobs' = DOMAIN jobs BY <1>1, <1>14, <1>15, SameDomain
      <4>2. PICK i \in DOMAIN jobs :
              u \in jobs[i].bare \/ \E r \in jobs[i].purge : r[1] = u /\ (jobs[i].started => HasPurge(r))
        BY DEF Pending
      <4>3. CASE u \in jobs[i].bare BY <1>8, <4>1, <4>2, <4>3 DEF Pending, SameJobs
      <4>4. CASE \E r \in jobs[i].purge : r[1] = u /\ (jobs[i].started => HasPurge(r))
        <5>1. PICK r \in jobs[i].purge : r[1] = u /\ (jobs[i].started => HasPurge(r)) BY <4>4
        <5>2. r \in Store BY <1>1, <4>2, <5>1, JobType
        <5>3. HasPurge(r)' <=> HasPurge(r) BY <1>11, <2>2, <5>1, <5>2 DEF HasPurge
        <5>4. r \in jobs'[i].purge /\ (jobs'[i].started => HasPurge(r)') BY <1>14, <4>2, <5>1, <5>3 DEF SamePlans
        <5> QED BY <4>1, <4>2, <5>1, <5>4 DEF Pending
      <4> QED BY <4>2, <4>3, <4>4
    <3> QED BY <1>1, <1>9, <2>1, <3>1, <3>2, <3>3, RecordKept
  <2>3. CASE u = s[1]
    <3>1. None \notin Gen \union {Old} /\ gen \in Gen BY <1>1, CleanupAssumption DEF Shape
    <3>2. CASE d = Erased(s)
      <4>1. disk'[u] = None BY <1>1, <1>10, <2>3, <3>2 DEF Erased, Shape
      <4> QED BY <1>9, <3>1, <4>1 DEF RecordOK
    <3>3. CASE d # Erased(s)
      <4>1. disk' = disk /\ u \in missed' BY <1>6, <1>7, <1>10, <2>3, <3>3
      <4>2. stores' = stores /\ gen' = gen BY <1>1, <1>9
      <4> QED BY <2>1, <4>1, <4>2 DEF RecordOK
    <3> QED BY <3>2, <3>3
  <2> QED BY <2>2, <2>3
<1>18. stores \subseteq stores' /\ stores' \subseteq User BY <1>1 DEF Shape
<1> QED BY <1>1, <1>5, <1>8, <1>10, <1>12, <1>13, <1>16, <1>17, <1>18, StoreStep

\* An operation is queued.
LEMMA Enqueues ==
  ASSUME IInv, NEW s \in Store, NEW t \in Transfer \union {None}, NEW kind \in {"read", "write", "clear"},
         Queued(kind, s, t), ~HasPurge(s), kind = "write" => s[2] = gen,
         UNCHANGED <<session, disk, chain, cache>>, stores \subseteq stores', stores' \subseteq User,
         transfer' \in [Transfer -> State], OnlyAsking(s),
         \A u \in Transfer : u # t => transfer'[u] = transfer[u],
         t # None => transfer'[t].pc = "asked" /\ Home(t) = s /\ transfer[t].pc = "work",
         IF s[2] = gen THEN s[1] \in stores'
         ELSE s[2] < gen /\ \E i \in DOMAIN jobs : s \in jobs[i].purge /\ ~jobs[i].started
  PROVE  IInv'
<1>1. Shape /\ QueueOK(s) BY DEF IInv
<1>2. UNCHANGED <<gen, gone, user, jobs, made, broken, missed, files, line>> BY DEF session, chain, cache
<1>3. PICK op : op = Op(kind, s, t) OBVIOUS
<1>4. made \in Nat /\ gen \in Gen /\ made = gen + 1 BY <1>1 DEF Shape, Gen
<1>5. op \in Operation /\ op.kind = kind /\ op.by = t /\ op.pc = "queued"
  /\ op.gate = IF kind \in Gated THEN made ELSE 0
  BY <1>3, <1>4 DEF Op, Operation, Gate, Gated
<1>6. PICK old : old = IF kind = "clear" THEN Voided(queue[s]) ELSE queue[s] OBVIOUS
<1>7. /\ old \in Seq(Operation) /\ Len(old) = Len(queue[s]) /\ DOMAIN old = DOMAIN queue[s]
      /\ \A i \in DOMAIN queue[s] : /\ old[i].kind = queue[s][i].kind /\ old[i].gate = queue[s][i].gate
                                    /\ old[i].by = queue[s][i].by /\ old[i].pc = queue[s][i].pc
  <2>1. queue[s] \in Seq(Operation) BY <1>1 DEF Shape
  <2> QED BY <1>6, <2>1, VoidedQueue
<1>8. PICK q : q = Append(old, op) OBVIOUS
<1>9. /\ q \in Seq(Operation) /\ Len(q) = Len(queue[s]) + 1 /\ Len(queue[s]) \in Nat
      /\ DOMAIN q = 1..(Len(queue[s]) + 1) /\ DOMAIN queue[s] = 1..Len(queue[s])
      /\ q[Len(queue[s]) + 1] = op /\ \A i \in DOMAIN queue[s] : q[i] = old[i]
  <2>1. queue[s] \in Seq(Operation) BY <1>1 DEF Shape
  <2> QED BY <1>5, <1>7, <1>8, <2>1
<1>10. queue' = [queue EXCEPT ![s] = q] BY <1>3, <1>6, <1>8 DEF Queued
<1>11. queue' \in [Store -> Seq(Operation)] /\ queue'[s] = q
  /\ \A r \in Store : r # s => queue'[r] = queue[r]
  BY <1>1, <1>9, <1>10 DEF Shape
<1>12. Shape' BY <1>1, <1>2, <1>11 DEF Shape
<1>13. SameJobs /\ SamePlans BY <1>1, <1>2, Unstirred, Unmoved
<1>14. \A i \in DOMAIN queue[s] : queue[s][i].by # None => queue[s][i].by # t
  <2> SUFFICES ASSUME NEW i \in DOMAIN queue[s], queue[s][i].by # None, queue[s][i].by = t PROVE FALSE OBVIOUS
  <2>1. transfer[queue[s][i].by].pc = "asked" BY OpKnown DEF OpOK
  <2> QED BY <2>1
<1>15. ASSUME NEW i \in DOMAIN queue'[s], i # Len(queue[s]) + 1 PROVE OpOK(s, i)'
  <2>1. i \in DOMAIN queue[s] BY <1>9, <1>11, <1>15
  <2>2. PICK o : o = queue[s][i] OBVIOUS
  <2>3. /\ o.pc # "queued" => i = 1 /\ o.kind = "write"
        /\ o.kind = "write" => o.gate = s[2] + 1
        /\ o.pc # "queued" /\ s[2] = gen => jobs = <<>>
        /\ o.by # None => transfer[o.by].pc = "asked" /\ Home(o.by) = s
        /\ \A j \in DOMAIN queue[s] : o.by # None /\ queue[s][j].by = o.by => i = j
        /\ o.kind # "purge"
    BY <2>1, <2>2, OpKnown DEF OpOK, HasPurge
  <2>4. PICK new : new = queue'[s][i] OBVIOUS
  <2>5. new.kind = o.kind /\ new.gate = o.gate /\ new.by = o.by /\ new.pc = o.pc
    BY <1>7, <1>9, <1>11, <2>1, <2>2, <2>4
  <2>6. /\ new.pc # "queued" => i = 1 /\ new.kind = "write"
        /\ new.kind = "write" => new.gate = s[2] + 1
        /\ new.pc # "queued" /\ s[2] = gen' => jobs' = <<>>
        /\ new.kind # "purge"
    BY <1>2, <2>3, <2>5
  <2>7. o.by # None => o.by \in Transfer BY <1>1, <2>1, <2>2, OpType
  <2>8. o.by # None => o.by # t BY <1>14, <2>1, <2>2
  <2>9. new.by # None => transfer'[new.by].pc = "asked" /\ <<transfer'[new.by].user, transfer'[new.by].gen>> = s
    BY <2>3, <2>5, <2>7, <2>8 DEF Home
  <2>10. \A j \in DOMAIN queue'[s] : new.by # None /\ queue'[s][j].by = new.by => i = j
    <3> SUFFICES ASSUME NEW j \in DOMAIN queue'[s], new.by # None, queue'[s][j].by = new.by PROVE i = j OBVIOUS
    <3>1. CASE j = Len(queue[s]) + 1 BY <1>5, <1>9, <1>11, <2>5, <2>8, <3>1
    <3>2. CASE j # Len(queue[s]) + 1
      <4>1. j \in DOMAIN queue[s] BY <1>9, <1>11, <3>2
      <4>2. queue[s][j].by = o.by BY <1>7, <1>9, <1>11, <2>5, <4>1
      <4> QED BY <2>3, <2>5, <4>1, <4>2
    <3> QED BY <3>1, <3>2
  <2> QED BY <2>4, <2>6, <2>9, <2>10 DEF OpOK, Home
<1>16. ASSUME NEW i \in DOMAIN queue'[s], i = Len(queue[s]) + 1 PROVE OpOK(s, i)'
  <2>1. queue'[s][i] = op BY <1>9, <1>11, <1>16
  <2>2. kind = "write" => op.gate = s[2] + 1 BY <1>4, <1>5 DEF Gated
  <2>3. t # None => transfer'[t].pc = "asked" /\ <<transfer'[t].user, transfer'[t].gen>> = s
    <3> SUFFICES ASSUME t # None PROVE <<transfer'[t].user, transfer'[t].gen>> = s OBVIOUS
    <3>1. t \in Transfer OBVIOUS
    <3>2. transfer'[t].user = transfer[t].user /\ transfer'[t].gen = transfer[t].gen BY <3>1 DEF OnlyAsking
    <3> QED BY <3>2 DEF Home
  <2>4. \A j \in DOMAIN queue'[s] : t # None /\ queue'[s][j].by = t => i = j
    <3> SUFFICES ASSUME NEW j \in DOMAIN queue'[s], t # None, queue'[s][j].by = t, j # Len(queue[s]) + 1 PROVE FALSE
      BY <1>16
    <3>1. j \in DOMAIN queue[s] BY <1>9, <1>11
    <3>2. queue[s][j].by = t BY <1>7, <1>9, <1>11, <3>1
    <3> QED BY <1>14, <3>1, <3>2
  <2> QED BY <1>5, <2>1, <2>2, <2>3, <2>4 DEF OpOK, Home
<1>17. QueueOK(s)'
  <2>1. ASSUME NEW i \in DOMAIN jobs, s \in jobs[i].purge, ~jobs[i].started PROVE Purging(s)'
    BY <1>2, <2>1 DEF Purging
  <2>2. IF s[2] = gen' THEN s[1] \in stores' ELSE s[2] < gen' /\ Purging(s)' BY <1>2, <2>1
  <2> QED BY <1>15, <1>16, <2>2 DEF QueueOK
<1>18. ASSUME NEW u \in User PROVE RecordOK(u)'
  <2>1. RecordOK(u) BY DEF IInv
  <2>2. ASSUME NEW r \in Store, HasPurge(r) PROVE HasPurge(r)'
    <3>1. r # s BY <2>2
    <3> QED BY <1>11, <2>2, <3>1 DEF HasPurge
  <2>3. Pending(u) => Pending(u)' BY <1>1, <1>2, <1>12, <1>13, <2>2, PendingKept
  <2> QED BY <1>2, <2>1, <2>3, RecordKept
<1>19. disk' \in [User -> Gen \union {None, Old}] /\ jobs' \in Seq(Cleanup) BY <1>1, <1>2 DEF Shape
<1>20. UNCHANGED <<session, made, broken, cache>> BY <1>2
<1> QED BY <1>9, <1>10, <1>13, <1>17, <1>18, <1>19, <1>20, StoreStep

\* No purge is in a queue of the session.
LEMMA NoPurge ==
  ASSUME IInv, NEW s \in Store, HasPurge(s)
  PROVE  /\ jobs # <<>> /\ 1 \in DOMAIN jobs /\ jobs[1].started /\ s \in jobs[1].purge
         /\ s[2] < gen
<1>1. Shape /\ ChainOK BY DEF IInv
<1>2. jobs # <<>> /\ jobs[1].started /\ s \in jobs[1].purge BY OpKnown DEF HasPurge, OpOK
<1>3. 1 \in DOMAIN jobs BY <1>1, <1>2 DEF Shape
<1> QED BY <1>1, <1>2, <1>3 DEF ChainOK

\* A submit flow asks its store.
LEMMA Asks ==
  ASSUME IInv, NEW t \in Transfer, Ask(t)
  PROVE  IInv'
<1>1. Shape /\ ChainOK BY DEF IInv
<1>2. transfer[t].pc = "work" /\ t \in Tracked BY DEF Ask, Tracked
<1>3. Running(t) BY <1>2 DEF IInv
<1>4. transfer[t] \in State BY <1>1, StateType
<1>5. transfer[t].user \in User /\ transfer[t].gen \in Gen BY <1>3, <1>4 DEF Running, State
<1>6. PICK s : s = Home(t) OBVIOUS
<1>7. s \in Store /\ s[1] = transfer[t].user /\ s[2] = transfer[t].gen BY <1>5, <1>6 DEF Home, Store
<1>8. PICK kind \in {"read", "write", "clear"} : (kind = "clear" \/ s[2] = gen) /\ Queued(kind, s, t)
  BY <1>6 DEF Ask, Valid
<1>9. gen \in Gen BY <1>1 DEF Shape
<1>10. IF s[2] = gen THEN s[1] \in stores
       ELSE s[2] < gen /\ \E i \in DOMAIN jobs : s \in jobs[i].purge /\ ~jobs[i].started
  <2>1. transfer[t].kind = "submit" /\ transfer[t].gen <= gen BY <1>2, <1>3 DEF Running
  <2>2. IF s[2] = gen THEN s[1] \in stores ELSE Followed(t) BY <1>3, <1>7, <2>1 DEF Running
  <2>3. s[2] # gen => s[2] < gen BY <1>5, <1>7, <1>9, <2>1 DEF Gen
  <2>4. Followed(t) => \E i \in DOMAIN jobs : s \in jobs[i].purge /\ ~jobs[i].started
    <3> SUFFICES ASSUME NEW i \in DOMAIN jobs, Home(t) \in jobs[i].purge, t \in jobs[i].drain
        PROVE  s \in jobs[i].purge /\ ~jobs[i].started
      BY DEF Followed
    <3> QED BY <1>1, <1>2, <1>6 DEF ChainOK
  <2> QED BY <2>2, <2>3, <2>4
<1>11. ~HasPurge(s)
  <2> SUFFICES ASSUME HasPurge(s) PROVE FALSE OBVIOUS
  <2>1. 1 \in DOMAIN jobs /\ jobs[1].started /\ s \in jobs[1].purge /\ s[2] < gen BY <1>7, NoPurge
  <2>2. s[2] # gen BY <1>7, <1>5, <1>9, <2>1 DEF Gen
  <2>3. PICK i \in DOMAIN jobs : s \in jobs[i].purge /\ ~jobs[i].started BY <1>10, <2>2
  <2>4. i # 1 BY <2>1, <2>3
  <2>5. jobs[i].purge \intersect jobs[1].purge = {} BY <1>1, <2>1, <2>4 DEF ChainOK
  <2> QED BY <2>1, <2>3, <2>5
<1>12. PICK x : x = [transfer[t] EXCEPT !.pc = "asked"] OBVIOUS
<1>13. x \in State /\ x.kind = transfer[t].kind /\ x.gen = transfer[t].gen /\ x.user = transfer[t].user
  /\ x.pc = "asked"
  BY <1>4, <1>12 DEF State, Pcs
<1>14. transfer' = [transfer EXCEPT ![t] = x] BY <1>12 DEF Ask
<1>15. transfer'[t] = x /\ transfer' \in [Transfer -> State]
  /\ \A u \in Transfer : u # t => transfer'[u] = transfer[u]
  BY <1>1, <1>13, <1>14, Moved
<1>16. OnlyAsking(s) BY <1>2, <1>6, <1>13, <1>15 DEF OnlyAsking
<1>17. UNCHANGED <<session, stores, disk, chain, cache>> BY DEF Ask
<1>18. stores \subseteq stores' /\ stores' \subseteq User BY <1>1, <1>17 DEF Shape
<1>19. t \in Transfer \union {None} OBVIOUS
<1>20. IF s[2] = gen THEN s[1] \in stores'
       ELSE s[2] < gen /\ \E i \in DOMAIN jobs : s \in jobs[i].purge /\ ~jobs[i].started
  BY <1>10, <1>17
<1>21. t # None => transfer'[t].pc = "asked" /\ Home(t) = s /\ transfer[t].pc = "work" BY <1>2, <1>6, <1>13, <1>15
<1> QED BY <1>7, <1>8, <1>11, <1>15, <1>16, <1>17, <1>18, <1>19, <1>20, <1>21, Enqueues

\* A screen that is not tracked asks a store.
LEMMA Touches ==
  ASSUME IInv, Touch
  PROVE  IInv'
<1>1. Shape BY DEF IInv
<1>2. PICK u \in (gone \union {user}) \ {None}, kind \in {"read", "clear"} :
        stores' = stores \union {u} /\ Queued(kind, <<u, gen>>, None)
  BY DEF Touch
<1>3. UNCHANGED <<session, disk, chain, cache, transfer>> BY DEF Touch
<1>4. u \in User BY <1>1 DEF Shape
<1>5. PICK s : s = <<u, gen>> OBVIOUS
<1>6. gen \in Gen BY <1>1 DEF Shape
<1>7. s \in Store /\ s[1] = u /\ s[2] = gen BY <1>4, <1>5, <1>6 DEF Store
<1>8. ~HasPurge(s)
  <2> SUFFICES ASSUME HasPurge(s) PROVE FALSE OBVIOUS
  <2>1. s[2] < gen BY <1>7, NoPurge
  <2> QED BY <1>6, <1>7, <2>1 DEF Gen
<1>9. stores \subseteq stores' /\ stores' \subseteq User /\ s[1] \in stores' BY <1>1, <1>2, <1>4, <1>7 DEF Shape
<1>10. transfer' \in [Transfer -> State] /\ OnlyAsking(s) /\ \A t \in Transfer : transfer'[t] = transfer[t]
  BY <1>1, <1>3 DEF Shape, OnlyAsking
<1>11. None \in Transfer \union {None} /\ kind \in {"read", "write", "clear"} /\ kind # "write"
  /\ Queued(kind, s, None)
  BY <1>2, <1>5
<1> QED BY <1>3, <1>7, <1>8, <1>9, <1>10, <1>11, Enqueues

-----------------------------------------------------------------------------
(* The cleanups.                                                           *)

\* The cleanup under way.
LEMMA HeadJob ==
  ASSUME Shape, jobs # <<>>
  PROVE  Now = jobs[1] /\ 1 \in DOMAIN jobs /\ jobs[1] \in Cleanup
<1>1. jobs \in Seq(Cleanup) BY DEF Shape
<1>2. 1 \in DOMAIN jobs /\ Head(jobs) = jobs[1] BY <1>1
<1> QED BY <1>2, JobType DEF Now

\* The cleanup under way changes.
LEMMA HeadBecomes ==
  ASSUME Shape, jobs # <<>>, NEW j \in Cleanup, NowIs(j)
  PROVE  /\ jobs' \in Seq(Cleanup) /\ Len(jobs') = Len(jobs) /\ jobs' # <<>> /\ DOMAIN jobs' = DOMAIN jobs
         /\ jobs'[1] = j /\ \A i \in DOMAIN jobs : i # 1 => jobs'[i] = jobs[i]
<1>1. jobs \in Seq(Cleanup) /\ jobs' = <<j>> \o Tail(jobs) BY DEF Shape, NowIs
<1> QED BY <1>1, Joined

\* One of the cleanups that a job has started ends.
LEMMA CleanupStep ==
  ASSUME IInv, jobs # <<>>, NEW j \in Cleanup, NowIs(j), jobs[1].started,
         j.drain = jobs[1].drain, j.purge = jobs[1].purge, j.started = jobs[1].started,
         UNCHANGED <<session, stores, queue, made, broken, line, transfer>>,
         files' \in Seq(File), disk' \in [User -> Gen \union {None, Old}],
         \A u \in User : RecordOK(u)', CacheOK'
  PROVE  IInv'
<1>1. Shape /\ ChainOK BY DEF IInv
<1>2. /\ jobs' \in Seq(Cleanup) /\ Len(jobs') = Len(jobs) /\ jobs' # <<>> /\ DOMAIN jobs' = DOMAIN jobs
      /\ jobs'[1] = j /\ \A i \in DOMAIN jobs : i # 1 => jobs'[i] = jobs[i]
  BY <1>1, HeadBecomes
<1>3. UNCHANGED <<gen, gone, user>> BY DEF session
<1>4. Shape' BY <1>1, <1>2, <1>3 DEF Shape
<1>5. SamePlans BY <1>2 DEF SamePlans
<1>6. \A i \in DOMAIN jobs : ~jobs'[i].started => jobs'[i].cache = "todo" BY <1>1, <1>2 DEF ChainOK
<1>7. Onward BY DEF Onward
<1>8. ChainOK' BY <1>1, <1>3, <1>4, <1>5, <1>6, <1>7, ChainKept
<1>9. ASSUME NEW t \in Tracked' PROVE Running(t)'
  <2>1. t \in Transfer /\ t \in Tracked BY DEF Tracked
  <2>2. Running(t) BY <2>1 DEF IInv
  <2> QED BY <1>1, <1>3, <1>4, <1>5, <2>1, <2>2, StillRunning
<1>10. ASSUME NEW s \in Store PROVE QueueOK(s)'
  <2>1. QueueOK(s) BY DEF IInv
  <2>2. \A t \in Transfer : transfer[t].pc = "asked" /\ Home(t) = s => transfer'[t].pc = "asked" /\ Home(t)' = s
    BY DEF Home
  <2> QED BY <1>1, <1>3, <1>4, <1>5, <2>1, <2>2, QueueKept
<1> QED BY <1>4, <1>8, <1>9, <1>10 DEF IInv

\* The cache is cleared, or could not be.
LEMMA ClearsCache ==
  ASSUME IInv, ClearCache
  PROVE  IInv'
<1>1. Shape /\ CacheOK /\ jobs # <<>> BY DEF IInv, ClearCache
<1>2. Now = jobs[1] /\ 1 \in DOMAIN jobs /\ jobs[1] \in Cleanup BY <1>1, HeadJob
<1>3. jobs[1].started BY <1>2 DEF ClearCache
<1>4. PICK failed \in BOOLEAN :
        /\ NowIs([jobs[1] EXCEPT !.cache = "done", !.failed = failed])
        /\ files' = <<>> \/ (failed /\ files' = files)
  <2>1. PICK f : f = jobs[1].failed OBVIOUS
  <2>2. f \in BOOLEAN BY <1>2, <2>1 DEF Cleanup
  <2>3. [jobs[1] EXCEPT !.cache = "done"] = [jobs[1] EXCEPT !.cache = "done", !.failed = f]
    BY <1>2, <2>1 DEF Cleanup
  <2>4. CASE files' = <<>> /\ NowIs([Now EXCEPT !.cache = "done"])
    <3>1. NowIs([jobs[1] EXCEPT !.cache = "done", !.failed = f]) BY <1>2, <2>3, <2>4
    <3> QED BY <2>2, <2>4, <3>1
  <2>5. CASE UNCHANGED files /\ NowIs([Now EXCEPT !.cache = "done", !.failed = TRUE])
    BY <1>2, <2>5
  <2> QED BY <2>4, <2>5 DEF ClearCache
<1>5. PICK j : j = [jobs[1] EXCEPT !.cache = "done", !.failed = failed] OBVIOUS
<1>6. NowIs(j) /\ j \in Cleanup /\ j.drain = jobs[1].drain /\ j.purge = jobs[1].purge /\ j.bare = jobs[1].bare
  /\ j.cache = "done" /\ j.started = jobs[1].started /\ j.failed = failed
  BY <1>2, <1>4, <1>5 DEF Cleanup
<1>7. UNCHANGED <<session, stores, queue, disk, made, broken, missed, line, transfer>>
  BY DEF ClearCache, records
<1>8. UNCHANGED <<gen, gone, user>> BY <1>7 DEF session
<1>9. files' \in Seq(File)
  <2>1. files \in Seq(File) BY <1>1 DEF Shape
  <2>2. <<>> \in Seq(File) OBVIOUS
  <2> QED BY <1>4, <2>1, <2>2
<1>10. disk' \in [User -> Gen \union {None, Old}] BY <1>1, <1>7 DEF Shape
<1>11. /\ jobs' \in Seq(Cleanup) /\ Len(jobs') = Len(jobs) /\ jobs' # <<>> /\ DOMAIN jobs' = DOMAIN jobs
      /\ jobs'[1] = j /\ \A i \in DOMAIN jobs : i # 1 => jobs'[i] = jobs[i]
  BY <1>1, <1>4, <1>6, HeadBecomes
<1>12. Shape' BY <1>1, <1>7, <1>8, <1>9, <1>11 DEF Shape
<1>13. SamePlans BY <1>6, <1>11 DEF SamePlans
<1>14. ASSUME NEW u \in User PROVE RecordOK(u)'
  <2>1. RecordOK(u) BY DEF IInv
  <2>2. \A i \in DOMAIN jobs : jobs'[i].bare = jobs[i].bare BY <1>6, <1>11
  <2>3. \A s \in Store : HasPurge(s) => HasPurge(s)' BY <1>7 DEF HasPurge
  <2>4. Pending(u) => Pending(u)' BY <1>1, <1>12, <1>13, <2>2, <2>3, PendingKept
  <2> QED BY <1>7, <1>8, <2>1, <2>4, RecordKept
<1>15. CacheOK'
  <2>1. \A i, k \in DOMAIN line : line[i] = line[k] => i = k BY <1>1 DEF CacheOK
  <2>2. \A i \in DOMAIN line :
          transfer[line[i]].kind # "submit" /\ transfer[line[i]].pc \in {"gate", "stream", "create", "fill"}
    BY <1>1 DEF CacheOK
  <2>3. \A t \in Transfer : transfer[t].pc \in {"stream", "create", "fill"} => First(t)' BY <1>1, <1>7 DEF CacheOK, First
  <2>4. CASE files' = <<>>
    <3>1. Len(files') = 0 /\ DOMAIN files' = {} BY <2>4
    <3>2. MaxFiles \in Nat \ {0} BY CleanupAssumption
    <3>3. Len(files') <= MaxFiles /\ Len(files') < MaxFiles BY <3>1, <3>2
    <3> QED BY <1>7, <2>1, <2>2, <2>3, <3>1, <3>3 DEF CacheOK
  <2>5. CASE failed /\ files' = files
    <3>1. Excused => Excused'
      <4> SUFFICES ASSUME Excused PROVE Excused' OBVIOUS
      <4>1. jobs[Len(jobs)].cache = "todo" \/ jobs[Len(jobs)].failed BY <1>1 DEF Excused
      <4>2. Len(jobs) \in DOMAIN jobs BY <1>1 DEF Shape
      <4>3. jobs'[Len(jobs)].cache = "todo" \/ jobs'[Len(jobs)].failed BY <1>6, <1>11, <2>5, <4>1, <4>2
      <4> QED BY <1>11, <4>3 DEF Excused
    <3>2. Len(files) <= MaxFiles /\ (\A t \in Transfer : transfer[t].pc = "create" => Len(files) < MaxFiles)
      /\ \A i \in DOMAIN files : files[i].gen # gen => Excused
      BY <1>1 DEF CacheOK
    <3> QED BY <1>7, <1>8, <2>1, <2>2, <2>3, <2>5, <3>1, <3>2 DEF CacheOK
  <2> QED BY <1>4, <2>4, <2>5
<1> QED BY <1>1, <1>3, <1>4, <1>6, <1>7, <1>9, <1>10, <1>14, <1>15, CleanupStep

\* The record of an account without a store is erased, or could not be.
LEMMA ClearsBare ==
  ASSUME IInv, ClearBare
  PROVE  IInv'
<1>1. Shape /\ CacheOK /\ jobs # <<>> BY DEF IInv, ClearBare
<1>2. Now = jobs[1] /\ 1 \in DOMAIN jobs /\ jobs[1] \in Cleanup BY <1>1, HeadJob
<1>3. jobs[1].started BY <1>2 DEF ClearBare
<1> DEFINE bare == jobs[1].bare
<1>4. PICK failed \in BOOLEAN :
        /\ NowIs([jobs[1] EXCEPT !.bare = {}, !.failed = failed])
        /\ jobs[1].failed => failed
        /\ \/ disk' = [u \in User |-> IF u \in bare THEN None ELSE disk[u]] /\ missed' = missed \ bare
           \/ disk' = disk /\ missed' = missed \union bare
  <2>1. PICK f : f = jobs[1].failed OBVIOUS
  <2>2. f \in BOOLEAN BY <1>2, <2>1 DEF Cleanup
  <2>3. [jobs[1] EXCEPT !.bare = {}] = [jobs[1] EXCEPT !.bare = {}, !.failed = f]
    BY <1>2, <2>1 DEF Cleanup
  <2>4. CASE /\ disk' = [u \in User |-> IF u \in Now.bare THEN None ELSE disk[u]]
             /\ NowIs([Now EXCEPT !.bare = {}])
             /\ missed' = missed \ Now.bare
    <3>1. NowIs([jobs[1] EXCEPT !.bare = {}, !.failed = f]) BY <1>2, <2>3, <2>4
    <3> QED BY <1>2, <2>1, <2>2, <2>4, <3>1
  <2>5. CASE /\ UNCHANGED disk /\ NowIs([Now EXCEPT !.bare = {}, !.failed = TRUE])
             /\ missed' = missed \union Now.bare
    BY <1>2, <2>5
  <2> QED BY <2>4, <2>5 DEF ClearBare
<1>5. PICK j : j = [jobs[1] EXCEPT !.bare = {}, !.failed = failed] OBVIOUS
<1>6. NowIs(j) /\ j \in Cleanup /\ j.drain = jobs[1].drain /\ j.purge = jobs[1].purge /\ j.bare = {}
  /\ j.cache = jobs[1].cache /\ j.started = jobs[1].started /\ j.failed = failed
  BY <1>2, <1>4, <1>5 DEF Cleanup
<1>7. UNCHANGED <<session, stores, queue, made, broken, files, line, transfer>> BY DEF ClearBare, cache
<1>8. UNCHANGED <<gen, gone, user>> BY <1>7 DEF session
<1>9. files' \in Seq(File) BY <1>1, <1>7 DEF Shape
<1>10. disk' \in [User -> Gen \union {None, Old}] BY <1>1, <1>4 DEF Shape
<1>11. /\ jobs' \in Seq(Cleanup) /\ Len(jobs') = Len(jobs) /\ jobs' # <<>> /\ DOMAIN jobs' = DOMAIN jobs
      /\ jobs'[1] = j /\ \A i \in DOMAIN jobs : i # 1 => jobs'[i] = jobs[i]
  BY <1>1, <1>4, <1>6, HeadBecomes
<1>12. Shape' BY <1>1, <1>7, <1>8, <1>10, <1>11 DEF Shape
<1>13. ASSUME NEW u \in User PROVE RecordOK(u)'
  <2>1. RecordOK(u) BY DEF IInv
  <2>2. CASE u \in bare
    <3>1. CASE disk' = disk /\ missed' = missed \union bare
      <4>1. stores' = stores BY <1>7
      <4> QED BY <1>8, <2>1, <2>2, <3>1, <4>1 DEF RecordOK
    <3>2. CASE disk' = [v \in User |-> IF v \in bare THEN None ELSE disk[v]]
      <4>1. disk'[u] = None BY <2>2, <3>2
      <4>2. None \notin Gen /\ gen \in Gen BY <1>1, CleanupAssumption DEF Shape
      <4> QED BY <1>8, <4>1, <4>2 DEF RecordOK
    <3> QED BY <1>4, <3>1, <3>2
  <2>3. CASE u \notin bare
    <3>1. disk'[u] = disk[u] /\ (u \in missed => u \in missed') BY <1>4, <2>3
    <3>2. \A s : HasPurge(s)' <=> HasPurge(s) BY <1>7 DEF HasPurge
    <3>3. Pending(u) => Pending(u)'
      <4> SUFFICES ASSUME Pending(u) PROVE Pending(u)' OBVIOUS
      <4>1. PICK i \in DOMAIN jobs :
              u \in jobs[i].bare \/ \E r \in jobs[i].purge : r[1] = u /\ (jobs[i].started => HasPurge(r))
        BY DEF Pending
      <4>2. jobs'[i].purge = jobs[i].purge /\ jobs'[i].started = jobs[i].started /\ i \in DOMAIN jobs'
        BY <1>6, <1>11, <4>1
      <4>3. u \in jobs[i].bare => u \in jobs'[i].bare BY <1>11, <2>3, <4>1
      <4> QED BY <3>2, <4>1, <4>2, <4>3 DEF Pending
    <3> QED BY <1>7, <1>8, <2>1, <3>1, <3>3, RecordKept
  <2> QED BY <2>2, <2>3
<1>14. CacheOK'
  <2>1. \A i \in DOMAIN jobs : jobs[i].cache = "todo" \/ jobs[i].failed => jobs'[i].cache = "todo" \/ jobs'[i].failed
    BY <1>4, <1>6, <1>11
  <2> QED BY <1>1, <1>7, <1>8, <1>11, <1>12, <2>1, CacheKept
<1> QED BY <1>1, <1>3, <1>4, <1>6, <1>7, <1>9, <1>10, <1>13, <1>14, CleanupStep

\* The queue a is q with a purge behind it, and perhaps voided.
Behind(q, a) ==
  /\ a \in Seq(Operation) /\ Len(a) = Len(q) + 1 /\ Len(q) \in Nat
  /\ DOMAIN a = 1..(Len(q) + 1) /\ DOMAIN q = 1..Len(q)
  /\ \A i \in DOMAIN q : a[i].kind = q[i].kind /\ a[i].gate = q[i].gate /\ a[i].by = q[i].by /\ a[i].pc = q[i].pc
  /\ a[Len(q) + 1].kind = "purge" /\ a[Len(q) + 1].by = None /\ a[Len(q) + 1].pc = "queued"

\* Behind a voided queue, the purge changes nothing of what was in it.
LEMMA PurgedQueue ==
  ASSUME NEW s \in Store, NEW q \in Seq(Operation)
  PROVE  Behind(q, Append(Voided(q), Purge(s)))
<1>0. PICK a : a = Append(Voided(q), Purge(s)) OBVIOUS
<1>1. /\ Voided(q) \in Seq(Operation) /\ Len(Voided(q)) = Len(q) /\ DOMAIN Voided(q) = DOMAIN q
      /\ \A i \in DOMAIN q : /\ Voided(q)[i].kind = q[i].kind /\ Voided(q)[i].gate = q[i].gate
                             /\ Voided(q)[i].by = q[i].by /\ Voided(q)[i].pc = q[i].pc
  BY VoidedQueue
<1>2. PICK p : p = Purge(s) OBVIOUS
<1>3. p \in Operation /\ p.kind = "purge" /\ p.by = None /\ p.pc = "queued"
  <2>1. s[2] \in Gen BY DEF Store
  <2> QED BY <1>2, <2>1 DEF Purge, Operation
<1>4. PICK v : v = Voided(q) OBVIOUS
<1>5. v \in Seq(Operation) /\ Len(v) = Len(q) /\ Len(q) \in Nat /\ DOMAIN q = 1..Len(q) /\ DOMAIN v = 1..Len(v)
  BY <1>1, <1>4
<1>6. a = Append(v, p) BY <1>0, <1>2, <1>4
<1>7. /\ a \in Seq(Operation) /\ Len(a) = Len(v) + 1 /\ a[Len(v) + 1] = p
      /\ \A i \in 1..Len(v) : a[i] = v[i]
  BY <1>3, <1>5, <1>6
<1>8. DOMAIN a = 1..(Len(q) + 1) BY <1>5, <1>7
<1>9. \A i \in DOMAIN q : a[i] = Voided(q)[i] BY <1>4, <1>5, <1>7
<1>10. Behind(q, a) BY <1>1, <1>3, <1>5, <1>7, <1>8, <1>9 DEF Behind
<1> QED BY <1>0, <1>10

\* A cleanup starts.
LEMMA StartsJob ==
  ASSUME IInv, StartJob
  PROVE  IInv'
<1>1. Shape /\ ChainOK /\ CacheOK /\ jobs # <<>> BY DEF IInv, StartJob
<1>2. Now = jobs[1] /\ 1 \in DOMAIN jobs /\ jobs[1] \in Cleanup BY <1>1, HeadJob
<1>3. ~jobs[1].started /\ jobs[1].drain \intersect Tracked = {} BY <1>2 DEF StartJob
<1>4. PICK j : j = [jobs[1] EXCEPT !.started = TRUE] OBVIOUS
<1>5. j \in Cleanup /\ j.drain = jobs[1].drain /\ j.purge = jobs[1].purge /\ j.bare = jobs[1].bare
  /\ j.cache = jobs[1].cache /\ j.started = TRUE /\ j.failed = jobs[1].failed
  BY <1>2, <1>4 DEF Cleanup
<1>6. NowIs(j) BY <1>2, <1>4 DEF StartJob
<1>7. /\ jobs' \in Seq(Cleanup) /\ Len(jobs') = Len(jobs) /\ jobs' # <<>> /\ DOMAIN jobs' = DOMAIN jobs
      /\ jobs'[1] = j /\ \A i \in DOMAIN jobs : i # 1 => jobs'[i] = jobs[i]
  BY <1>1, <1>5, <1>6, HeadBecomes
<1>8. UNCHANGED <<gen, user, gone, stores, disk, made, broken, missed, files, line, transfer>>
  BY DEF StartJob, session, cache
<1>9. queue' = [s \in Store |-> IF s \in jobs[1].purge THEN Append(Voided(queue[s]), Purge(s)) ELSE queue[s]]
  BY <1>2 DEF StartJob
<1>10. \A s \in Store : queue[s] \in Seq(Operation) BY <1>1 DEF Shape
<1>11. ASSUME NEW s \in Store, s \in jobs[1].purge
       PROVE  /\ queue'[s] \in Seq(Operation) /\ Len(queue'[s]) = Len(queue[s]) + 1 /\ Len(queue[s]) \in Nat
              /\ DOMAIN queue'[s] = 1..(Len(queue[s]) + 1) /\ DOMAIN queue[s] = 1..Len(queue[s])
              /\ \A i \in DOMAIN queue[s] :
                   /\ queue'[s][i].kind = queue[s][i].kind /\ queue'[s][i].gate = queue[s][i].gate
                   /\ queue'[s][i].by = queue[s][i].by /\ queue'[s][i].pc = queue[s][i].pc
              /\ queue'[s][Len(queue[s]) + 1].kind = "purge" /\ queue'[s][Len(queue[s]) + 1].by = None
              /\ queue'[s][Len(queue[s]) + 1].pc = "queued"
  <2>1. PICK q : q = queue[s] OBVIOUS
  <2>2. PICK a : a = queue'[s] OBVIOUS
  <2>3. q \in Seq(Operation) BY <1>10, <2>1
  <2>4. a = Append(Voided(q), Purge(s)) BY <1>9, <1>11, <2>1, <2>2
  <2>5. Behind(q, a) BY <2>3, <2>4, PurgedQueue
  <2> QED BY <2>1, <2>2, <2>5 DEF Behind
<1>12. \A s \in Store : s \notin jobs[1].purge => queue'[s] = queue[s] BY <1>9
<1>13. queue' \in [Store -> Seq(Operation)]
  <2>1. \A s \in Store : queue'[s] \in Seq(Operation) BY <1>10, <1>11, <1>12
  <2> QED BY <1>9, <2>1
<1>14. Shape' BY <1>1, <1>7, <1>8, <1>13 DEF Shape
<1>15. \A i \in DOMAIN jobs : jobs'[i].drain = jobs[i].drain /\ jobs'[i].purge = jobs[i].purge
         /\ jobs'[i].bare = jobs[i].bare /\ jobs'[i].cache = jobs[i].cache /\ jobs'[i].failed = jobs[i].failed
         /\ (i # 1 => jobs'[i].started = jobs[i].started)
  BY <1>5, <1>7
<1>16. \A t \in Transfer : transfer'[t] = transfer[t] BY <1>8
<1>17. Tracked' = Tracked BY <1>8 DEF Tracked
<1>18. ChainOK'
  <2>1. ASSUME NEW i \in DOMAIN jobs
        PROVE  /\ jobs'[i].started => i = 1 /\ jobs'[i].drain \intersect Tracked = {}
               /\ ~jobs'[i].started => jobs'[i].cache = "todo"
               /\ \A t \in jobs'[i].drain : transfer[t].pc # "idle"
               /\ \A s \in jobs'[i].purge : s[2] < gen
    <3>1. /\ jobs[i].started => i = 1 /\ jobs[i].drain \intersect Tracked = {}
          /\ ~jobs[i].started => jobs[i].cache = "todo"
          /\ \A t \in jobs[i].drain : transfer[t].pc # "idle"
          /\ \A s \in jobs[i].purge : s[2] < gen
      BY <1>1 DEF ChainOK
    <3>2. i = 1 => jobs'[i].started BY <1>5, <1>7
    <3> QED BY <1>3, <1>15, <3>1, <3>2
  <2>2. \A i, k \in DOMAIN jobs : i # k => jobs'[i].purge \intersect jobs'[k].purge = {}
    BY <1>1, <1>15 DEF ChainOK
  <2> QED BY <1>7, <1>8, <1>17, <2>1, <2>2 DEF ChainOK
<1>19. ASSUME NEW t \in Tracked' PROVE Running(t)'
  <2>1. t \in Tracked /\ Running(t) BY <1>17 DEF IInv
  <2>2. Drained(t) => Drained(t)'
    <3>1. Len(jobs) \in DOMAIN jobs BY <1>1 DEF Shape
    <3> QED BY <1>7, <1>15, <3>1 DEF Drained
  <2>3. Followed(t) => Followed(t)' BY <1>7, <1>8, <1>15 DEF Followed, Home
  <2>4. jobs = <<>> <=> jobs' = <<>> BY <1>1, <1>7
  <2> QED BY <1>8, <2>1, <2>2, <2>3, <2>4 DEF Running
<1>20. \A s \in Store : ~HasPurge(s)
  <2> SUFFICES ASSUME NEW s \in Store, HasPurge(s) PROVE FALSE OBVIOUS
  <2> QED BY <1>3, NoPurge
<1>21. ASSUME NEW s \in Store PROVE QueueOK(s)'
  <2>1. QueueOK(s) BY DEF IInv
  <2>2. ASSUME NEW i \in DOMAIN queue[s]
        PROVE  /\ queue[s][i].pc # "queued" => i = 1 /\ queue[s][i].kind = "write"
               /\ queue[s][i].kind = "write" => queue[s][i].gate = s[2] + 1
               /\ queue[s][i].pc # "queued" => s[2] # gen
               /\ queue[s][i].by # None => transfer'[queue[s][i].by].pc = "asked"
                    /\ <<transfer'[queue[s][i].by].user, transfer'[queue[s][i].by].gen>> = s
               /\ \A k \in DOMAIN queue[s] : queue[s][i].by # None /\ queue[s][k].by = queue[s][i].by => i = k
               /\ queue[s][i].kind # "purge"
    <3>1. OpOK(s, i) BY OpKnown
    <3>2. queue[s][i].kind # "purge" BY <1>20 DEF HasPurge
    <3>3. queue[s][i].by # None => transfer[queue[s][i].by].pc = "asked" /\ Home(queue[s][i].by) = s
      BY <3>1 DEF OpOK
    <3>4. queue[s][i].pc # "queued" => s[2] # gen BY <1>1, <3>1 DEF OpOK
    <3> QED BY <1>8, <3>1, <3>2, <3>3, <3>4 DEF OpOK, Home
  <2>3. ASSUME NEW i \in DOMAIN jobs, s \in jobs[i].purge PROVE s[2] < gen BY <1>1, <2>3 DEF ChainOK
  <2>4. CASE s \notin jobs[1].purge
    <3>1. queue'[s] = queue[s] BY <1>12, <2>4
    <3>2. ASSUME NEW i \in DOMAIN queue'[s] PROVE OpOK(s, i)'
      BY <1>8, <2>2, <3>1 DEF OpOK, Home
    <3>3. Purging(s) => Purging(s)'
      <4> SUFFICES ASSUME NEW i \in DOMAIN jobs, s \in jobs[i].purge, jobs[i].started => HasPurge(s)
          PROVE  Purging(s)'
        BY DEF Purging
      <4>1. i # 1 BY <2>4
      <4>2. s \in jobs'[i].purge /\ ~jobs'[i].started BY <1>15, <1>20, <4>1
      <4> QED BY <1>7, <4>2 DEF Purging
    <3> QED BY <1>8, <2>1, <3>1, <3>2, <3>3 DEF QueueOK
  <2>5. CASE s \in jobs[1].purge
    <3>1. s[2] < gen /\ s[2] # gen
      <4>1. s[2] \in Gen /\ gen \in Gen BY <1>1 DEF Shape, Store
      <4>2. s[2] < gen BY <1>2, <2>3, <2>5
      <4> QED BY <4>1, <4>2 DEF Gen
    <3>2. Len(queue[s]) + 1 \in DOMAIN queue'[s] /\ HasPurge(s)' BY <1>11, <2>5 DEF HasPurge
    <3>3. Purging(s)' BY <1>2, <1>7, <1>15, <2>5, <3>2 DEF Purging
    <3>4. ASSUME NEW i \in DOMAIN queue'[s] PROVE OpOK(s, i)'
      <4>1. CASE i \in DOMAIN queue[s]
        <5>1. queue'[s][i].kind = queue[s][i].kind /\ queue'[s][i].gate = queue[s][i].gate
          /\ queue'[s][i].by = queue[s][i].by /\ queue'[s][i].pc = queue[s][i].pc
          BY <1>11, <2>5, <4>1
        <5>2. ASSUME NEW k \in DOMAIN queue'[s], queue[s][i].by # None, queue'[s][k].by = queue[s][i].by
              PROVE  i = k
          <6>1. k \in DOMAIN queue[s] BY <1>11, <2>5, <5>2
          <6>2. queue[s][k].by = queue[s][i].by BY <1>11, <2>5, <5>2, <6>1
          <6> QED BY <2>2, <4>1, <5>2, <6>1, <6>2
        <5> QED BY <1>8, <2>2, <3>1, <4>1, <5>1, <5>2 DEF OpOK, Home
      <4>2. CASE i \notin DOMAIN queue[s]
        <5>1. i = Len(queue'[s]) BY <1>11, <2>5, <4>2
        <5>2. i = Len(queue[s]) + 1 BY <1>11, <2>5, <4>2
        <5>3. queue'[s][i].kind = "purge" /\ queue'[s][i].by = None /\ queue'[s][i].pc = "queued"
          BY <1>11, <2>5, <5>2
        <5>4. jobs' # <<>> /\ jobs'[1].started /\ s \in jobs'[1].purge BY <1>5, <1>7, <2>5
        <5> QED BY <5>1, <5>3, <5>4 DEF OpOK
      <4> QED BY <4>1, <4>2
    <3> QED BY <1>8, <3>1, <3>3, <3>4 DEF QueueOK
  <2> QED BY <2>4, <2>5
<1>22. ASSUME NEW u \in User PROVE RecordOK(u)'
  <2>1. RecordOK(u) BY DEF IInv
  <2>2. Pending(u) => Pending(u)'
    <3> SUFFICES ASSUME NEW i \in DOMAIN jobs,
            u \in jobs[i].bare \/ \E s \in jobs[i].purge : s[1] = u /\ (jobs[i].started => HasPurge(s))
        PROVE  Pending(u)'
      BY DEF Pending
    <3>1. CASE u \in jobs[i].bare BY <1>7, <1>15, <3>1 DEF Pending
    <3>2. CASE \E s \in jobs[i].purge : s[1] = u /\ (jobs[i].started => HasPurge(s))
      <4>1. PICK s \in jobs[i].purge : s[1] = u /\ (jobs[i].started => HasPurge(s)) BY <3>2
      <4>2. s \in Store BY <1>1, <4>1, JobType
      <4>3. jobs'[i].started => HasPurge(s)'
        <5>1. CASE i = 1
          <6>1. s \in jobs[1].purge BY <4>1, <5>1
          <6>2. Len(queue[s]) + 1 \in DOMAIN queue'[s] BY <1>11, <4>2, <6>1
          <6> QED BY <1>11, <4>2, <6>1, <6>2 DEF HasPurge
        <5>2. CASE i # 1 BY <1>15, <1>20, <4>1, <4>2, <5>2
        <5> QED BY <5>1, <5>2
      <4> QED BY <1>7, <1>15, <4>1, <4>3 DEF Pending
    <3> QED BY <3>1, <3>2
  <2> QED BY <1>8, <2>1, <2>2, RecordKept
<1>23. CacheOK'
  <2>1. \A i \in DOMAIN jobs : jobs[i].cache = "todo" \/ jobs[i].failed => jobs'[i].cache = "todo" \/ jobs'[i].failed
    BY <1>15
  <2> QED BY <1>1, <1>7, <1>8, <1>14, <2>1, CacheKept
<1> QED BY <1>14, <1>18, <1>19, <1>21, <1>22, <1>23 DEF IInv

\* A cleanup ends.
LEMMA EndsJob ==
  ASSUME IInv, EndJob
  PROVE  IInv'
<1>1. Shape /\ ChainOK /\ CacheOK /\ jobs # <<>> BY DEF IInv, EndJob
<1>2. Now = jobs[1] /\ 1 \in DOMAIN jobs /\ jobs[1] \in Cleanup BY <1>1, HeadJob
<1>3. jobs[1].started /\ jobs[1].cache = "done" /\ jobs[1].bare = {} BY <1>2 DEF EndJob
<1>4. \A s \in Store : ~HasPurge(s)
  <2> SUFFICES ASSUME NEW s \in Store, HasPurge(s) PROVE FALSE OBVIOUS
  <2>1. s \in jobs[1].purge BY NoPurge
  <2> QED BY <1>2, <2>1 DEF EndJob, HasPurge
<1>5. UNCHANGED <<gen, user, gone, stores, queue, disk, made, missed, files, line, transfer>>
  BY DEF EndJob, session, records, cache
<1>6. broken' = jobs[1].failed BY <1>2 DEF EndJob
<1>7. /\ jobs' \in Seq(Cleanup) /\ Len(jobs') = Len(jobs) - 1 /\ Len(jobs) \in Nat
      /\ DOMAIN jobs' = 1..Len(jobs') /\ DOMAIN jobs = 1..Len(jobs)
      /\ \A i \in DOMAIN jobs' : i + 1 \in DOMAIN jobs /\ jobs'[i] = jobs[i + 1]
  <2>1. jobs \in Seq(Cleanup) /\ jobs' = Tail(jobs) BY <1>1 DEF Shape, EndJob
  <2> QED BY <1>1, <2>1
<1>8. \A i \in DOMAIN jobs : i # 1 => i - 1 \in DOMAIN jobs' /\ jobs'[i - 1] = jobs[i]
  <2> SUFFICES ASSUME NEW i \in DOMAIN jobs, i # 1 PROVE i - 1 \in DOMAIN jobs' /\ jobs'[i - 1] = jobs[i]
    OBVIOUS
  <2>1. PICK l \in Nat, m \in Int : l = Len(jobs) /\ m = Len(jobs') /\ m = l - 1 BY <1>7
  <2>2. i \in 1..l /\ i - 1 \in 1..m /\ (i - 1) + 1 = i BY <1>7, <2>1
  <2> QED BY <1>7, <2>1, <2>2
<1>9. Shape'
  <2>1. Len(jobs') <= made BY <1>1, <1>7 DEF Shape, Gen
  <2>2. broken' \in BOOLEAN BY <1>2, <1>6 DEF Cleanup
  <2> QED BY <1>1, <1>5, <1>7, <2>1, <2>2 DEF Shape
<1>10. \A i \in DOMAIN jobs : i # 1 => ~jobs[i].started BY <1>1 DEF ChainOK
<1>11. \A i \in DOMAIN jobs' : i + 1 # 1 BY <1>7
<1>12. Tracked' = Tracked BY <1>5 DEF Tracked
<1>13. ChainOK'
  <2>1. ASSUME NEW i \in DOMAIN jobs'
        PROVE  /\ ~jobs'[i].started
               /\ ~jobs'[i].started => jobs'[i].cache = "todo"
               /\ \A t \in jobs'[i].drain : transfer'[t].pc # "idle"
               /\ \A s \in jobs'[i].purge : s[2] < gen'
    BY <1>1, <1>5, <1>7, <1>10, <1>11 DEF ChainOK
  <2>2. ASSUME NEW i \in DOMAIN jobs', NEW k \in DOMAIN jobs', i # k
        PROVE  jobs'[i].purge \intersect jobs'[k].purge = {}
    <3>1. i + 1 # k + 1 BY <1>7, <2>2
    <3> QED BY <1>1, <1>7, <3>1 DEF ChainOK
  <2> QED BY <2>1, <2>2 DEF ChainOK
<1>14. \A i \in DOMAIN jobs, t \in Tracked : t \in jobs[i].drain => i # 1 BY <1>1, <1>3 DEF ChainOK
<1>15. ASSUME NEW t \in Tracked' PROVE Running(t)'
  <2>1. t \in Tracked /\ Running(t) BY <1>12 DEF IInv
  <2>2. Drained(t) => Drained(t)'
    <3> SUFFICES ASSUME Drained(t) PROVE Drained(t)' OBVIOUS
    <3>1. Len(jobs) \in DOMAIN jobs /\ t \in jobs[Len(jobs)].drain BY <1>1 DEF Drained, Shape
    <3>2. Len(jobs) # 1 BY <1>14, <2>1, <3>1
    <3>3. Len(jobs') \in DOMAIN jobs' /\ jobs'[Len(jobs')] = jobs[Len(jobs)] BY <1>7, <1>8, <3>1, <3>2
    <3>4. jobs' # <<>> BY <3>3
    <3> QED BY <3>1, <3>3, <3>4 DEF Drained
  <2>3. Followed(t) => Followed(t)'
    <3> SUFFICES ASSUME NEW i \in DOMAIN jobs, Home(t) \in jobs[i].purge, t \in jobs[i].drain
        PROVE  Followed(t)'
      BY DEF Followed
    <3>1. i # 1 BY <1>14, <2>1
    <3>2. i - 1 \in DOMAIN jobs' /\ jobs'[i - 1] = jobs[i] BY <1>8, <3>1
    <3> QED BY <1>5, <3>2 DEF Followed, Home
  <2> QED BY <1>1, <1>5, <2>1, <2>2, <2>3 DEF Running
<1>16. ASSUME NEW s \in Store PROVE QueueOK(s)'
  <2>1. QueueOK(s) BY DEF IInv
  <2>2. ASSUME NEW i \in DOMAIN queue[s] PROVE OpOK(s, i)'
    <3>1. OpOK(s, i) BY OpKnown
    <3>2. queue[s][i].kind # "purge" BY <1>4 DEF HasPurge
    <3>3. queue[s][i].by # None => transfer[queue[s][i].by].pc = "asked" /\ Home(queue[s][i].by) = s
      BY <3>1 DEF OpOK
    <3>4. queue[s][i].pc # "queued" => s[2] # gen BY <1>1, <3>1 DEF OpOK
    <3> QED BY <1>5, <3>1, <3>2, <3>3, <3>4 DEF OpOK, Home
  <2>3. Purging(s) => Purging(s)'
    <3> SUFFICES ASSUME NEW i \in DOMAIN jobs, s \in jobs[i].purge, jobs[i].started => HasPurge(s)
        PROVE  Purging(s)'
      BY DEF Purging
    <3>1. i # 1 BY <1>3, <1>4
    <3>2. i - 1 \in DOMAIN jobs' /\ jobs'[i - 1] = jobs[i] BY <1>8, <3>1
    <3>3. ~jobs[i].started BY <1>10, <3>1
    <3> QED BY <3>2, <3>3 DEF Purging
  <2> QED BY <1>5, <2>1, <2>2, <2>3 DEF QueueOK
<1>17. ASSUME NEW u \in User PROVE RecordOK(u)'
  <2>1. RecordOK(u) BY DEF IInv
  <2>2. Pending(u) => Pending(u)'
    <3> SUFFICES ASSUME NEW i \in DOMAIN jobs,
            u \in jobs[i].bare \/ \E s \in jobs[i].purge : s[1] = u /\ (jobs[i].started => HasPurge(s))
        PROVE  Pending(u)'
      BY DEF Pending
    <3>1. i # 1
      <4> SUFFICES ASSUME i = 1 PROVE FALSE OBVIOUS
      <4>1. PICK s \in jobs[1].purge : HasPurge(s) BY <1>3
      <4>2. s \in Store BY <1>1, <1>2, <4>1, JobType
      <4> QED BY <1>4, <4>1, <4>2
    <3>2. i - 1 \in DOMAIN jobs' /\ jobs'[i - 1] = jobs[i] BY <1>8, <3>1
    <3>3. ~jobs[i].started BY <1>10, <3>1
    <3> QED BY <3>2, <3>3 DEF Pending
  <2> QED BY <1>5, <2>1, <2>2, RecordKept
<1>18. CacheOK'
  <2>1. Excused => Excused'
    <3> SUFFICES ASSUME Excused PROVE Excused' OBVIOUS
    <3>1. jobs[Len(jobs)].cache = "todo" \/ jobs[Len(jobs)].failed BY <1>1 DEF Excused
    <3>2. CASE Len(jobs) = 1
      <4>1. jobs' = <<>>
        <5>1. jobs' \in Seq(Cleanup) /\ Len(jobs') = 0 BY <1>7, <3>2
        <5> QED BY <5>1, EmptySeq
      <4> QED BY <1>3, <1>6, <3>1, <3>2, <4>1 DEF Excused
    <3>3. CASE Len(jobs) # 1
      <4>1. Len(jobs) \in DOMAIN jobs BY <1>2, <1>7
      <4>2. Len(jobs') \in DOMAIN jobs' /\ jobs'[Len(jobs')] = jobs[Len(jobs)] BY <1>7, <1>8, <3>3, <4>1
      <4>3. jobs' # <<>> BY <4>2
      <4> QED BY <3>1, <4>2, <4>3 DEF Excused
    <3> QED BY <3>2, <3>3
  <2>2. Len(files) <= MaxFiles /\ (\A t \in Transfer : transfer[t].pc = "create" => Len(files) < MaxFiles)
    /\ \A i \in DOMAIN files : files[i].gen # gen => Excused
    BY <1>1 DEF CacheOK
  <2>3. \A i, k \in DOMAIN line : line[i] = line[k] => i = k BY <1>1 DEF CacheOK
  <2>4. \A i \in DOMAIN line :
          transfer[line[i]].kind # "submit" /\ transfer[line[i]].pc \in {"gate", "stream", "create", "fill"}
    BY <1>1 DEF CacheOK
  <2>5. \A t \in Transfer : transfer[t].pc \in {"stream", "create", "fill"} => First(t)' BY <1>1, <1>5 DEF CacheOK, First
  <2> QED BY <1>5, <2>1, <2>2, <2>3, <2>4, <2>5 DEF CacheOK
<1> QED BY <1>9, <1>13, <1>15, <1>16, <1>17, <1>18 DEF IInv

-----------------------------------------------------------------------------
(* The account leaves.                                                     *)

\* An account leaves.
LEMMA Departs ==
  ASSUME IInv, Depart
  PROVE  IInv'
<1>1. Shape /\ ChainOK /\ CacheOK BY DEF IInv
<1>2. gen \in Gen /\ gen' = gen + 1 /\ gen' \in Gen /\ gen \in Nat
  BY <1>1, CleanupAssumption DEF Shape, Depart, Gen
<1>3. UNCHANGED <<disk, broken, missed, files, line>> /\ stores' = {} /\ user' = None /\ made' = made + 1
  BY DEF Depart, cache
<1>4. gone' = IF user = None THEN gone ELSE gone \union {user} BY DEF Depart
<1>5. PICK j : j = [Job EXCEPT !.drain = Draining, !.purge = Held, !.bare = {user} \ (stores \union {None})]
  OBVIOUS
<1>6. Held \subseteq Store BY <1>1, <1>2 DEF Shape, Held, Store
<1>7. {user} \ (stores \union {None}) \subseteq User BY <1>1 DEF Shape
<1>8. j \in Cleanup /\ j.drain = Tracked /\ j.purge = Held /\ j.bare = {user} \ (stores \union {None})
  /\ j.cache = "todo" /\ j.started = FALSE /\ j.failed = FALSE
  <2>1. Draining = Tracked /\ Tracked \subseteq Transfer BY DEF Draining, Tracked
  <2> QED BY <1>5, <1>6, <1>7, <2>1 DEF Job, Cleanup
<1>9. PICK n : n = Len(jobs) OBVIOUS
<1>10. /\ jobs' \in Seq(Cleanup) /\ Len(jobs') = n + 1 /\ n \in Nat
       /\ DOMAIN jobs' = 1..(n + 1) /\ DOMAIN jobs = 1..n /\ jobs'[n + 1] = j
       /\ \A i \in DOMAIN jobs : i \in DOMAIN jobs' /\ jobs'[i] = jobs[i]
  <2>1. jobs \in Seq(Cleanup) /\ jobs' = Append(jobs, j) BY <1>1, <1>5 DEF Shape, Depart
  <2> QED BY <1>8, <1>9, <2>1
<1>11. jobs' # <<>> /\ n + 1 \in DOMAIN jobs' BY <1>10
<1>12. /\ transfer' \in [Transfer -> State]
       /\ \A t \in Transfer : /\ transfer'[t].kind = transfer[t].kind /\ transfer'[t].gen = transfer[t].gen
                              /\ transfer'[t].user = transfer[t].user /\ transfer'[t].pc = transfer[t].pc
                              /\ transfer'[t].gate = transfer[t].gate
  <2>1. ASSUME NEW t \in Transfer
        PROVE  LET c == IF t \in Tracked THEN [transfer[t] EXCEPT !.aborted = TRUE] ELSE transfer[t] IN
               c \in State /\ c.kind = transfer[t].kind /\ c.gen = transfer[t].gen
                 /\ c.user = transfer[t].user /\ c.pc = transfer[t].pc /\ c.gate = transfer[t].gate
    <3>1. transfer[t] \in State BY <1>1, StateType
    <3>2. PICK c : c = [transfer[t] EXCEPT !.aborted = TRUE] OBVIOUS
    <3>3. c \in State /\ c.kind = transfer[t].kind /\ c.gen = transfer[t].gen
            /\ c.user = transfer[t].user /\ c.pc = transfer[t].pc /\ c.gate = transfer[t].gate
      BY <3>1, <3>2 DEF State
    <3> QED BY <3>1, <3>2, <3>3
  <2>2. transfer' = [t \in Transfer |-> IF t \in Tracked THEN [transfer[t] EXCEPT !.aborted = TRUE]
                                        ELSE transfer[t]]
    BY DEF Depart
  <2> QED BY <2>1, <2>2
<1>13. Tracked' = Tracked BY <1>12 DEF Tracked
<1>14. queue' = [s \in Store |-> IF s \in Held THEN Voided(queue[s]) ELSE queue[s]] BY DEF Depart
<1>15. ASSUME NEW s \in Store
       PROVE  /\ queue'[s] \in Seq(Operation) /\ Len(queue'[s]) = Len(queue[s]) /\ DOMAIN queue'[s] = DOMAIN queue[s]
              /\ \A i \in DOMAIN queue[s] :
                   /\ queue'[s][i].kind = queue[s][i].kind /\ queue'[s][i].gate = queue[s][i].gate
                   /\ queue'[s][i].by = queue[s][i].by /\ queue'[s][i].pc = queue[s][i].pc
  <2>1. queue[s] \in Seq(Operation) BY <1>1 DEF Shape
  <2>2. CASE s \in Held
    <3>1. queue'[s] = Voided(queue[s]) BY <1>14, <2>2
    <3> QED BY <2>1, <3>1, VoidedQueue
  <2>3. CASE s \notin Held
    <3>1. queue'[s] = queue[s] BY <1>14, <2>3
    <3> QED BY <2>1, <3>1
  <2> QED BY <2>2, <2>3
<1>16. Shape'
  <2>1. queue' \in [Store -> Seq(Operation)] BY <1>14, <1>15
  <2>2. gone' \subseteq User /\ user' \in User \union {None} BY <1>1, <1>3, <1>4 DEF Shape
  <2>3. made' = gen' + 1 /\ Len(jobs') <= made' BY <1>1, <1>2, <1>3, <1>9, <1>10 DEF Shape
  <2> QED BY <1>1, <1>2, <1>3, <1>10, <1>12, <2>1, <2>2, <2>3 DEF Shape
<1>17. ASSUME NEW i \in DOMAIN jobs'
       PROVE  \/ i \in DOMAIN jobs /\ jobs'[i] = jobs[i]
              \/ i = n + 1 /\ i \notin DOMAIN jobs /\ jobs'[i] = j
  BY <1>10
<1>18. \A i \in DOMAIN jobs, s \in Store : s \in jobs[i].purge => s[2] < gen' /\ s \notin Held
  <2> SUFFICES ASSUME NEW i \in DOMAIN jobs, NEW s \in Store, s \in jobs[i].purge
      PROVE  s[2] < gen' /\ s \notin Held
    OBVIOUS
  <2>1. s[2] < gen BY <1>1 DEF ChainOK
  <2>2. s[2] \in Nat BY DEF Store, Gen
  <2> QED BY <1>2, <2>1, <2>2 DEF Held
<1>19. \A s \in Held : s[2] = gen /\ s[2] < gen' BY <1>2 DEF Held
<1>20. ChainOK'
  <2>1. ASSUME NEW i \in DOMAIN jobs'
        PROVE  /\ jobs'[i].started => i = 1 /\ jobs'[i].drain \intersect Tracked = {}
               /\ ~jobs'[i].started => jobs'[i].cache = "todo"
               /\ \A t \in jobs'[i].drain : transfer'[t].pc # "idle"
               /\ \A s \in jobs'[i].purge : s[2] < gen'
    <3>1. CASE i \in DOMAIN jobs /\ jobs'[i] = jobs[i]
      <4>1. jobs[i].drain \subseteq Transfer /\ jobs[i].purge \subseteq Store BY <1>1, <3>1, JobType
      <4> QED BY <1>1, <1>12, <1>18, <3>1, <4>1 DEF ChainOK
    <3>2. CASE jobs'[i] = j BY <1>8, <1>12, <1>19, <3>2 DEF Tracked
    <3> QED BY <1>17, <3>1, <3>2
  <2>2. ASSUME NEW i \in DOMAIN jobs', NEW k \in DOMAIN jobs', i # k
        PROVE  jobs'[i].purge \intersect jobs'[k].purge = {}
    <3>1. CASE i \in DOMAIN jobs /\ k \in DOMAIN jobs BY <1>1, <1>10, <2>2, <3>1 DEF ChainOK
    <3>2. CASE i \in DOMAIN jobs /\ k \notin DOMAIN jobs
      <4>1. jobs'[i] = jobs[i] /\ jobs'[k].purge = Held BY <1>8, <1>17, <3>2
      <4>2. jobs[i].purge \subseteq Store BY <1>1, <3>2, JobType
      <4> QED BY <1>18, <3>2, <4>1, <4>2
    <3>3. CASE i \notin DOMAIN jobs /\ k \in DOMAIN jobs
      <4>1. jobs'[k] = jobs[k] /\ jobs'[i].purge = Held BY <1>8, <1>17, <3>3
      <4>2. jobs[k].purge \subseteq Store BY <1>1, <3>3, JobType
      <4> QED BY <1>18, <3>3, <4>1, <4>2
    <3>4. CASE i \notin DOMAIN jobs /\ k \notin DOMAIN jobs BY <1>17, <2>2, <3>4
    <3> QED BY <3>1, <3>2, <3>3, <3>4
  <2> QED BY <1>13, <2>1, <2>2 DEF ChainOK
<1>21. ASSUME NEW t \in Tracked' PROVE Running(t)'
  <2>1. t \in Tracked /\ t \in Transfer /\ Running(t) BY <1>13 DEF IInv, Tracked
  <2>2. transfer[t] \in State BY <1>1, <2>1, StateType
  <2>3. transfer[t].gen <= gen' /\ transfer[t].gen < gen' /\ transfer[t].gen # gen'
    <3>1. transfer[t].gen \in Gen /\ transfer[t].gen <= gen BY <2>1, <2>2 DEF State, Running
    <3> QED BY <1>2, <3>1 DEF Gen
  <2>4. Drained(t)' BY <1>8, <1>10, <1>11, <2>1 DEF Drained
  <2>5. Home(t)' = Home(t) BY <1>12, <2>1 DEF Home
  <2>6. ASSUME transfer[t].kind = "submit" PROVE Followed(t)'
    <3>1. CASE transfer[t].gen = gen
      <4>1. transfer[t].user \in stores BY <2>1, <2>6, <3>1 DEF Running
      <4>2. Home(t) \in Held BY <3>1, <4>1 DEF Home, Held
      <4> QED BY <1>8, <1>10, <1>11, <2>1, <2>5, <4>2 DEF Followed
    <3>2. CASE transfer[t].gen # gen
      <4>1. Followed(t) BY <2>1, <2>6, <3>2 DEF Running
      <4> QED BY <1>10, <2>5, <4>1 DEF Followed
    <3> QED BY <3>1, <3>2
  <2> QED BY <1>12, <2>1, <2>3, <2>4, <2>6 DEF Running
<1>22. ASSUME NEW s \in Store, HasPurge(s) PROVE HasPurge(s)' BY <1>15, <1>22 DEF HasPurge
<1>23. ASSUME NEW s \in Held PROVE s \in jobs'[n + 1].purge /\ ~jobs'[n + 1].started BY <1>8, <1>10
<1>24. ASSUME NEW s \in Store PROVE QueueOK(s)'
  <2>1. QueueOK(s) BY DEF IInv
  <2>2. s[1] \in User /\ s[2] \in Gen /\ s = <<s[1], s[2]>> BY DEF Store
  <2>3. queue[s] # <<>> => s[2] < gen' /\ s[2] # gen'
    <3>1. queue[s] # <<>> => s[2] = gen \/ s[2] < gen BY <2>1 DEF QueueOK
    <3> QED BY <1>2, <2>2, <3>1 DEF Gen
  <2>4. queue[s] # <<>> => Purging(s)'
    <3>1. CASE s[2] = gen /\ s[1] \in stores
      <4>1. s \in Held BY <2>2, <3>1 DEF Held
      <4> QED BY <1>11, <1>23, <4>1 DEF Purging
    <3>2. CASE Purging(s)
      <4>1. PICK i \in DOMAIN jobs : s \in jobs[i].purge /\ (jobs[i].started => HasPurge(s)) BY <3>2 DEF Purging
      <4> QED BY <1>10, <1>22, <4>1 DEF Purging
    <3> QED BY <2>1, <3>1, <3>2 DEF QueueOK
  <2>5. ASSUME NEW i \in DOMAIN queue'[s] PROVE OpOK(s, i)'
    <3>1. i \in DOMAIN queue[s] BY <1>15
    <3>2. OpOK(s, i) BY <3>1, OpKnown
    <3>3. queue[s] # <<>> BY <3>1
    <3>4. queue'[s][i].kind = queue[s][i].kind /\ queue'[s][i].gate = queue[s][i].gate
          /\ queue'[s][i].by = queue[s][i].by /\ queue'[s][i].pc = queue[s][i].pc
      BY <1>15, <3>1
    <3> DEFINE op == queue[s][i]
    <3>5. /\ op.pc # "queued" => i = 1 /\ op.kind = "write"
          /\ op.kind = "write" => op.gate = s[2] + 1
          /\ op.by # None => transfer[op.by].pc = "asked" /\ Home(op.by) = s
          /\ \A k \in DOMAIN queue[s] : op.by # None /\ queue[s][k].by = op.by => i = k
          /\ op.kind = "purge" => i = Len(queue[s]) /\ jobs # <<>> /\ jobs[1].started /\ s \in jobs[1].purge
      BY <3>2 DEF OpOK
    <3>6. op.by # None => op.by \in Transfer BY <1>1, <3>1, OpType
    <3>7. op.by # None => transfer'[op.by].pc = "asked" /\ <<transfer'[op.by].user, transfer'[op.by].gen>> = s
      BY <1>12, <3>5, <3>6 DEF Home
    <3>8. op.kind = "purge" => i = Len(queue'[s]) /\ jobs' # <<>> /\ jobs'[1].started /\ s \in jobs'[1].purge
      <4>1. jobs # <<>> => 1 \in DOMAIN jobs BY <1>1, HeadJob
      <4> QED BY <1>10, <1>11, <1>15, <3>5, <4>1
    <3>9. \A k \in DOMAIN queue'[s] : op.by # None /\ queue'[s][k].by = op.by => i = k BY <1>15, <3>5
    <3> DEFINE new == queue'[s][i]
    <3>10. new.kind = op.kind /\ new.gate = op.gate /\ new.by = op.by /\ new.pc = op.pc BY <3>4
    <3>11. /\ new.pc # "queued" => i = 1 /\ new.kind = "write"
           /\ new.kind = "write" => new.gate = s[2] + 1
           /\ new.pc # "queued" /\ s[2] = gen' => jobs' = <<>>
      BY <2>3, <3>3, <3>5, <3>10
    <3>12. new.by # None => transfer'[new.by].pc = "asked" /\ <<transfer'[new.by].user, transfer'[new.by].gen>> = s
      BY <3>7, <3>10
    <3>13. \A k \in DOMAIN queue'[s] : new.by # None /\ queue'[s][k].by = new.by => i = k BY <3>9, <3>10
    <3>14. new.kind = "purge" => i = Len(queue'[s]) /\ jobs' # <<>> /\ jobs'[1].started /\ s \in jobs'[1].purge
      BY <3>8, <3>10
    <3> HIDE DEF op
    <3> QED BY <3>11, <3>12, <3>13, <3>14 DEF OpOK, Home
  <2>6. queue'[s] # <<>> => queue[s] # <<>>
    <3>1. queue[s] \in Seq(Operation) /\ queue'[s] \in Seq(Operation) BY <1>1, <1>15 DEF Shape
    <3>2. Len(queue'[s]) = Len(queue[s]) BY <1>15
    <3> QED BY <3>1, <3>2, EmptySeq
  <2> QED BY <2>3, <2>4, <2>5, <2>6 DEF QueueOK
<1>25. ASSUME NEW u \in User PROVE RecordOK(u)'
  <2>1. /\ disk[u] = gen => u \in stores
        /\ disk[u] \in Gen => disk[u] <= gen
        /\ disk[u] \notin {None, gen} /\ (disk[u] = Old => u \in gone) => u \in missed \/ Pending(u)
    BY DEF IInv, RecordOK
  <2>2. disk[u] # gen' /\ (disk[u] \in Gen => disk[u] <= gen') BY <1>2, <2>1 DEF Gen
  <2>3. u \in stores => Pending(u)'
    <3> SUFFICES ASSUME u \in stores PROVE Pending(u)' OBVIOUS
    <3>1. PICK s : s = <<u, gen>> OBVIOUS
    <3>2. s \in Held /\ s[1] = u BY <3>1 DEF Held
    <3> QED BY <1>11, <1>23, <3>2 DEF Pending
  <2>4. u = user /\ u \notin stores /\ user # None => Pending(u)' BY <1>8, <1>10, <1>11 DEF Pending
  <2>5. Pending(u) => Pending(u)'
    <3> SUFFICES ASSUME NEW i \in DOMAIN jobs,
            u \in jobs[i].bare \/ \E s \in jobs[i].purge : s[1] = u /\ (jobs[i].started => HasPurge(s))
        PROVE  Pending(u)'
      BY DEF Pending
    <3>1. jobs[i].purge \subseteq Store BY <1>1, JobType
    <3> QED BY <1>10, <1>22, <3>1 DEF Pending
  <2>6. u \in gone' => u \in gone \/ (u = user /\ user # None) BY <1>4
  <2> QED BY <1>3, <2>1, <2>2, <2>3, <2>4, <2>5, <2>6 DEF RecordOK
<1>26. CacheOK'
  <2>1. Excused' BY <1>8, <1>10, <1>11 DEF Excused
  <2>2. Len(files) <= MaxFiles /\ (\A t \in Transfer : transfer[t].pc = "create" => Len(files) < MaxFiles)
    BY <1>1 DEF CacheOK
  <2>3. \A i, k \in DOMAIN line : line[i] = line[k] => i = k BY <1>1 DEF CacheOK
  <2>4. \A i \in DOMAIN line : line[i] \in Transfer BY <1>1 DEF Shape
  <2>5. \A i \in DOMAIN line :
          transfer[line[i]].kind # "submit" /\ transfer[line[i]].pc \in {"gate", "stream", "create", "fill"}
    BY <1>1 DEF CacheOK
  <2>6. \A t \in Transfer : transfer[t].pc \in {"stream", "create", "fill"} => First(t)' BY <1>1, <1>3 DEF CacheOK, First
  <2> QED BY <1>3, <1>12, <2>1, <2>2, <2>3, <2>4, <2>5, <2>6 DEF CacheOK
<1> QED BY <1>16, <1>20, <1>21, <1>24, <1>25, <1>26 DEF IInv

-----------------------------------------------------------------------------
(* The invariant, and what it implies.                                     *)

\* The invariant holds when the app starts.
LEMMA Starting ==
  ASSUME Init
  PROVE  IInv
<1>1. 0 \in Gen /\ Old \notin Gen /\ MaxFiles >= 1 /\ MaxFiles \in Nat BY CleanupAssumption DEF Gen, Old
<1>2. PICK j : j = Job OBVIOUS
<1>3. j \in Cleanup /\ j.drain = {} /\ j.purge = {} /\ j.cache = "todo" /\ j.started = FALSE
  BY <1>2 DEF Job, Cleanup
<1>4. jobs \in Seq(Cleanup) /\ Len(jobs) = 1 /\ DOMAIN jobs = {1} /\ jobs # <<>> /\ jobs[1] = j
  <2>1. jobs = <<j>> BY <1>2 DEF Init
  <2> QED BY <1>3, <2>1
<1>5. PICK f : f = [by |-> None, gen |-> Old] OBVIOUS
<1>6. f \in File BY <1>5 DEF File
<1>7. files \in Seq(File) /\ Len(files) = 1
  <2>1. files = <<f>> BY <1>5 DEF Init
  <2> QED BY <1>6, <2>1
<1>8. Idle \in State /\ Idle.pc = "idle" BY <1>1 DEF Idle, State, Pcs
<1>9. \A t \in Transfer : transfer[t] = Idle BY DEF Init
<1>10. Tracked = {} BY <1>8, <1>9 DEF Tracked
<1>11. /\ <<>> \in Seq(Operation) /\ <<>> \in Seq(Transfer) OBVIOUS
<1>12. Shape
  <2>1. queue \in [Store -> Seq(Operation)] BY <1>11 DEF Init
  <2>2. line \in Seq(Transfer) BY <1>11 DEF Init
  <2>3. transfer \in [Transfer -> State] BY <1>8 DEF Init
  <2>4. disk \in [User -> Gen \union {None, Old}] BY DEF Init
  <2>5. gen \in Gen /\ user \in User \union {None} /\ gone \subseteq User /\ stores \subseteq User
    BY <1>1 DEF Init
  <2>6. made = gen + 1 /\ Len(jobs) <= made /\ broken \in BOOLEAN 
    <3>1. gen = 0 /\ made = 1 /\ broken = FALSE BY DEF Init
    <3>2. made = gen + 1 BY <3>1
    <3>3. Len(jobs) = 1 BY <1>4
    <3>4. Len(jobs) <= made BY <3>1, <3>3
    <3> QED BY <3>1, <3>2, <3>4
  <2>7. jobs \in Seq(Cleanup) /\ files \in Seq(File) BY <1>4, <1>7
  <2> QED BY <2>1, <2>2, <2>3, <2>4, <2>5, <2>6, <2>7 DEF Shape
<1>13. ChainOK BY <1>3, <1>4 DEF ChainOK
<1>14. \A t \in Tracked : Running(t) BY <1>10
<1>15. \A s \in Store : QueueOK(s)
  <2> SUFFICES ASSUME NEW s \in Store PROVE QueueOK(s) OBVIOUS
  <2>1. queue[s] = <<>> BY DEF Init
  <2>2. DOMAIN queue[s] = {} BY <2>1
  <2> QED BY <2>1, <2>2 DEF QueueOK
<1>16. \A u \in User : RecordOK(u)
  <2> SUFFICES ASSUME NEW u \in User PROVE RecordOK(u) OBVIOUS
  <2>1. disk[u] = Old /\ gone = {} /\ gen = 0 BY DEF Init
  <2> QED BY <1>1, <2>1 DEF RecordOK
<1>17. CacheOK
  <2>1. Excused BY <1>3, <1>4 DEF Excused
  <2>2. line = <<>> /\ DOMAIN line = {} BY DEF Init
  <2>3. Len(files) <= MaxFiles BY <1>1, <1>7
  <2>4. \A t \in Transfer : transfer[t].pc = "idle" BY <1>8, <1>9
  <2> QED BY <2>1, <2>2, <2>3, <2>4 DEF CacheOK
<1> QED BY <1>12, <1>13, <1>14, <1>15, <1>16, <1>17 DEF IInv

\* A step that changes nothing.
LEMMA Stutters ==
  ASSUME IInv, UNCHANGED vars
  PROVE  IInv'
<1>1. UNCHANGED <<gen, user, gone, stores, queue, disk, jobs, made, broken, missed, files, line, transfer>>
  BY DEF vars, session, records, chain, cache
<1>2. Shape' BY <1>1 DEF IInv, Shape
<1>3. ChainOK' BY <1>1 DEF IInv, ChainOK, Tracked
<1>4. \A t \in Tracked' : Running(t)' BY <1>1 DEF IInv, Running, Tracked, Drained, Followed, Home
<1>5. \A s \in Store : QueueOK(s)' BY <1>1 DEF IInv, QueueOK, OpOK, Purging, HasPurge, Home
<1>6. \A u \in User : RecordOK(u)' BY <1>1 DEF IInv, RecordOK, Pending, HasPurge
<1>7. CacheOK' BY <1>1 DEF IInv, CacheOK, Excused, First
<1> QED BY <1>2, <1>3, <1>4, <1>5, <1>6, <1>7 DEF IInv

\* The invariant is inductive.
LEMMA Inductive ==
  ASSUME IInv, [Next]_vars
  PROVE  IInv'
<1>1. CASE Depart BY <1>1, Departs
<1>2. CASE SignIn BY <1>2, SignsIn
<1>3. CASE StartJob BY <1>3, StartsJob
<1>4. CASE ClearCache BY <1>4, ClearsCache
<1>5. CASE ClearBare BY <1>5, ClearsBare
<1>6. CASE EndJob BY <1>6, EndsJob
<1>7. ASSUME NEW s \in Store, RunStore(s) PROVE IInv'
  <2>1. CASE Read(s) \/ Clear(s) \/ Undo(s) BY <2>1, SimpleOperations
  <2>2. CASE Write(s) BY <2>2, Writes
  <2>3. CASE Written(s) BY <2>3, WritesEnd
  <2>4. CASE Purged(s) BY <2>4, Purges
  <2> QED BY <1>7, <2>1, <2>2, <2>3, <2>4 DEF RunStore
<1>8. CASE Touch BY <1>8, Touches
<1>9. ASSUME NEW t \in Transfer, Start(t) \/ Leave(t) \/ Accept(t) \/ Proceed(t) \/ Ask(t) PROVE IInv'
  <2>1. CASE Start(t) BY <2>1, Starts
  <2>2. CASE Leave(t) BY <2>2, Leaves
  <2>3. CASE Accept(t) BY <2>3, Accepts
  <2>4. CASE Sweep(t) BY <2>4, Sweeps
  <2>5. CASE Admit(t) BY <2>5, Admits
  <2>6. CASE Create(t) BY <2>6, Creates
  <2>7. CASE EndStream(t) BY <2>7, EndsStream
  <2>8. CASE CloseFile(t) \/ EndSubmit(t) BY <2>8, ClosesFile
  <2>9. CASE Ask(t) BY <2>9, Asks
  <2> QED BY <1>9, <2>1, <2>2, <2>3, <2>4, <2>5, <2>6, <2>7, <2>8, <2>9 DEF Proceed
<1>10. CASE UNCHANGED vars BY <1>10, Stutters
<1> QED BY <1>1, <1>2, <1>3, <1>4, <1>5, <1>6, <1>7, <1>8, <1>9, <1>10 DEF Next, RunJob

LEMMA Bounded ==
  ASSUME IInv
  PROVE  DeviceSound
<1>1. Shape /\ ChainOK /\ CacheOK BY DEF IInv
<1>2. ASSUME NEW s \in Store, NEW i \in DOMAIN queue[s]
      PROVE  /\ queue[s][i].pc \in {"queued", "writing", "undoing"}
             /\ queue[s][i].pc # "queued" => i = 1 /\ queue[s][i].kind = "write"
  <2>1. OpOK(s, i) /\ queue[s][i] \in Operation BY OpKnown
  <2> QED BY <2>1 DEF OpOK, Operation
<1>3. \A i \in DOMAIN jobs : jobs[i].started => i = 1 BY <1>1 DEF ChainOK
<1>4. ASSUME NEW i \in DOMAIN files PROVE files[i].gen \in Gen \union {Old}
  <2>1. files[i] \in File BY <1>1 DEF Shape
  <2> QED BY <2>1 DEF File
<1>5. \A i, j \in DOMAIN line : line[i] = line[j] => i = j BY <1>1 DEF CacheOK
<1>6. ASSUME NEW t \in Transfer
      PROVE  transfer[t].pc \in
               {"idle", "over", "sweep", "gate", "stream", "create", "fill", "open", "work", "asked"}
  <2>1. transfer[t] \in State BY <1>1, StateType
  <2> QED BY <2>1 DEF State, Pcs
<1>7. TypeOK BY <1>1, <1>2, <1>3, <1>4, <1>5, <1>6 DEF TypeOK, Shape
<1>8. CacheBounded BY <1>1 DEF CacheOK, CacheBounded
<1> QED BY <1>7, <1>8 DEF DeviceSound

LEMMA Settled ==
  ASSUME IInv
  PROVE  SettledIsClean
<1> SUFFICES ASSUME jobs = <<>>, ~broken
    PROVE  /\ \A i \in DOMAIN files : files[i].gen = gen
           /\ \A u \in gone \ missed : disk[u] \in {None, gen}
  BY DEF SettledIsClean
<1>1. CacheOK /\ Shape BY DEF IInv
<1>2. \A i \in DOMAIN files : files[i].gen = gen BY <1>1 DEF CacheOK, Excused
<1>3. ASSUME NEW u \in gone \ missed PROVE disk[u] \in {None, gen}
  <2>1. u \in User BY <1>1 DEF Shape
  <2>2. RecordOK(u) BY <2>1 DEF IInv
  <2>3. DOMAIN jobs = {} OBVIOUS
  <2>4. ~Pending(u) BY <2>3 DEF Pending
  <2> QED BY <2>2, <2>4 DEF RecordOK
<1> QED BY <1>2, <1>3

\* What NewAfterCleanup says of a step.
NewStep ==
  /\ \A u \in User : disk'[u] = gen /\ disk[u] # gen => Len(jobs) = 0
  /\ \A t \in Transfer :
       (transfer[t].gen = gen /\ transfer[t].pc = "create" /\ transfer'[t].pc = "fill") => Len(jobs) = 0

\* A record is written, and a file created, by who has passed the gate.
LEMMA OnlyNew ==
  ASSUME IInv, [Next]_vars
  PROVE  NewStep
<1>1. Shape BY DEF IInv
<1>2. jobs = <<>> => Len(jobs) = 0 OBVIOUS
<1>3. gen # None BY <1>1, CleanupAssumption DEF Shape
<1>4. ASSUME NEW u \in User, disk'[u] = gen, disk[u] # gen PROVE Len(jobs) = 0
  <2>1. CASE UNCHANGED disk BY <1>4, <2>1
  <2>2. CASE ClearBare BY <1>1, <1>3, <1>4, <2>2 DEF ClearBare, Shape
  <2>3. ASSUME NEW s \in Store, disk' = Erased(s) PROVE Len(jobs) = 0
    BY <1>1, <1>3, <1>4, <2>3 DEF Erased, Shape
  <2>4. ASSUME NEW s \in Store, Written(s) PROVE Len(jobs) = 0
    <3>1. queue[s] # <<>> /\ Head(queue[s]).pc = "writing" BY <2>4 DEF Written
    <3>2. Head(queue[s]) = queue[s][1] /\ 1 \in DOMAIN queue[s] BY <1>1, <3>1, QueueHead
    <3>3. queue[s][1].pc = "writing" BY <3>1, <3>2
    <3>4. s[2] = gen => jobs = <<>> BY <3>2, <3>3, OpKnown DEF OpOK
    <3>5. disk' = disk \/ disk' = [disk EXCEPT ![s[1]] = s[2]] BY <2>4 DEF Written, Over
    <3>6. s[2] = gen BY <1>1, <1>4, <3>5 DEF Shape
    <3> QED BY <1>2, <3>4, <3>6
  <2>5. ASSUME NEW s \in Store, RunStore(s) PROVE Len(jobs) = 0
    <3>1. CASE Read(s) BY <2>1, <3>1 DEF Read, Over
    <3>2. CASE Write(s) BY <2>1, <3>2 DEF Write, Over
    <3>3. CASE Undo(s) BY <2>1, <2>3, <3>3 DEF Undo, Over
    <3>4. CASE Clear(s) BY <2>1, <2>3, <3>4 DEF Clear, Over
    <3>5. CASE Purged(s) BY <2>1, <2>3, <3>5 DEF Purged, Over
    <3> QED BY <2>4, <2>5, <3>1, <3>2, <3>3, <3>4, <3>5 DEF RunStore
  <2>6. CASE Depart \/ SignIn \/ StartJob \/ ClearCache \/ EndJob \/ Touch \/ UNCHANGED vars
    BY <2>1, <2>6 DEF Depart, SignIn, StartJob, ClearCache, EndJob, Touch, vars, records
  <2>7. ASSUME NEW t \in Transfer, Start(t) \/ Leave(t) \/ Accept(t) \/ Proceed(t) \/ Ask(t) PROVE Len(jobs) = 0
    BY <2>1, <2>7 DEF Start, Leave, Accept, Proceed, Ask, Sweep, Admit, Create, EndStream, CloseFile, EndSubmit, records
  <2> QED BY <2>2, <2>5, <2>6, <2>7 DEF Next, RunJob
<1>5. ASSUME NEW t \in Transfer, transfer[t].gen = gen, transfer[t].pc = "create" PROVE Len(jobs) = 0
  <2>1. t \in Tracked BY <1>5 DEF Tracked
  <2>2. Running(t) BY <2>1 DEF IInv
  <2> QED BY <1>2, <1>5, <2>2 DEF Running
<1> QED BY <1>4, <1>5 DEF NewStep

\* The invariant holds in every history.
THEOREM Inductiveness == Spec => []IInv
<1>1. Init => IInv BY Starting
<1>2. IInv /\ [Next]_vars => IInv' BY Inductive
<1> QED BY <1>1, <1>2, PTL DEF Spec

\* The app's memory has its shape and the cache its limit, in every history.
THEOREM DeviceIsSound == Spec => []DeviceSound
<1>1. IInv => DeviceSound BY Bounded
<1> QED BY <1>1, Inductiveness, PTL

\* When the cleanups are over and none failed, nothing of a departed account is left.
THEOREM SettledDeviceIsClean == Spec => []SettledIsClean
<1>1. IInv => SettledIsClean BY Settled
<1> QED BY <1>1, Inductiveness, PTL

\* A record or a file of a session appears only when no cleanup is left.
THEOREM NewOnlyAfterCleanup == Spec => NewAfterCleanup
<1>1. IInv /\ [Next]_vars => [NewStep]_vars BY OnlyNew
<1>2. NewAfterCleanup <=> [][NewStep]_vars BY DEF NewAfterCleanup, NewStep
<1> QED BY <1>1, <1>2, Inductiveness, PTL DEF Spec

=============================================================================
