----------------------- MODULE AcademicRegistry_proofs -----------------------
(***************************************************************************)
(* Proofs about the academic records.  A call's first locks make it the    *)
(* only one of its request, its accounts and the assignment; the locks of  *)
(* its writes keep the roster and the lesson still.  So what a call has    *)
(* checked and read stays true until it commits, which is what the         *)
(* inductive invariant IInv says and the theorems rest on.  That calls     *)
(* other than registrations never wait in a circle follows from the order   *)
(* in which they lock (InOrder).                                           *)
(***************************************************************************)
EXTENDS AcademicRegistry, FiniteSetTheorems, SequenceTheorems, WellFoundedInduction, TLAPS

-----------------------------------------------------------------------------
(* The inductive invariant.                                                *)

Mode == {"X", "K", "W", "S"}
Locks == [what : {"request", "student", "user", "pair", "roster", "assignment", "event"},
          of : Req \union Student \union User \union (Student \X Cohort) \union Event \union {None},
          mode : Mode]
Assignment == [status : {"none", "DRAFT", "PUBLISHED", "CLOSED"}, version : Nat, body : Body,
               late : BOOLEAN, targets : SUBSET Student]
Sheet == [version : Nat, body : Body, targets : SUBSET Student]
Txn == [pc : {"idle", "check", "write", "commit"}, req : Req \union {None},
        load : Load \union {None}, todo : Seq(Locks), holds : SUBSET Locks,
        got : SUBSET (Student \union (Student \X Cohort))]

Busy(p) == txn[p].pc # "idle"
Decided(p) == txn[p].pc \in {"write", "commit"}

TablesOK ==
  /\ account \in [User -> [role : {"MEMBER", "PENDING"}, cohort : Cohort \union {None}]]
  /\ linked \in [Student -> User \union {None}]
  /\ enrolled \subseteq Student \X Cohort
  /\ event \in [Event -> Cohort]
  /\ assignment \in Assignment
  /\ assignment.status \in {"none", "DRAFT"} => assignment.targets = {}
  /\ ledger \in [Req -> Load \union {None}]

CallsOK ==
  /\ page \in [Req -> Sheet \union {None}]
  /\ answer \in [Proc -> [req : Req \union {None}, load : Load \union {None}, how : How]]
  /\ calls \in [Req -> Nat] /\ changes \in Nat

\* What a request's form sends.
SentBy(r, load) ==
  /\ r \in Req /\ load \in Load
  /\ page[r] # None
  /\ load.kind \in {"update", "publish"} => load.version = page[r].version
  /\ load.kind = "publish" => load.targets = page[r].targets
  /\ load.kind = "register" => load.student \in Student /\ load.cohort \in Cohort
  /\ load.kind = "create" => Creates(r)

\* A call that is under way does what its request's form sends.
TxnsOK ==
  /\ txn \in [Proc -> Txn]
  /\ \A p \in Proc : IF Busy(p) THEN SentBy(txn[p].req, txn[p].load) ELSE txn[p] = Quiet

Shape == TablesOK /\ CallsOK /\ TxnsOK

\* Two calls hold no locks that conflict.
Apart ==
  \A p, q \in Proc : p # q =>
    \A h \in txn[p].holds : \A l \in txn[q].holds : ~Conflict(h, l)

\* The locks a call relies on from its checks, and from its writes, to its end.
FirstOf(r, load) ==
  {Lock("request", r, "X")}
    \union (IF load.kind = "link" THEN {Lock("user", load.links[i].user, "X") : i \in DOMAIN load.links} ELSE {})
    \union (IF load.kind \in {"update", "publish", "close"} THEN {Lock("assignment", None, "X")} ELSE {})
SecondOf(load) ==
  (IF load.kind \in {"register", "link"} THEN {Lock("roster", None, "W")} ELSE {})
    \union (IF load.kind = "publish" /\ assignment.status = "DRAFT" THEN {Lock("roster", None, "S")} ELSE {})
    \union (IF load.kind \in DraftKind /\ load.body.event # None
            THEN {Lock("event", load.body.event, "K")} ELSE {})
First(p) == FirstOf(txn[p].req, txn[p].load)
Second(p) == SecondOf(txn[p].load)

Taken(p) == txn[p].holds \union ToSet(txn[p].todo)

Armed(p) ==
  /\ txn[p].pc = "check" => First(p) \subseteq Taken(p)
  /\ Decided(p) => First(p) \subseteq txn[p].holds /\ Second(p) \subseteq Taken(p)
  /\ txn[p].pc = "commit" => txn[p].todo = <<>>

\* What a call has checked stays true until it commits.
Checked(p) ==
  LET load == txn[p].load IN
  Decided(p) =>
    /\ ledger[txn[p].req] = None
    /\ load.kind = "link" =>
         \A i \in DOMAIN load.links :
           /\ account[load.links[i].user].role = load.links[i].role
           /\ account[load.links[i].user].cohort = load.links[i].was
    /\ load.kind = "create" => assignment.status = "none"
    /\ load.kind = "update" => assignment.status = "DRAFT" /\ load.version = assignment.version
    /\ load.kind = "publish" =>
         /\ assignment.status # "none"
         /\ assignment.status = "DRAFT" => load.version = assignment.version
    /\ load.kind = "close" => assignment.status \in {"PUBLISHED", "CLOSED"}

\* And so does what its statements read.
Read(p) ==
  LET load == txn[p].load IN
  txn[p].pc = "commit" =>
    /\ load.kind \in DraftKind => EventFits(load.body)
    /\ load.kind \in {"register", "link"} => txn[p].got \subseteq Student \X Cohort
    /\ load.kind = "publish" /\ assignment.status = "DRAFT" =>
         txn[p].got = Members(assignment.body.cohort) /\ txn[p].got = load.targets

\* A page that shows the assignment's version shows its body.
Rendered ==
  \A r \in Req : page[r] # None =>
    /\ page[r].version <= assignment.version
    /\ page[r].version = assignment.version => page[r].body = assignment.body

\* A request that took effect was sent from a page.
Recorded == \A r \in Req : ledger[r] # None => page[r] # None

\* One request creates the assignment.
Creator(r) ==
  \/ calls[r] > 0 /\ Creates(r)
  \/ \E p \in Proc : Busy(p) /\ txn[p].req = r /\ txn[p].load.kind = "create"
  \/ ledger[r] # None /\ ledger[r].kind = "create"

Created ==
  /\ \A r, q \in Req : Creator(r) /\ Creator(q) => r = q
  /\ assignment.status # "none" => \E r \in Req : ledger[r] # None /\ ledger[r].kind = "create"

IInv ==
  /\ Shape
  /\ Apart
  /\ \A p \in Proc : Armed(p) /\ Checked(p) /\ Read(p)
  /\ Rendered
  /\ Recorded
  /\ Created
  /\ PublishedAsReviewed
  /\ LessonOfCohort

-----------------------------------------------------------------------------
(* Lists of locks.                                                         *)

LEMMA Elements ==
  ASSUME NEW S, NEW list \in Seq(S)
  PROVE  /\ Len(list) \in Nat
         /\ DOMAIN list = 1..Len(list)
         /\ \A i \in DOMAIN list : list[i] \in S
         /\ ToSet(list) \subseteq S
BY LenProperties, ElementOfSeq DEF ToSet

LEMMA Joined ==
  ASSUME NEW S, NEW s \in Seq(S), NEW t \in Seq(S)
  PROVE  /\ s \o t \in Seq(S)
         /\ ToSet(s) \subseteq ToSet(s \o t)
         /\ ToSet(t) \subseteq ToSet(s \o t)
<1>1. /\ Len(s) \in Nat /\ DOMAIN s = 1..Len(s)
      /\ Len(t) \in Nat /\ DOMAIN t = 1..Len(t)
  BY Elements
<1>2. /\ s \o t \in Seq(S) /\ Len(s \o t) = Len(s) + Len(t)
      /\ \A i \in 1..Len(s) + Len(t) : (s \o t)[i] = IF i <= Len(s) THEN s[i] ELSE t[i - Len(s)]
  BY ConcatProperties
<1>3. DOMAIN (s \o t) = 1..(Len(s) + Len(t)) BY <1>2, Elements
<1>4. ASSUME NEW i \in DOMAIN s PROVE s[i] \in ToSet(s \o t)
  <2>1. i \in 1..(Len(s) + Len(t)) /\ i <= Len(s) BY <1>1
  <2>2. (s \o t)[i] = s[i] BY <1>2, <2>1
  <2> QED BY <1>3, <2>1, <2>2 DEF ToSet
<1>5. ASSUME NEW i \in DOMAIN t PROVE t[i] \in ToSet(s \o t)
  <2>1. i + Len(s) \in 1..(Len(s) + Len(t)) /\ ~(i + Len(s) <= Len(s)) /\ (i + Len(s)) - Len(s) = i BY <1>1
  <2>2. (s \o t)[i + Len(s)] = t[i] BY <1>2, <2>1
  <2> QED BY <1>3, <2>1, <2>2 DEF ToSet
<1> QED BY <1>2, <1>4, <1>5 DEF ToSet

LEMMA Split ==
  ASSUME NEW S, NEW s \in Seq(S), s # <<>>
  PROVE  /\ Head(s) \in S /\ Tail(s) \in Seq(S)
         /\ ToSet(s) \subseteq {Head(s)} \union ToSet(Tail(s))
         /\ ToSet(Tail(s)) \subseteq ToSet(s)
         /\ Head(s) \in ToSet(s)
<1>1. Len(s) \in Nat /\ DOMAIN s = 1..Len(s) BY Elements
<1>2. Len(s) # 0 BY EmptySeq
<1>3. Head(s) = s[1] /\ Head(s) \in S /\ Tail(s) \in Seq(S) BY HeadTailProperties
<1>4. /\ Len(Tail(s)) = Len(s) - 1
      /\ \A i \in 1..Len(s) - 1 : Tail(s)[i] = s[i + 1]
  BY HeadTailProperties
<1>5. DOMAIN Tail(s) = 1..(Len(s) - 1) BY <1>3, <1>4, Elements
<1>6. ASSUME NEW i \in DOMAIN s PROVE s[i] \in {Head(s)} \union ToSet(Tail(s))
  <2>1. CASE i = 1 BY <1>3, <2>1
  <2>2. CASE i # 1
    <3>1. i - 1 \in 1..(Len(s) - 1) /\ (i - 1) + 1 = i BY <1>1, <2>2
    <3>2. Tail(s)[i - 1] = s[i] BY <1>4, <3>1
    <3> QED BY <1>5, <3>1, <3>2 DEF ToSet
  <2> QED BY <2>1, <2>2
<1>7. ASSUME NEW i \in DOMAIN Tail(s) PROVE Tail(s)[i] \in ToSet(s)
  <2>1. i \in 1..(Len(s) - 1) /\ i + 1 \in 1..Len(s) BY <1>1, <1>5
  <2> QED BY <1>1, <1>4, <2>1 DEF ToSet
<1>8. Head(s) \in ToSet(s) BY <1>1, <1>2, <1>3 DEF ToSet
<1> QED BY <1>3, <1>6, <1>7, <1>8 DEF ToSet

LEMMA Singleton ==
  ASSUME NEW S, NEW x \in S
  PROVE  <<x>> \in Seq(S) /\ x \in ToSet(<<x>>)
<1>1. <<x>> \in Seq(S) /\ Len(<<x>>) = 1 /\ <<x>>[1] = x OBVIOUS
<1>2. DOMAIN <<x>> = 1..1 /\ 1 \in 1..1 BY <1>1, Elements
<1> QED BY <1>1, <1>2 DEF ToSet

LEMMA Empty == ASSUME NEW S PROVE <<>> \in Seq(S)
OBVIOUS

\* Every place is taken by one id.
LEMMA RankTaken ==
  ASSUME NEW ids, ids \subseteq Student \union User, IsFiniteSet(ids)
  PROVE  /\ \A i \in ids : Cardinality(UpTo(ids, i)) \in 1..Cardinality(ids)
         /\ \A i, j \in ids : Cardinality(UpTo(ids, i)) = Cardinality(UpTo(ids, j)) => i = j
         /\ \A k \in 1..Cardinality(ids) : \E i \in ids : Cardinality(UpTo(ids, i)) = k
<1> DEFINE n == Cardinality(ids)
           rank(i) == Cardinality(UpTo(ids, i))
<1>1. n \in Nat BY FS_CardinalityType
<1>2. ASSUME NEW i \in ids PROVE IsFiniteSet(UpTo(ids, i)) /\ rank(i) \in 1..n
  <2>1. UpTo(ids, i) \subseteq ids /\ i \in UpTo(ids, i) BY RegistryAssumption DEF UpTo
  <2>2. IsFiniteSet(UpTo(ids, i)) /\ rank(i) \in Nat /\ rank(i) <= n BY <2>1, FS_Subset, FS_CardinalityType
  <2>3. rank(i) # 0 BY <2>1, <2>2, FS_EmptySet
  <2> QED BY <1>1, <2>2, <2>3
<1>3. ASSUME NEW i \in ids, NEW j \in ids, i # j PROVE rank(i) # rank(j)
  <2>1. ASSUME NEW k \in ids, NEW l \in ids, IdOf[k] < IdOf[l] PROVE rank(k) # rank(l)
    <3>1. UpTo(ids, k) \subseteq UpTo(ids, l) /\ l \in UpTo(ids, l) /\ l \notin UpTo(ids, k)
      BY <2>1, RegistryAssumption DEF UpTo
    <3> HIDE DEF rank
    <3>2. UpTo(ids, k) # UpTo(ids, l) BY <3>1
    <3> QED BY <1>2, <3>1, <3>2, FS_Subset DEF rank
  <2>2. IdOf[i] # IdOf[j] /\ IdOf[i] \in Nat /\ IdOf[j] \in Nat BY <1>3, RegistryAssumption
  <2>3. IdOf[i] < IdOf[j] \/ IdOf[j] < IdOf[i] BY <2>2
  <2> QED BY <2>1, <2>3
<1>4. ASSUME NEW k \in 1..n PROVE \E i \in ids : rank(i) = k
  <2> SUFFICES ASSUME \A i \in ids : rank(i) # k PROVE FALSE OBVIOUS
  <2> DEFINE f == [i \in ids |-> rank(i)]
             T == (1..n) \ {k}
  <2> HIDE DEF rank
  <2>1. f \in [ids -> T] BY <1>2
  <2> HIDE DEF n, f
  <2>2. IsFiniteSet(1..n) /\ Cardinality(1..n) = n BY <1>1, FS_Interval
  <2>3. IsFiniteSet(T) /\ Cardinality(T) = n - 1 BY <2>2, FS_RemoveElement
  <2>4. Cardinality(T) < n BY <1>1, <2>3
  <2> HIDE DEF T
  <2>5. Cardinality(T) < Cardinality(ids) BY <2>4 DEF n
  <2>6. PICK i, j \in ids : i # j /\ f[i] = f[j] BY <2>1, <2>3, <2>5, FS_PigeonHole
  <2>7. f[i] = rank(i) /\ f[j] = rank(j) BY DEF f
  <2>8. rank(i) = rank(j) BY <2>6, <2>7
  <2> QED BY <1>3, <2>6, <2>8
<1> QED BY <1>2, <1>3, <1>4

\* The list of ids has every id.
LEMMA Ordered ==
  ASSUME NEW ids, ids \subseteq Student \union User, IsFiniteSet(ids)
  PROVE  /\ InIdOrder(ids) \in Seq(ids)
         /\ \A i \in ids : i \in ToSet(InIdOrder(ids))
<1> DEFINE n == Cardinality(ids)
           rank(i) == Cardinality(UpTo(ids, i))
<1>1. n \in Nat BY FS_CardinalityType
<1>2. \A i \in ids : rank(i) \in 1..n BY RankTaken
<1>3. \A i, j \in ids : rank(i) = rank(j) => i = j BY RankTaken
<1>4. \A k \in 1..n : \E i \in ids : rank(i) = k BY RankTaken
<1> HIDE DEF n
<1>5. InIdOrder(ids) = [k \in 1..n |-> CHOOSE i \in ids : rank(i) = k] BY DEF InIdOrder, n
<1> HIDE DEF rank
<1> DEFINE order == [k \in 1..n |-> CHOOSE i \in ids : rank(i) = k]
<1>6. \A k \in 1..n : order[k] \in ids /\ rank(order[k]) = k
  <2> TAKE k \in 1..n
  <2>1. (CHOOSE i \in ids : rank(i) = k) \in ids /\ rank(CHOOSE i \in ids : rank(i) = k) = k BY <1>4
  <2> QED BY <2>1
<1>7. order \in [1..n -> ids] /\ DOMAIN order = 1..n BY <1>6
<1> HIDE DEF order
<1>8. order \in Seq(ids) BY <1>1, <1>7
<1>9. ASSUME NEW i \in ids PROVE i \in ToSet(order)
  <2>1. rank(i) \in 1..n BY <1>2
  <2>2. order[rank(i)] \in ids /\ rank(order[rank(i)]) = rank(i) BY <1>6, <2>1
  <2>3. order[rank(i)] = i BY <1>3, <2>2
  <2> QED BY <1>7, <2>1, <2>3 DEF ToSet
<1> QED BY <1>5, <1>8, <1>9 DEF order

-----------------------------------------------------------------------------
(* The locks of a call.                                                    *)

LEMMA EachLocked ==
  ASSUME NEW what \in {"user", "student"}, NEW S, S \subseteq Student \union User, NEW ids \in Seq(S)
  PROVE  /\ LockEach(what, ids) \in Seq(Locks)
         /\ \A i \in ToSet(ids) : Lock(what, i, "X") \in ToSet(LockEach(what, ids))
<1>1. Len(ids) \in Nat /\ DOMAIN ids = 1..Len(ids) /\ \A i \in DOMAIN ids : ids[i] \in S BY Elements
<1>2. \A i \in DOMAIN ids : Lock(what, ids[i], "X") \in Locks BY <1>1 DEF Lock, Locks, Mode
<1>3. LockEach(what, ids) \in [1..Len(ids) -> Locks] BY <1>1, <1>2 DEF LockEach
<1>4. LockEach(what, ids) \in Seq(Locks) BY <1>1, <1>3
<1>5. \A i \in DOMAIN ids : Lock(what, ids[i], "X") \in ToSet(LockEach(what, ids))
  BY DEF LockEach, ToSet
<1> QED BY <1>4, <1>5 DEF ToSet

\* The accounts and the students of a plan are finitely many.
LEMMA PlanFinite ==
  ASSUME NEW load \in Load
  PROVE  /\ LET users == {load.links[i].user : i \in DOMAIN load.links} IN
            users \subseteq User /\ IsFiniteSet(users)
         /\ LinkStudents(load) \subseteq Student /\ IsFiniteSet(LinkStudents(load))
<1> DEFINE links == load.links
           n == Len(links)
<1>1. links \in Seq(LinkPlan) BY DEF Load
<1>2. n \in Nat /\ DOMAIN links = 1..n /\ \A i \in 1..n : links[i] \in LinkPlan
  BY <1>1, Elements
<1>3. IsFiniteSet(1..n) BY <1>2, FS_Interval
<1> HIDE DEF links, n
<1> DEFINE user == [i \in 1..n |-> links[i].user]
           student == [i \in 1..n |-> links[i].student]
           users == {links[i].user : i \in 1..n}
           students == {links[i].student : i \in 1..n}
<1>4. user \in Surjection(1..n, users) BY DEF Surjection
<1>5. student \in Surjection(1..n, students) BY DEF Surjection
<1>6. users \subseteq User /\ students \subseteq Student BY <1>2 DEF LinkPlan
<1> HIDE DEF user, student, users, students
<1>7. IsFiniteSet(users) /\ IsFiniteSet(students) BY <1>3, <1>4, <1>5, FS_Surjection
<1>8. users = {load.links[i].user : i \in DOMAIN load.links} BY <1>2 DEF users, links
<1>9. students = LinkStudents(load) BY <1>2 DEF students, links, LinkStudents
<1> QED BY <1>6, <1>7, <1>8, <1>9

LEMMA FirstFacts ==
  ASSUME NEW r \in Req, NEW load \in Load,
         load.kind = "register" => load.student \in Student /\ load.cohort \in Cohort
  PROVE  FirstLocks(r, load) \in Seq(Locks) /\ FirstOf(r, load) \subseteq ToSet(FirstLocks(r, load))
<1> SUFFICES /\ FirstLocks(r, load) \in Seq(Locks)
             /\ Lock("request", r, "X") \in ToSet(FirstLocks(r, load))
             /\ load.kind = "link" => \A i \in DOMAIN load.links :
                  Lock("user", load.links[i].user, "X") \in ToSet(FirstLocks(r, load))
             /\ load.kind \in {"update", "publish", "close"} =>
                  Lock("assignment", None, "X") \in ToSet(FirstLocks(r, load))
  BY DEF FirstOf
<1>1. /\ RequestLock(r) \in Seq(Locks)
      /\ Lock("request", r, "X") \in ToSet(RequestLock(r))
  <2>1. Lock("request", r, "X") \in Locks BY DEF Lock, Locks, Mode
  <2> QED BY <2>1, Singleton DEF RequestLock
<1>2. Actor[r] \in User BY RegistryAssumption
<1>3. load.kind \in Kind BY DEF Load
<1>4. CASE load.kind = "register"
  <2>1. Lock("student", load.student, "K") \in Locks BY <1>4 DEF Lock, Locks, Mode
  <2>2. <<Lock("student", load.student, "K")>> \in Seq(Locks) BY <2>1, Singleton
  <2>3. FirstLocks(r, load) = RequestLock(r) \o <<Lock("student", load.student, "K")>> BY <1>4 DEF FirstLocks
  <2> QED BY <1>1, <1>4, <2>2, <2>3, Joined
<1>5. CASE load.kind = "link"
  <2> DEFINE users == {Actor[r]} \union {load.links[i].user : i \in DOMAIN load.links}
             accounts == LockEach("user", LinkOrder(r, load))
             students == LockEach("student", InIdOrder(LinkStudents(load)))
  <2>1. users \subseteq User /\ IsFiniteSet(users) BY <1>2, PlanFinite, FS_Union, FS_Singleton
  <2>2. LinkOrder(r, load) = InIdOrder(users) BY DEF LinkOrder
  <2> HIDE DEF users
  <2>3. /\ LinkOrder(r, load) \in Seq(users)
        /\ \A i \in users : i \in ToSet(LinkOrder(r, load))
    BY <2>1, <2>2, Ordered
  <2>4. /\ accounts \in Seq(Locks)
        /\ \A i \in users : Lock("user", i, "X") \in ToSet(accounts)
    BY <2>1, <2>3, EachLocked
  <2>5. /\ LinkStudents(load) \subseteq Student \union User
        /\ InIdOrder(LinkStudents(load)) \in Seq(LinkStudents(load))
    BY PlanFinite, Ordered
  <2>6. students \in Seq(Locks) BY <2>5, EachLocked
  <2>7. FirstLocks(r, load) = (RequestLock(r) \o accounts) \o students BY <1>5 DEF FirstLocks
  <2> HIDE DEF accounts, students
  <2>8. /\ RequestLock(r) \o accounts \in Seq(Locks)
        /\ ToSet(RequestLock(r)) \subseteq ToSet(RequestLock(r) \o accounts)
        /\ ToSet(accounts) \subseteq ToSet(RequestLock(r) \o accounts)
    BY <1>1, <2>4, Joined
  <2>9. /\ FirstLocks(r, load) \in Seq(Locks)
        /\ ToSet(RequestLock(r) \o accounts) \subseteq ToSet(FirstLocks(r, load))
    BY <2>6, <2>7, <2>8, Joined
  <2>10. \A i \in DOMAIN load.links : load.links[i].user \in users BY DEF users
  <2> QED BY <1>1, <1>5, <2>4, <2>8, <2>9, <2>10
<1>6. CASE load.kind \notin {"register", "link"}
  <2> DEFINE account1 == <<Lock("user", Actor[r], "X")>>
             rest == IF load.kind = "create" THEN <<>> ELSE <<Lock("assignment", None, "X")>>
  <2>1. Lock("user", Actor[r], "X") \in Locks /\ Lock("assignment", None, "X") \in Locks
    BY <1>2 DEF Lock, Locks, Mode
  <2>2. account1 \in Seq(Locks) BY <2>1, Singleton
  <2>3. rest \in Seq(Locks) /\ (load.kind # "create" => Lock("assignment", None, "X") \in ToSet(rest))
    BY <2>1, Singleton, Empty
  <2>4. FirstLocks(r, load) = (RequestLock(r) \o account1) \o rest BY <1>6 DEF FirstLocks
  <2> HIDE DEF account1, rest
  <2>5. /\ RequestLock(r) \o account1 \in Seq(Locks)
        /\ ToSet(RequestLock(r)) \subseteq ToSet(RequestLock(r) \o account1)
    BY <1>1, <2>2, Joined
  <2>6. /\ FirstLocks(r, load) \in Seq(Locks)
        /\ ToSet(RequestLock(r) \o account1) \subseteq ToSet(FirstLocks(r, load))
        /\ ToSet(rest) \subseteq ToSet(FirstLocks(r, load))
    BY <2>3, <2>4, <2>5, Joined
  <2> QED BY <1>1, <1>6, <2>3, <2>5, <2>6
<1> QED BY <1>4, <1>5, <1>6

LEMMA LinkCohort ==
  ASSUME NEW load \in Load, NEW s \in LinkStudents(load)
  PROVE  LinkOf(load, s).cohort \in Cohort
<1>1. load.links \in Seq(LinkPlan) BY DEF Load
<1>2. \A i \in DOMAIN load.links : load.links[i] \in LinkPlan BY <1>1, Elements
<1>3. \E k \in Range(load.links) : k.student = s BY DEF LinkStudents, Range
<1>4. LinkOf(load, s) \in Range(load.links) BY <1>3 DEF LinkOf
<1> QED BY <1>2, <1>4 DEF Range, LinkPlan

LEMMA PairsLocked ==
  ASSUME NEW load \in Load
  PROVE  LET students == InIdOrder(LinkStudents(load)) IN
         [i \in DOMAIN students |-> PairLock(students[i], LinkOf(load, students[i]).cohort)] \in Seq(Locks)
<1> DEFINE students == InIdOrder(LinkStudents(load))
           pairs == [i \in DOMAIN students |-> PairLock(students[i], LinkOf(load, students[i]).cohort)]
<1>1. /\ LinkStudents(load) \subseteq Student \union User /\ LinkStudents(load) \subseteq Student
      /\ students \in Seq(LinkStudents(load))
  BY PlanFinite, Ordered
<1> HIDE DEF students
<1>2. Len(students) \in Nat /\ DOMAIN students = 1..Len(students)
      /\ \A i \in DOMAIN students : students[i] \in LinkStudents(load)
  BY <1>1, Elements
<1>4. \A s \in LinkStudents(load) : LinkOf(load, s).cohort \in Cohort BY LinkCohort
<1>5. \A i \in DOMAIN students : PairLock(students[i], LinkOf(load, students[i]).cohort) \in Locks
  BY <1>1, <1>2, <1>4 DEF Lock, Locks, Mode, PairLock
<1>6. pairs \in [1..Len(students) -> Locks] BY <1>2, <1>5
<1>7. pairs \in Seq(Locks) BY <1>2, <1>6
<1> QED BY <1>7 DEF students

LEMMA SecondFacts ==
  ASSUME TablesOK, NEW r \in Req, NEW load \in Load,
         load.kind = "register" => load.student \in Student /\ load.cohort \in Cohort
  PROVE  WriteLocks(r, load) \in Seq(Locks) /\ SecondOf(load) \subseteq ToSet(WriteLocks(r, load))
<1> DEFINE table == Lock("roster", None, "W")
           share == Lock("roster", None, "S")
<1>1. Actor[r] \in User BY RegistryAssumption
<1>2. /\ table \in Locks /\ share \in Locks
      /\ \A s \in Student, c \in Cohort : PairLock(s, c) \in Locks
      /\ Lock("user", Actor[r], "K") \in Locks
      /\ \A e \in Event : Lock("event", e, "K") \in Locks
  BY <1>1 DEF Lock, Locks, Mode, PairLock
<1>3. \A body \in Body : /\ EventLocks(body) \in Seq(Locks)
                         /\ body.event # None => Lock("event", body.event, "K") \in ToSet(EventLocks(body))
  <2> SUFFICES ASSUME NEW body \in Body
               PROVE  /\ EventLocks(body) \in Seq(Locks)
                      /\ body.event # None => Lock("event", body.event, "K") \in ToSet(EventLocks(body))
    OBVIOUS
  <2>1. body.event # None => Lock("event", body.event, "K") \in Locks BY <1>2 DEF Body
  <2>2. CASE body.event = None BY <2>2, Empty DEF EventLocks
  <2>3. CASE body.event # None BY <2>1, <2>3, Singleton DEF EventLocks
  <2> QED BY <2>2, <2>3
<1>4. load.body \in Body /\ assignment.body \in Body /\ load.kind \in Kind
  BY DEF Load, TablesOK, Assignment
<1> HIDE DEF table, share
<1>5. CASE load.kind = "register"
  <2>1. WriteLocks(r, load) = <<table, PairLock(load.student, load.cohort), Lock("user", Actor[r], "K")>>
    BY <1>5 DEF WriteLocks, RegisterLocks, table
  <2>2. PairLock(load.student, load.cohort) \in Locks BY <1>2, <1>5
  <2>3. WriteLocks(r, load) \in Seq(Locks) /\ Len(WriteLocks(r, load)) = 3 /\ WriteLocks(r, load)[1] = table
    BY <1>2, <2>1, <2>2
  <2>4. DOMAIN WriteLocks(r, load) = 1..3 /\ 1 \in 1..3 BY <2>3, Elements
  <2>5. table \in ToSet(WriteLocks(r, load)) BY <2>3, <2>4 DEF ToSet
  <2>6. SecondOf(load) = {table} BY <1>5 DEF SecondOf, DraftKind, table
  <2> QED BY <2>3, <2>5, <2>6
<1>6. CASE load.kind = "link"
  <2> DEFINE students == InIdOrder(LinkStudents(load))
             pairs == [i \in DOMAIN students |-> PairLock(students[i], LinkOf(load, students[i]).cohort)]
  <2>7. pairs \in Seq(Locks) BY PairsLocked
  <2>8. WriteLocks(r, load) = <<table>> \o pairs BY <1>6 DEF WriteLocks, LinkLocks, students, table
  <2> HIDE DEF pairs
  <2>9. <<table>> \in Seq(Locks) /\ table \in ToSet(<<table>>) BY <1>2, Singleton
  <2>10. WriteLocks(r, load) \in Seq(Locks) /\ table \in ToSet(WriteLocks(r, load)) BY <2>7, <2>8, <2>9, Joined
  <2>11. SecondOf(load) = {table} BY <1>6 DEF SecondOf, DraftKind, table
  <2> QED BY <2>10, <2>11
<1>7. CASE load.kind = "publish" /\ assignment.status = "DRAFT"
  <2>1. WriteLocks(r, load) = <<share>> \o EventLocks(assignment.body)
    BY <1>7 DEF WriteLocks, PublishLocks, share
  <2>2. <<share>> \in Seq(Locks) /\ share \in ToSet(<<share>>) BY <1>2, Singleton
  <2>3. WriteLocks(r, load) \in Seq(Locks) /\ share \in ToSet(WriteLocks(r, load)) BY <1>3, <1>4, <2>1, <2>2, Joined
  <2>4. SecondOf(load) = {share} BY <1>7 DEF SecondOf, DraftKind, share
  <2> QED BY <2>3, <2>4
<1>8. CASE load.kind \in DraftKind
  <2>1. WriteLocks(r, load) = EventLocks(load.body) BY <1>8 DEF WriteLocks, DraftKind
  <2>2. SecondOf(load) = IF load.body.event # None THEN {Lock("event", load.body.event, "K")} ELSE {}
    BY <1>8 DEF SecondOf, DraftKind
  <2> QED BY <1>3, <1>4, <2>1, <2>2
<1>9. CASE load.kind \notin {"register", "link"} \union DraftKind /\ ~(load.kind = "publish" /\ assignment.status = "DRAFT")
  <2>1. WriteLocks(r, load) = <<>> BY <1>9 DEF WriteLocks
  <2>2. SecondOf(load) = {} BY <1>9 DEF SecondOf
  <2> QED BY <2>1, <2>2, Empty
<1> QED BY <1>5, <1>6, <1>7, <1>8, <1>9

-----------------------------------------------------------------------------
(* What the steps of a call change.                                        *)

LEMMA Replaced ==
  ASSUME txn \in [Proc -> Txn], NEW p \in Proc, NEW t \in Txn, txn' = [txn EXCEPT ![p] = t]
  PROVE  /\ txn' \in [Proc -> Txn]
         /\ txn'[p] = t
         /\ \A q \in Proc \ {p} : txn'[q] = txn[q]
OBVIOUS

LEMMA Queued ==
  ASSUME NEW y \in Txn, NEW a, NEW b, NEW t, t = [y EXCEPT !.todo = a, !.holds = b]
  PROVE  t = [pc |-> y.pc, req |-> y.req, load |-> y.load, todo |-> a, holds |-> b, got |-> y.got]
BY DEF Txn

LEMMA Deciding ==
  ASSUME NEW y \in Txn, NEW a, NEW b, NEW t, t = [y EXCEPT !.pc = a, !.todo = b]
  PROVE  t = [pc |-> a, req |-> y.req, load |-> y.load, todo |-> b, holds |-> y.holds, got |-> y.got]
BY DEF Txn

LEMMA Reading ==
  ASSUME NEW y \in Txn, NEW a, NEW b, NEW t, t = [y EXCEPT !.pc = a, !.got = b]
  PROVE  t = [pc |-> a, req |-> y.req, load |-> y.load, todo |-> y.todo, holds |-> y.holds, got |-> b]
BY DEF Txn

LEMMA QuietTxn == Quiet \in Txn /\ Quiet.pc = "idle" /\ Quiet.holds = {} /\ Quiet.todo = <<>>
<1>1. <<>> \in Seq(Locks) BY Empty
<1> QED BY <1>1 DEF Quiet, Txn

LEMMA EndedFacts ==
  ASSUME Shape, NEW p \in Proc, NEW how \in How, Ended(p, how)
  PROVE  /\ txn' \in [Proc -> Txn]
         /\ txn'[p] = Quiet
         /\ \A q \in Proc \ {p} : txn'[q] = txn[q] /\ answer'[q] = answer[q]
         /\ answer' \in [Proc -> [req : Req \union {None}, load : Load \union {None}, how : How]]
         /\ answer'[p] = [req |-> txn[p].req, load |-> txn[p].load, how |-> how]
<1>1. txn \in [Proc -> Txn] /\ answer \in [Proc -> [req : Req \union {None}, load : Load \union {None}, how : How]]
  BY DEF Shape, TxnsOK, CallsOK
<1>2. txn' = [txn EXCEPT ![p] = Quiet] BY DEF Ended
<1>3. txn' \in [Proc -> Txn] /\ txn'[p] = Quiet /\ \A q \in Proc \ {p} : txn'[q] = txn[q]
  BY <1>1, <1>2, QuietTxn, Replaced
<1>4. txn[p].req \in Req \union {None} /\ txn[p].load \in Load \union {None} BY <1>1 DEF Txn
<1> DEFINE a == [req |-> txn[p].req, load |-> txn[p].load, how |-> how]
<1>5. a \in [req : Req \union {None}, load : Load \union {None}, how : How] BY <1>4
<1>6. answer' = [answer EXCEPT ![p] = a] BY DEF Ended
<1> HIDE DEF a
<1>7. /\ answer' \in [Proc -> [req : Req \union {None}, load : Load \union {None}, how : How]]
      /\ answer'[p] = a /\ \A q \in Proc \ {p} : answer'[q] = answer[q]
  BY <1>1, <1>5, <1>6
<1> QED BY <1>3, <1>7 DEF a

LEMMA SheetSent ==
  ASSUME Shape, NEW r \in Req, NEW x \in Form[r], page[r] # None
  PROVE  SentBy(r, Payload(r, x))
<1>1. x \in Load /\ (x.kind = "register" => x.student \in Student /\ x.cohort \in Cohort)
  BY RegistryAssumption
<1>2. page[r] \in Sheet BY DEF Shape, CallsOK
<1> DEFINE version == IF x.kind \in {"update", "publish"} THEN page[r].version ELSE 0
           targets == IF x.kind = "publish" THEN page[r].targets ELSE {}
<1>3. version \in Nat /\ targets \in SUBSET Student BY <1>2 DEF Sheet
<1>4. Payload(r, x) = [x EXCEPT !.version = version, !.targets = targets] BY DEF Payload
<1>5. /\ (x.kind \in {"update", "publish"} => version = page[r].version)
      /\ (x.kind = "publish" => targets = page[r].targets)
  OBVIOUS
<1> HIDE DEF version, targets
<1>6. Payload(r, x) = [kind |-> x.kind, student |-> x.student, cohort |-> x.cohort, links |-> x.links,
                       body |-> x.body, version |-> version, targets |-> targets]
  BY <1>1, <1>4 DEF Load
<1>7. Payload(r, x) \in Load BY <1>1, <1>3, <1>6 DEF Load
<1>8. x.kind = "create" => Creates(r) BY DEF Creates
<1> QED BY <1>1, <1>5, <1>6, <1>7, <1>8 DEF SentBy

LEMMA BeginFacts ==
  ASSUME Shape, NEW p \in Proc, Begin(p)
  PROVE  /\ ~Busy(p)
         /\ UNCHANGED <<db, page, answer, changes>>
         /\ txn' \in [Proc -> Txn]
         /\ \A q \in Proc \ {p} : txn'[q] = txn[q]
         /\ \E r \in Req, load \in Load :
              /\ SentBy(r, load)
              /\ calls[r] > 0 /\ calls' = [calls EXCEPT ![r] = @ - 1]
              /\ txn'[p] = [pc |-> "check", req |-> r, load |-> load, todo |-> FirstLocks(r, load),
                            holds |-> {}, got |-> {}]
<1>1. \E r \in Req : \E x \in Form[r] :
        /\ page[r] # None
        /\ calls[r] > 0 /\ calls' = [calls EXCEPT ![r] = @ - 1]
        /\ txn' = [txn EXCEPT ![p] =
             [pc |-> "check", req |-> r, load |-> Payload(r, x), todo |-> FirstLocks(r, Payload(r, x)),
              holds |-> {}, got |-> {}]]
  BY DEF Begin
<1>r. PICK r \in Req : \E x \in Form[r] :
        /\ page[r] # None
        /\ calls[r] > 0 /\ calls' = [calls EXCEPT ![r] = @ - 1]
        /\ txn' = [txn EXCEPT ![p] =
             [pc |-> "check", req |-> r, load |-> Payload(r, x), todo |-> FirstLocks(r, Payload(r, x)),
              holds |-> {}, got |-> {}]]
  BY <1>1, Zenon
<1>x. PICK x \in Form[r] :
        /\ page[r] # None
        /\ calls[r] > 0 /\ calls' = [calls EXCEPT ![r] = @ - 1]
        /\ txn' = [txn EXCEPT ![p] =
             [pc |-> "check", req |-> r, load |-> Payload(r, x), todo |-> FirstLocks(r, Payload(r, x)),
              holds |-> {}, got |-> {}]]
  BY <1>r, Zenon
<1> DEFINE load == Payload(r, x)
<1>2. SentBy(r, load) BY <1>x, SheetSent
<1> HIDE DEF load
<1>3. load \in Load /\ FirstLocks(r, load) \in Seq(Locks) BY <1>2, FirstFacts DEF SentBy
<1> DEFINE t == [pc |-> "check", req |-> r, load |-> load, todo |-> FirstLocks(r, load), holds |-> {}, got |-> {}]
<1>4. t \in Txn BY <1>3 DEF Txn
<1>5. txn' = [txn EXCEPT ![p] = t] BY <1>x DEF load
<1> HIDE DEF t
<1>6. /\ txn' \in [Proc -> Txn] /\ txn'[p] = t
      /\ \A q \in Proc \ {p} : txn'[q] = txn[q]
  BY <1>4, <1>5, Replaced DEF Shape, TxnsOK
<1>7. ~Busy(p) /\ UNCHANGED <<db, page, answer, changes>> BY DEF Begin, Busy
<1> QED BY <1>x, <1>2, <1>3, <1>6, <1>7 DEF t

LEMMA AcquireFacts ==
  ASSUME Shape, NEW p \in Proc, Acquire(p)
  PROVE  /\ UNCHANGED <<db, page, answer, calls, changes>>
         /\ Busy(p)
         /\ txn' \in [Proc -> Txn]
         /\ \A q \in Proc \ {p} : txn'[q] = txn[q]
         /\ txn[p].todo # <<>>
         /\ txn'[p].pc = txn[p].pc /\ txn'[p].req = txn[p].req /\ txn'[p].load = txn[p].load
         /\ txn'[p].got = txn[p].got
         /\ txn'[p].todo = Tail(txn[p].todo)
         /\ txn'[p].holds = txn[p].holds \union {Head(txn[p].todo)}
         /\ \A q \in Proc \ {p} : \A h \in txn[q].holds : ~Conflict(Head(txn[p].todo), h)
<1>1. txn[p] \in Txn /\ txn[p].todo \in Seq(Locks) /\ txn[p].todo # <<>> BY DEF Acquire, Shape, TxnsOK, Txn
<1>2. Head(txn[p].todo) \in Locks /\ Tail(txn[p].todo) \in Seq(Locks) BY <1>1, Split
<1> DEFINE left == Tail(txn[p].todo)
           held == txn[p].holds \union {Head(txn[p].todo)}
<1> DEFINE t == [txn[p] EXCEPT !.todo = left, !.holds = held]
<1>3. held \in SUBSET Locks BY <1>1, <1>2 DEF Txn
<1>4. txn' = [txn EXCEPT ![p] = t] BY DEF Acquire
<1>5. left = Tail(txn[p].todo) /\ held = txn[p].holds \union {Head(txn[p].todo)} OBVIOUS
<1>a. t = [txn[p] EXCEPT !.todo = left, !.holds = held] OBVIOUS
<1> HIDE DEF left, held, t
<1>6. t = [pc |-> txn[p].pc, req |-> txn[p].req, load |-> txn[p].load, todo |-> left, holds |-> held, got |-> txn[p].got]
  BY <1>1, <1>a, Queued
<1>7. t \in Txn BY <1>1, <1>2, <1>3, <1>5, <1>6 DEF Txn
<1>8. /\ txn' \in [Proc -> Txn] /\ txn'[p] = t
      /\ \A q \in Proc \ {p} : txn'[q] = txn[q]
  BY <1>4, <1>7, Replaced DEF Shape, TxnsOK
<1>9. Busy(p) BY <1>1, QuietTxn DEF Shape, TxnsOK, Busy
<1>10. UNCHANGED <<db, page, answer, calls, changes>> BY DEF Acquire
<1>11. \A q \in Proc \ {p} : \A h \in txn[q].holds : ~Conflict(Head(txn[p].todo), h)
  BY <1>1 DEF Acquire, WaitsFor
<1> QED BY <1>1, <1>5, <1>6, <1>8, <1>9, <1>10, <1>11

LEMMA CheckFacts ==
  ASSUME Shape, NEW p \in Proc, Check(p)
  PROVE  /\ UNCHANGED <<db, page, calls, changes>>
         /\ txn[p].pc = "check" /\ txn[p].todo = <<>>
         /\ \/ \E how \in How : /\ Ended(p, how)
                                /\ how \in {"conflict", "refused", "duplicate"} =>
                                     ledger[txn[p].req] # txn[p].load
            \/ /\ ledger[txn[p].req] = None /\ Acceptable(txn[p].load)
               /\ UNCHANGED answer
               /\ txn' \in [Proc -> Txn]
               /\ \A q \in Proc \ {p} : txn'[q] = txn[q]
               /\ txn'[p] = [pc |-> "write", req |-> txn[p].req, load |-> txn[p].load,
                             todo |-> WriteLocks(txn[p].req, txn[p].load), holds |-> txn[p].holds,
                             got |-> txn[p].got]
<1> DEFINE r == txn[p].req
           load == txn[p].load
<1>1. txn[p].pc = "check" /\ txn[p].todo = <<>> BY DEF Check, At
<1>2. txn[p] \in Txn /\ SentBy(r, load) BY <1>1 DEF Shape, TxnsOK, Busy
<1>3. UNCHANGED <<db, page, calls, changes>> BY DEF Check
<1>4. CASE ~Authorised(r, load) /\ Ended(p, "forbidden") BY <1>1, <1>3, <1>4 DEF How
<1>5. CASE ledger[r] # None /\ Ended(p, IF ledger[r] = load THEN "replayed" ELSE "conflict")
  <2>1. CASE ledger[r] = load BY <1>1, <1>3, <1>5, <2>1 DEF How
  <2>2. CASE ledger[r] # load BY <1>1, <1>3, <1>5, <2>2 DEF How
  <2> QED BY <2>1, <2>2
<1>6. CASE ledger[r] = None /\ Ended(p, "refused")
  <2>1. load # None BY <1>2, RegistryAssumption DEF SentBy
  <2> QED BY <1>1, <1>3, <1>6, <2>1 DEF How
<1>7. CASE /\ ledger[r] = None /\ Acceptable(load)
           /\ txn' = [txn EXCEPT ![p] = [txn[p] EXCEPT !.pc = "write", !.todo = WriteLocks(r, load)]]
           /\ UNCHANGED answer
  <2> DEFINE left == WriteLocks(r, load)
             t == [txn[p] EXCEPT !.pc = "write", !.todo = left]
  <2>1. left \in Seq(Locks) BY <1>2, SecondFacts DEF SentBy, Shape
  <2>2. txn' = [txn EXCEPT ![p] = t] BY <1>7
  <2>3. left = WriteLocks(r, load) OBVIOUS
  <2>a. t = [txn[p] EXCEPT !.pc = "write", !.todo = left] OBVIOUS
  <2> HIDE DEF left, t
  <2>4. t = [pc |-> "write", req |-> txn[p].req, load |-> txn[p].load, todo |-> left,
             holds |-> txn[p].holds, got |-> txn[p].got]
    BY <1>2, <2>a, Deciding
  <2>5. t \in Txn BY <1>2, <2>1, <2>4 DEF Txn
  <2>6. /\ txn' \in [Proc -> Txn] /\ txn'[p] = t
        /\ \A q \in Proc \ {p} : txn'[q] = txn[q]
    BY <2>2, <2>5, Replaced DEF Shape, TxnsOK
  <2> QED BY <1>1, <1>3, <1>7, <2>3, <2>4, <2>6
<1> QED BY <1>4, <1>5, <1>6, <1>7 DEF Check

LEMMA WriteFacts ==
  ASSUME Shape, NEW p \in Proc, Write(p)
  PROVE  /\ UNCHANGED <<db, page, calls, changes>>
         /\ txn[p].pc = "write" /\ txn[p].todo = <<>>
         /\ \/ \E how \in {"duplicate", "refused"} : Ended(p, how)
            \/ /\ UNCHANGED answer
               /\ txn' \in [Proc -> Txn]
               /\ \A q \in Proc \ {p} : txn'[q] = txn[q]
               /\ \E got :
                    /\ txn'[p] = [pc |-> "commit", req |-> txn[p].req, load |-> txn[p].load,
                                  todo |-> <<>>, holds |-> txn[p].holds, got |-> got]
                    /\ txn[p].load.kind \in DraftKind => EventFits(txn[p].load.body)
                    /\ txn[p].load.kind \in {"register", "link"} => got \subseteq Student \X Cohort
                    /\ txn[p].load.kind = "publish" /\ assignment.status = "DRAFT" =>
                         got = Members(assignment.body.cohort) /\ got = txn[p].load.targets
<1> DEFINE load == txn[p].load
           publishing == load.kind = "publish" /\ assignment.status = "DRAFT"
           targets == Members(assignment.body.cohort)
           pairs == {<<load.links[i].student, load.links[i].cohort>> : i \in DOMAIN load.links}
           got == IF load.kind = "register" THEN {<<load.student, load.cohort>>}
                  ELSE IF load.kind = "link" THEN pairs
                  ELSE IF publishing THEN targets ELSE {}
<1>1. UNCHANGED <<db, page, calls, changes>> /\ txn[p].pc = "write" /\ txn[p].todo = <<>>
  BY DEF Write, At
<1>2. txn[p] \in Txn /\ SentBy(txn[p].req, load) BY <1>1 DEF Shape, TxnsOK, Busy
<1>3. \/ \E how \in {"duplicate", "refused"} : Ended(p, how)
      \/ /\ load.kind \in DraftKind => EventFits(load.body)
         /\ publishing => Confirmed(load, targets)
         /\ txn' = [txn EXCEPT ![p] = [txn[p] EXCEPT !.pc = "commit", !.got = got]]
         /\ UNCHANGED answer
  BY DEF Write
<1>4. pairs \subseteq Student \X Cohort
  <2>1. load.links \in Seq(LinkPlan) BY <1>2 DEF SentBy, Load
  <2>2. \A i \in DOMAIN load.links : load.links[i] \in LinkPlan BY <2>1, Elements
  <2> QED BY <2>2 DEF LinkPlan
<1>5. /\ load.kind = "register" => got \subseteq Student \X Cohort
      /\ load.kind = "link" => got \subseteq Student \X Cohort
      /\ publishing => got = targets
  BY <1>2, <1>4 DEF SentBy
<1>6. targets \subseteq Student BY DEF Members
<1>7. got \subseteq Student \union (Student \X Cohort)
  <2>1. CASE load.kind \in {"register", "link"} BY <1>5, <2>1
  <2>2. CASE load.kind \notin {"register", "link"} BY <1>6, <2>2
  <2> QED BY <2>1, <2>2
<1> HIDE DEF got, pairs
<1>8. CASE \E how \in {"duplicate", "refused"} : Ended(p, how) BY <1>1, <1>8
<1>9. CASE /\ load.kind \in DraftKind => EventFits(load.body)
           /\ publishing => Confirmed(load, targets)
           /\ txn' = [txn EXCEPT ![p] = [txn[p] EXCEPT !.pc = "commit", !.got = got]]
           /\ UNCHANGED answer
  <2> DEFINE t == [txn[p] EXCEPT !.pc = "commit", !.got = got]
  <2>1. t = [txn[p] EXCEPT !.pc = "commit", !.got = got] OBVIOUS
  <2>2. txn' = [txn EXCEPT ![p] = t] BY <1>9
  <2> HIDE DEF t
  <2>3. t = [pc |-> "commit", req |-> txn[p].req, load |-> txn[p].load, todo |-> txn[p].todo,
             holds |-> txn[p].holds, got |-> got]
    BY <1>2, <2>1, Reading
  <2>4. t \in Txn BY <1>2, <1>7, <2>3 DEF Txn
  <2>5. /\ txn' \in [Proc -> Txn] /\ txn'[p] = t
        /\ \A q \in Proc \ {p} : txn'[q] = txn[q]
    BY <2>2, <2>4, Replaced DEF Shape, TxnsOK
  <2>6. txn'[p] = [pc |-> "commit", req |-> txn[p].req, load |-> txn[p].load,
                   todo |-> <<>>, holds |-> txn[p].holds, got |-> got]
    BY <1>1, <2>3, <2>5
  <2>7. publishing => got = targets /\ got = load.targets BY <1>5, <1>9 DEF Confirmed
  <2> QED BY <1>1, <1>5, <1>9, <2>5, <2>6, <2>7
<1> QED BY <1>3, <1>8, <1>9

LEMMA CommitFacts ==
  ASSUME Shape, NEW p \in Proc, Commit(p)
  PROVE  /\ UNCHANGED <<account, event, page, calls, changes>>
         /\ txn[p].pc = "commit" /\ SentBy(txn[p].req, txn[p].load)
         /\ Ended(p, "done")
         /\ ledger' = [ledger EXCEPT ![txn[p].req] = txn[p].load]
         /\ \/ /\ txn[p].load.kind \in {"register", "link"}
               /\ enrolled' = enrolled \union txn[p].got
               /\ UNCHANGED assignment
               /\ UNCHANGED linked \/ (txn[p].load.kind = "link" /\ Link(p))
            \/ /\ txn[p].load.kind \in {"create", "update", "publish", "close"}
               /\ UNCHANGED <<linked, enrolled>>
               /\ assignment' = IF txn[p].load.kind \in DraftKind THEN Saved(txn[p].load.body)
                                ELSE IF txn[p].load.kind = "publish" THEN Published(txn[p].got) ELSE Closed
<1>1. txn[p].pc = "commit" /\ Ended(p, "done") /\ UNCHANGED <<page, calls, changes>>
      /\ ledger' = [ledger EXCEPT ![txn[p].req] = txn[p].load]
  BY DEF Commit
<1>2. SentBy(txn[p].req, txn[p].load) BY <1>1 DEF Shape, TxnsOK, Busy
<1>3. txn[p].load.kind \in Kind BY <1>2 DEF SentBy, Load
<1>e. Enrol(p) => enrolled' = enrolled \union txn[p].got /\ UNCHANGED <<account, event, assignment>>
  BY DEF Enrol
<1>4. CASE txn[p].load.kind = "register" /\ Enrol(p) /\ UNCHANGED linked
  BY <1>1, <1>2, <1>4, <1>e
<1>5. CASE txn[p].load.kind = "link" /\ Enrol(p) /\ Link(p)
  <2>1. enrolled' = enrolled \union txn[p].got /\ UNCHANGED <<account, event, assignment>> BY <1>5, <1>e
  <2>2. txn[p].load.kind = "link" /\ Link(p) BY <1>5
  <2>3. txn[p].load.kind \in {"register", "link"} BY <2>2
  <2>4. UNCHANGED <<account, event, page, calls, changes>> BY <1>1, <2>1
  <2> QED BY <1>1, <1>2, <2>1, <2>2, <2>3, <2>4
<1>6. CASE txn[p].load.kind \notin {"register", "link"} /\ Change(p)
  BY <1>1, <1>2, <1>3, <1>6 DEF Change, Kind
<1> QED BY <1>4, <1>5, <1>6 DEF Commit

\* What a commit makes of the assignment.
LEMMA ChangeFacts ==
  ASSUME Shape
  PROVE  /\ \A body : Saved(body) = [status |-> "DRAFT", version |-> assignment.version + 1, body |-> body,
                                     late |-> FALSE, targets |-> assignment.targets]
         /\ \A targets : Published(targets) =
              IF assignment.status = "DRAFT"
              THEN [status |-> "PUBLISHED", version |-> assignment.version + 1, body |-> assignment.body,
                    late |-> assignment.late, targets |-> targets]
              ELSE assignment
         /\ Closed =
              IF assignment.status = "PUBLISHED"
              THEN [status |-> "CLOSED", version |-> assignment.version + 1, body |-> assignment.body,
                    late |-> assignment.late, targets |-> assignment.targets]
              ELSE assignment
<1>1. assignment \in Assignment BY DEF Shape, TablesOK
<1>2. ASSUME NEW body
      PROVE  Saved(body) = [status |-> "DRAFT", version |-> assignment.version + 1, body |-> body,
                            late |-> FALSE, targets |-> assignment.targets]
  <2>1. PICK t : t = Saved(body) OBVIOUS
  <2>2. t = [status |-> "DRAFT", version |-> assignment.version + 1, body |-> body,
             late |-> FALSE, targets |-> assignment.targets]
    BY <1>1, <2>1 DEF Saved, Assignment
  <2> QED BY <2>1, <2>2
<1>3. ASSUME NEW targets, assignment.status = "DRAFT"
      PROVE  Published(targets) =
               [status |-> "PUBLISHED", version |-> assignment.version + 1, body |-> assignment.body,
                late |-> assignment.late, targets |-> targets]
  <2>1. PICK t : t = Published(targets) OBVIOUS
  <2>2. t = [status |-> "PUBLISHED", version |-> assignment.version + 1, body |-> assignment.body,
             late |-> assignment.late, targets |-> targets]
    BY <1>1, <1>3, <2>1 DEF Published, Assignment
  <2> QED BY <2>1, <2>2
<1>4. ASSUME assignment.status = "PUBLISHED"
      PROVE  Closed =
               [status |-> "CLOSED", version |-> assignment.version + 1, body |-> assignment.body,
                late |-> assignment.late, targets |-> assignment.targets]
  <2>1. PICK t : t = Closed OBVIOUS
  <2>2. t = [status |-> "CLOSED", version |-> assignment.version + 1, body |-> assignment.body,
             late |-> assignment.late, targets |-> assignment.targets]
    BY <1>1, <1>4, <2>1 DEF Closed, Assignment
  <2> QED BY <2>1, <2>2
<1>5. assignment.status # "DRAFT" => \A targets : Published(targets) = assignment BY DEF Published
<1>6. assignment.status # "PUBLISHED" => Closed = assignment BY DEF Closed
<1> QED BY <1>2, <1>3, <1>4, <1>5, <1>6

LEMMA AbortFacts ==
  ASSUME NEW p \in Proc, Abort(p)
  PROVE  Busy(p) /\ Ended(p, "failed") /\ UNCHANGED <<db, page, calls, changes>>
BY DEF Abort, Busy

LEMMA DueFacts ==
  ASSUME Shape, DuePasses
  PROVE  /\ assignment' = [status |-> assignment.status, version |-> assignment.version,
                           body |-> assignment.body, late |-> TRUE, targets |-> assignment.targets]
         /\ assignment.status = "DRAFT"
         /\ changes' \in Nat
         /\ UNCHANGED <<account, linked, enrolled, event, ledger, page, txn, answer, calls>>
<1>1. assignment \in Assignment /\ changes \in Nat BY DEF Shape, TablesOK, CallsOK
<1>2. assignment' = [status |-> assignment.status, version |-> assignment.version,
                     body |-> assignment.body, late |-> TRUE, targets |-> assignment.targets]
  BY <1>1 DEF DuePasses, Assignment
<1>3. changes' \in Nat BY <1>1 DEF DuePasses, OthersAct
<1> QED BY <1>2, <1>3 DEF DuePasses

-----------------------------------------------------------------------------
(* Shapes.                                                                 *)

LEMMA TablesStep == Shape /\ (\A p \in Proc : Checked(p) /\ Read(p)) /\ Next => TablesOK'
<1> SUFFICES ASSUME Shape, \A p \in Proc : Checked(p) /\ Read(p), Next PROVE TablesOK' OBVIOUS
<1>1. TablesOK BY DEF Shape
<1>2. ASSUME UNCHANGED db PROVE TablesOK' BY <1>1, <1>2 DEF TablesOK, db
<1>3. ASSUME NEW p \in Proc, Commit(p) PROVE TablesOK'
  <2> DEFINE load == txn[p].load
             r == txn[p].req
  <2>1. /\ UNCHANGED <<account, event>> /\ SentBy(r, load) /\ txn[p].pc = "commit"
        /\ ledger' = [ledger EXCEPT ![r] = load]
        /\ \/ /\ load.kind \in {"register", "link"}
              /\ enrolled' = enrolled \union txn[p].got
              /\ UNCHANGED assignment
              /\ UNCHANGED linked \/ (load.kind = "link" /\ Link(p))
           \/ /\ load.kind \in {"create", "update", "publish", "close"}
              /\ UNCHANGED <<linked, enrolled>>
              /\ assignment' = IF load.kind \in DraftKind THEN Saved(load.body)
                               ELSE IF load.kind = "publish" THEN Published(txn[p].got) ELSE Closed
    BY <1>3, CommitFacts
  <2>2. ledger' \in [Req -> Load \union {None}] BY <1>1, <2>1 DEF TablesOK, SentBy
  <2>3. account' \in [User -> [role : {"MEMBER", "PENDING"}, cohort : Cohort \union {None}]]
        /\ event' \in [Event -> Cohort]
    BY <1>1, <2>1 DEF TablesOK
  <2>4. CASE load.kind \in {"register", "link"}
    <3>1. UNCHANGED assignment /\ enrolled' = enrolled \union txn[p].got /\ (UNCHANGED linked \/ (load.kind = "link" /\ Link(p)))
      BY <2>1, <2>4
    <3>2. enrolled' \subseteq Student \X Cohort BY <1>1, <2>1, <2>4, <3>1 DEF TablesOK, Read
    <3>3. linked' \in [Student -> User \union {None}]
      <4>1. CASE UNCHANGED linked BY <1>1, <4>1 DEF TablesOK
      <4>2. CASE Link(p)
        <5>1. load.links \in Seq(LinkPlan) BY <2>1 DEF SentBy, Load
        <5>2. \A i \in DOMAIN load.links : load.links[i] \in LinkPlan BY <5>1, Elements
        <5>3. \A s \in LinkStudents(load) : LinkOf(load, s).user \in User
          <6> SUFFICES ASSUME NEW s \in LinkStudents(load) PROVE LinkOf(load, s).user \in User OBVIOUS
          <6>1. \E k \in Range(load.links) : k.student = s BY DEF LinkStudents, Range
          <6>2. LinkOf(load, s) \in Range(load.links) BY <6>1 DEF LinkOf
          <6> QED BY <5>2, <6>2 DEF Range, LinkPlan
        <5>4. linked' = [s \in Student |->
                IF linked[s] = None /\ s \in LinkStudents(load) THEN LinkOf(load, s).user ELSE linked[s]]
          BY <4>2 DEF Link
        <5> HIDE DEF load
        <5> QED BY <1>1, <5>3, <5>4 DEF TablesOK
      <4> QED BY <3>1, <4>1, <4>2
    <3> QED BY <1>1, <2>2, <2>3, <3>1, <3>2, <3>3 DEF TablesOK
  <2>5. CASE load.kind \in {"create", "update", "publish", "close"}
    <3>1. /\ UNCHANGED <<linked, enrolled>>
          /\ assignment' = IF load.kind \in DraftKind THEN Saved(load.body)
                           ELSE IF load.kind = "publish" THEN Published(txn[p].got) ELSE Closed
      BY <2>1, <2>5
    <3>2. assignment \in Assignment /\ assignment.version + 1 \in Nat
          /\ (assignment.status \in {"none", "DRAFT"} => assignment.targets = {})
      BY <1>1 DEF TablesOK, Assignment
    <3>3. assignment' \in Assignment /\ (assignment'.status \in {"none", "DRAFT"} => assignment'.targets = {})
      <4>1. CASE load.kind \in DraftKind
        <5>1. assignment' = [status |-> "DRAFT", version |-> assignment.version + 1, body |-> load.body,
                             late |-> FALSE, targets |-> assignment.targets]
          BY <3>1, <4>1, ChangeFacts
        <5>2. load.body \in Body BY <2>1 DEF SentBy, Load
        <5>3. assignment.status \in {"none", "DRAFT"} BY <2>1, <4>1 DEF Checked, Decided, DraftKind
        <5> QED BY <3>2, <5>1, <5>2, <5>3 DEF Assignment
      <4>2. CASE load.kind = "publish"
        <5>1. assignment' = IF assignment.status = "DRAFT"
              THEN [status |-> "PUBLISHED", version |-> assignment.version + 1, body |-> assignment.body,
                    late |-> assignment.late, targets |-> txn[p].got]
              ELSE assignment
          BY <3>1, <4>2, ChangeFacts DEF DraftKind
        <5>2. CASE assignment.status = "DRAFT"
          <6>1. txn[p].got \subseteq Student BY <2>1, <4>2, <5>2 DEF Read, Members
          <6> QED BY <3>2, <5>1, <5>2, <6>1 DEF Assignment
        <5>3. CASE assignment.status # "DRAFT" BY <3>2, <5>1, <5>3
        <5> QED BY <5>2, <5>3
      <4>3. CASE load.kind = "close"
        <5>1. assignment' = IF assignment.status = "PUBLISHED"
              THEN [status |-> "CLOSED", version |-> assignment.version + 1, body |-> assignment.body,
                    late |-> assignment.late, targets |-> assignment.targets]
              ELSE assignment
          BY <3>1, <4>3, ChangeFacts DEF DraftKind
        <5>2. CASE assignment.status = "PUBLISHED" BY <3>2, <5>1, <5>2 DEF Assignment
        <5>3. CASE assignment.status # "PUBLISHED" BY <3>2, <5>1, <5>3
        <5> QED BY <5>2, <5>3
      <4> QED BY <2>5, <4>1, <4>2, <4>3 DEF DraftKind
    <3> QED BY <1>1, <2>2, <2>3, <3>1, <3>3 DEF TablesOK
  <2> QED BY <2>1, <2>4, <2>5
<1>4. CASE ChangeAccount
  <2>1. account' \in [User -> [role : {"MEMBER", "PENDING"}, cohort : Cohort \union {None}]]
    BY <1>1, <1>4 DEF ChangeAccount, TablesOK
  <2>2. UNCHANGED <<linked, enrolled, event, assignment, ledger>> BY <1>4 DEF ChangeAccount
  <2> QED BY <1>1, <2>1, <2>2 DEF TablesOK
<1>5. CASE MoveEvent
  <2>1. event' \in [Event -> Cohort] BY <1>1, <1>5 DEF MoveEvent, TablesOK
  <2>2. UNCHANGED <<account, linked, enrolled, assignment, ledger>> BY <1>5 DEF MoveEvent
  <2> QED BY <1>1, <2>1, <2>2 DEF TablesOK
<1>6. CASE DuePasses
  <2>1. /\ assignment' = [status |-> assignment.status, version |-> assignment.version,
                           body |-> assignment.body, late |-> TRUE, targets |-> assignment.targets]
        /\ UNCHANGED <<account, linked, enrolled, event, ledger>>
    BY <1>6, DueFacts
  <2>2. assignment \in Assignment BY <1>1 DEF TablesOK
  <2>3. assignment' \in Assignment /\ assignment'.status = assignment.status /\ assignment'.targets = assignment.targets
    BY <2>1, <2>2 DEF Assignment
  <2> QED BY <1>1, <2>1, <2>3 DEF TablesOK
<1>7. ASSUME NEW r \in Req, Open(r) PROVE UNCHANGED db BY <1>7 DEF Open
<1>8. ASSUME NEW p \in Proc, Begin(p) \/ Acquire(p) \/ Check(p) \/ Write(p) \/ Abort(p) PROVE UNCHANGED db
  BY <1>8 DEF Begin, Acquire, Check, Write, Abort
<1> QED BY <1>2, <1>3, <1>4, <1>5, <1>6, <1>7, <1>8 DEF Next

LEMMA PageSteps ==
  ASSUME CallsOK, Next
  PROVE  UNCHANGED page \/ \E r \in Req : Open(r)
<1>1. ASSUME NEW p \in Proc, Begin(p) \/ Acquire(p) \/ Check(p) \/ Write(p) \/ Commit(p) \/ Abort(p)
      PROVE  UNCHANGED page
  BY <1>1 DEF Begin, Acquire, Check, Write, Commit, Abort
<1>2. CASE ChangeAccount \/ MoveEvent \/ DuePasses BY <1>2 DEF ChangeAccount, MoveEvent, DuePasses
<1> QED BY <1>1, <1>2 DEF Next

\* A page that is open stays as it is.
LEMMA PageKept ==
  ASSUME CallsOK, Next
  PROVE  /\ \A r \in Req : page[r] # None => page'[r] = page[r]
         /\ \A r, load : SentBy(r, load) => SentBy(r, load)'
<1>1. ASSUME NEW r \in Req, page[r] # None PROVE page'[r] = page[r]
  <2>1. CASE UNCHANGED page BY <2>1
  <2>2. ASSUME NEW q \in Req, Open(q) PROVE page'[r] = page[r]
    <3>1. r # q BY <1>1, <2>2 DEF Open
    <3> QED BY <2>2, <3>1 DEF Open, CallsOK
  <2> QED BY <2>1, <2>2, PageSteps
<1> QED BY <1>1 DEF SentBy

LEMMA CallsStep == Shape /\ Next => CallsOK'
<1> SUFFICES ASSUME Shape, Next PROVE CallsOK' OBVIOUS
<1>1. CallsOK BY DEF Shape
<1>2. ASSUME NEW p \in Proc, NEW how \in How, Ended(p, how), UNCHANGED <<page, calls, changes>> PROVE CallsOK'
  BY <1>1, <1>2, EndedFacts DEF CallsOK
<1>3. ASSUME UNCHANGED <<page, answer, calls, changes>> PROVE CallsOK' BY <1>1, <1>3 DEF CallsOK
<1>4. ASSUME NEW r \in Req, Open(r) PROVE CallsOK'
  <2> DEFINE sheet == [version |-> assignment.version, body |-> assignment.body,
                       targets |-> Members(assignment.body.cohort)]
  <2>1. sheet \in Sheet BY DEF Sheet, Shape, TablesOK, Assignment, Members
  <2>2. page' = [page EXCEPT ![r] = sheet] /\ UNCHANGED <<answer, calls, changes>> BY <1>4 DEF Open
  <2> HIDE DEF sheet
  <2> QED BY <1>1, <2>1, <2>2 DEF CallsOK
<1>5. ASSUME NEW p \in Proc, Begin(p) PROVE CallsOK'
  <2>1. PICK r \in Req : calls[r] > 0 /\ calls' = [calls EXCEPT ![r] = @ - 1] BY <1>5, BeginFacts
  <2>2. UNCHANGED <<page, answer, changes>> BY <1>5, BeginFacts
  <2>3. calls[r] \in Nat BY <1>1 DEF CallsOK
  <2>4. calls[r] - 1 \in Nat BY <2>1, <2>3
  <2>5. calls' \in [Req -> Nat] BY <1>1, <2>1, <2>4 DEF CallsOK
  <2> QED BY <1>1, <2>2, <2>5 DEF CallsOK
<1>6. ASSUME NEW p \in Proc, Acquire(p) PROVE CallsOK' BY <1>3, <1>6, AcquireFacts
<1>7. ASSUME NEW p \in Proc, Check(p) PROVE CallsOK'
  <2>1. UNCHANGED <<page, calls, changes>> /\ (UNCHANGED answer \/ \E how \in How : Ended(p, how))
    BY <1>7, CheckFacts
  <2> QED BY <1>2, <1>3, <2>1
<1>8. ASSUME NEW p \in Proc, Write(p) PROVE CallsOK'
  <2>1. UNCHANGED <<page, calls, changes>> /\ (UNCHANGED answer \/ \E how \in How : Ended(p, how))
    BY <1>8, WriteFacts DEF How
  <2> QED BY <1>2, <1>3, <2>1
<1>9. ASSUME NEW p \in Proc, Commit(p) PROVE CallsOK'
  <2>1. UNCHANGED <<page, calls, changes>> /\ Ended(p, "done") /\ "done" \in How BY <1>9, CommitFacts DEF How
  <2> QED BY <1>2, <2>1
<1>10. ASSUME NEW p \in Proc, Abort(p) PROVE CallsOK'
  <2>1. UNCHANGED <<page, calls, changes>> /\ Ended(p, "failed") /\ "failed" \in How BY <1>10, AbortFacts DEF How
  <2> QED BY <1>2, <2>1
<1>11. CASE ChangeAccount \/ MoveEvent \/ DuePasses
  <2>1. UNCHANGED <<page, answer, calls>> /\ OthersAct BY <1>11 DEF ChangeAccount, MoveEvent, DuePasses
  <2>2. changes' \in Nat BY <1>1, <2>1 DEF OthersAct, CallsOK
  <2> QED BY <1>1, <2>1, <2>2 DEF CallsOK
<1> QED BY <1>4, <1>5, <1>6, <1>7, <1>8, <1>9, <1>10, <1>11 DEF Next

\* How a call that makes a step goes on.
LEMMA CallGoesOn ==
  ASSUME Shape, NEW p \in Proc,
         Begin(p) \/ Acquire(p) \/ Check(p) \/ Write(p) \/ Commit(p) \/ Abort(p)
  PROVE  /\ txn' \in [Proc -> Txn]
         /\ \A q \in Proc \ {p} : txn'[q] = txn[q]
         /\ \/ txn'[p] = Quiet
            \/ ~Busy(p) /\ Busy(p)' /\ SentBy(txn'[p].req, txn'[p].load)
            \/ Busy(p) /\ Busy(p)' /\ txn'[p].req = txn[p].req /\ txn'[p].load = txn[p].load
<1>1. CASE Begin(p)
  <2>1. txn' \in [Proc -> Txn] /\ ~Busy(p) /\ \A q \in Proc \ {p} : txn'[q] = txn[q] BY <1>1, BeginFacts
  <2>2. PICK r \in Req, load \in Load :
          /\ SentBy(r, load)
          /\ txn'[p] = [pc |-> "check", req |-> r, load |-> load, todo |-> FirstLocks(r, load),
                        holds |-> {}, got |-> {}]
    BY <1>1, BeginFacts
  <2>3. txn'[p].pc = "check" /\ txn'[p].req = r /\ txn'[p].load = load BY <2>2
  <2> QED BY <2>1, <2>2, <2>3 DEF Busy
<1>2. CASE Acquire(p) BY <1>2, AcquireFacts DEF Busy
<1>3. CASE Check(p)
  <2>1. CASE \E how \in How : Ended(p, how) BY <2>1, EndedFacts
  <2>2. CASE ~\E how \in How : Ended(p, how)
    <3>1. /\ txn[p].pc = "check" /\ txn' \in [Proc -> Txn] /\ \A q \in Proc \ {p} : txn'[q] = txn[q]
          /\ txn'[p] = [pc |-> "write", req |-> txn[p].req, load |-> txn[p].load,
                        todo |-> WriteLocks(txn[p].req, txn[p].load), holds |-> txn[p].holds,
                        got |-> txn[p].got]
      BY <1>3, <2>2, CheckFacts
    <3>2. txn'[p].pc = "write" /\ txn'[p].req = txn[p].req /\ txn'[p].load = txn[p].load BY <3>1
    <3> QED BY <3>1, <3>2 DEF Busy
  <2> QED BY <2>1, <2>2
<1>4. CASE Write(p)
  <2>1. CASE \E how \in {"duplicate", "refused"} : Ended(p, how) BY <2>1, EndedFacts DEF How
  <2>2. CASE ~\E how \in {"duplicate", "refused"} : Ended(p, how)
    <3>1. txn' \in [Proc -> Txn] /\ \A q \in Proc \ {p} : txn'[q] = txn[q] BY <1>4, <2>2, WriteFacts
    <3>2. \E got : txn'[p] = [pc |-> "commit", req |-> txn[p].req, load |-> txn[p].load,
                              todo |-> <<>>, holds |-> txn[p].holds, got |-> got]
      BY <1>4, <2>2, WriteFacts
    <3>3. txn'[p].pc = "commit" /\ txn'[p].req = txn[p].req /\ txn'[p].load = txn[p].load BY <3>2
    <3>4. txn[p].pc = "write" BY <1>4, WriteFacts
    <3> QED BY <3>1, <3>3, <3>4 DEF Busy
  <2> QED BY <2>1, <2>2
<1>5. CASE Commit(p)
  <2>1. Ended(p, "done") /\ "done" \in How BY <1>5, CommitFacts DEF How
  <2> QED BY <2>1, EndedFacts
<1>6. CASE Abort(p)
  <2>1. Ended(p, "failed") /\ "failed" \in How BY <1>6, AbortFacts DEF How
  <2> QED BY <2>1, EndedFacts
<1> QED BY <1>1, <1>2, <1>3, <1>4, <1>5, <1>6

\* Steps that are no call's leave the calls alone.
LEMMA CallSteps ==
  ASSUME Next
  PROVE  \/ UNCHANGED <<txn, answer>>
         \/ \E p \in Proc : Begin(p) \/ Acquire(p) \/ Check(p) \/ Write(p) \/ Commit(p) \/ Abort(p)
<1>1. ASSUME NEW r \in Req, Open(r) PROVE UNCHANGED <<txn, answer>> BY <1>1 DEF Open
<1>2. CASE ChangeAccount \/ MoveEvent \/ DuePasses
  BY <1>2 DEF ChangeAccount, MoveEvent, DuePasses
<1> QED BY <1>1, <1>2 DEF Next

LEMMA TxnsStep == Shape /\ Next => TxnsOK'
<1> SUFFICES ASSUME Shape, Next PROVE TxnsOK' OBVIOUS
<1>1. \A r, load : SentBy(r, load) => SentBy(r, load)' BY PageKept DEF Shape
<1>2. TxnsOK BY DEF Shape
<1>3. ASSUME NEW q \in Proc, Busy(q)', SentBy(txn'[q].req, txn'[q].load)
      PROVE  SentBy(txn[q].req, txn[q].load)'
  <2>1. PICK r, load : r = txn'[q].req /\ load = txn'[q].load OBVIOUS
  <2>2. SentBy(r, load)' BY <1>1, <1>3, <2>1
  <2> QED BY <2>1, <2>2 DEF SentBy
<1>4. ASSUME NEW q \in Proc, txn'[q] = txn[q]
      PROVE  (IF Busy(q) THEN SentBy(txn[q].req, txn[q].load) ELSE txn[q] = Quiet)'
  <2>1. IF Busy(q) THEN SentBy(txn[q].req, txn[q].load) ELSE txn[q] = Quiet BY <1>2 DEF TxnsOK
  <2>2. Busy(q)' <=> Busy(q) BY <1>4 DEF Busy
  <2>3. CASE Busy(q)
    <3>1. SentBy(txn'[q].req, txn'[q].load) BY <1>4, <2>1, <2>3
    <3> QED BY <1>3, <2>2, <2>3, <3>1
  <2>4. CASE ~Busy(q)
    <3>1. txn'[q] = Quiet BY <1>4, <2>1, <2>4
    <3> QED BY <2>2, <2>4, <3>1 DEF Quiet
  <2> QED BY <2>3, <2>4
<1>5. CASE UNCHANGED <<txn, answer>> BY <1>2, <1>4, <1>5 DEF TxnsOK
<1>6. ASSUME NEW p \in Proc, Begin(p) \/ Acquire(p) \/ Check(p) \/ Write(p) \/ Commit(p) \/ Abort(p)
      PROVE  TxnsOK'
  <2>1. /\ txn' \in [Proc -> Txn]
        /\ \A q \in Proc \ {p} : txn'[q] = txn[q]
        /\ \/ txn'[p] = Quiet
           \/ ~Busy(p) /\ Busy(p)' /\ SentBy(txn'[p].req, txn'[p].load)
           \/ Busy(p) /\ Busy(p)' /\ txn'[p].req = txn[p].req /\ txn'[p].load = txn[p].load
    BY <1>6, CallGoesOn
  <2>2. CASE txn'[p] = Quiet
    <3>1. ~Busy(p)' BY <2>2, QuietTxn DEF Busy
    <3>2. (IF Busy(p) THEN SentBy(txn[p].req, txn[p].load) ELSE txn[p] = Quiet)'
      BY <2>2, <3>1 DEF Quiet
    <3> QED BY <1>4, <2>1, <3>2 DEF TxnsOK
  <2>3. CASE txn'[p] # Quiet
    <3>1. Busy(p)' /\ SentBy(txn'[p].req, txn'[p].load)
      BY <1>2, <2>1, <2>3 DEF TxnsOK
    <3>2. (IF Busy(p) THEN SentBy(txn[p].req, txn[p].load) ELSE txn[p] = Quiet)' BY <1>3, <3>1
    <3> QED BY <1>4, <2>1, <3>2 DEF TxnsOK
  <2> QED BY <2>2, <2>3
<1> QED BY <1>5, <1>6, CallSteps

-----------------------------------------------------------------------------
(* Locks.                                                                  *)

LEMMA ApartStep == Shape /\ Apart /\ Next => Apart'
<1> SUFFICES ASSUME Shape, Apart, Next PROVE Apart' OBVIOUS
<1>1. \A l, m : Conflict(l, m) => Conflict(m, l) BY DEF Conflict
<1>2. ASSUME \A q \in Proc : txn'[q].holds \subseteq txn[q].holds PROVE Apart'
  <2> SUFFICES ASSUME NEW p \in Proc, NEW q \in Proc, p # q,
                      NEW h \in txn'[p].holds, NEW l \in txn'[q].holds
               PROVE  ~Conflict(h, l)
    BY DEF Apart, Conflict
  <2> QED BY <1>2 DEF Apart
<1>3. CASE UNCHANGED <<txn, answer>> BY <1>2, <1>3
<1>4. ASSUME NEW p \in Proc, Begin(p) \/ Check(p) \/ Write(p) \/ Commit(p) \/ Abort(p) PROVE Apart'
  <2>1. \A q \in Proc \ {p} : txn'[q] = txn[q] BY <1>4, CallGoesOn
  <2>2. txn'[p].holds \subseteq txn[p].holds
    <3>1. CASE txn'[p] = Quiet BY <3>1, QuietTxn
    <3>2. CASE txn'[p] # Quiet
      <4>1. ASSUME NEW how \in How, Ended(p, how) PROVE FALSE BY <3>2, <4>1, EndedFacts
      <4>2. CASE Begin(p)
        <5>1. \E r, load : txn'[p] = [pc |-> "check", req |-> r, load |-> load, todo |-> FirstLocks(r, load),
                                      holds |-> {}, got |-> {}]
          BY <4>2, BeginFacts
        <5>2. txn'[p].holds = {} BY <5>1
        <5> QED BY <5>2
      <4>3. CASE Check(p)
        <5>1. txn'[p] = [pc |-> "write", req |-> txn[p].req, load |-> txn[p].load,
                         todo |-> WriteLocks(txn[p].req, txn[p].load), holds |-> txn[p].holds,
                         got |-> txn[p].got]
          BY <4>1, <4>3, CheckFacts
        <5> QED BY <5>1
      <4>4. CASE Write(p)
        <5>1. "duplicate" \in How /\ "refused" \in How BY DEF How
        <5>2. \E got : txn'[p] = [pc |-> "commit", req |-> txn[p].req, load |-> txn[p].load,
                                  todo |-> <<>>, holds |-> txn[p].holds, got |-> got]
          BY <4>1, <4>4, <5>1, WriteFacts
        <5> QED BY <5>2
      <4>5. CASE Commit(p) BY <4>1, <4>5, CommitFacts DEF How
      <4>6. CASE Abort(p) BY <4>1, <4>6, AbortFacts DEF How
      <4> QED BY <1>4, <4>2, <4>3, <4>4, <4>5, <4>6
    <3> QED BY <3>1, <3>2
  <2> QED BY <1>2, <2>1, <2>2
<1>5. ASSUME NEW p \in Proc, Acquire(p) PROVE Apart'
  <2>1. /\ \A q \in Proc \ {p} : txn'[q] = txn[q]
        /\ txn'[p].holds = txn[p].holds \union {Head(txn[p].todo)}
        /\ \A q \in Proc \ {p} : \A h \in txn[q].holds : ~Conflict(Head(txn[p].todo), h)
    BY <1>5, AcquireFacts
  <2> SUFFICES ASSUME NEW q \in Proc, NEW s \in Proc, q # s,
                      NEW h \in txn'[q].holds, NEW l \in txn'[s].holds
               PROVE  ~Conflict(h, l)
    BY DEF Apart, Conflict
  <2>2. CASE q # p /\ s # p BY <2>1, <2>2 DEF Apart
  <2>3. CASE q = p
    <3>1. s # p /\ l \in txn[s].holds BY <2>1, <2>3
    <3>2. CASE h \in txn[p].holds BY <2>3, <3>1, <3>2 DEF Apart
    <3>3. CASE h = Head(txn[p].todo) BY <2>1, <3>1, <3>3
    <3> QED BY <2>1, <2>3, <3>2, <3>3
  <2>4. CASE s = p
    <3>1. q # p /\ h \in txn[q].holds BY <2>1, <2>4
    <3>2. CASE l \in txn[p].holds BY <2>4, <3>1, <3>2 DEF Apart
    <3>3. CASE l = Head(txn[p].todo) BY <1>1, <2>1, <3>1, <3>3
    <3> QED BY <2>1, <2>4, <3>2, <3>3
  <2> QED BY <2>2, <2>3, <2>4
<1> QED BY <1>3, <1>4, <1>5, CallSteps

\* Two calls that have decided are about different requests, only one of them
\* changes the assignment, and none commits enrolments under a publication.
LEMMA Alone ==
  ASSUME IInv, NEW p \in Proc, NEW q \in Proc, p # q, Decided(p), Decided(q)
  PROVE  /\ txn[p].req # txn[q].req
         /\ txn[p].load.kind \in {"update", "publish", "close"} =>
              txn[q].load.kind \notin {"update", "publish", "close"}
         /\ txn[p].pc = "commit" /\ txn[q].pc = "commit" /\ txn[p].load.kind \in {"register", "link"} =>
              ~(txn[q].load.kind = "publish" /\ assignment.status = "DRAFT")
<1>1. \A h \in txn[p].holds : \A l \in txn[q].holds : ~Conflict(h, l) BY DEF IInv, Apart
<1>2. /\ First(p) \subseteq txn[p].holds /\ First(q) \subseteq txn[q].holds
  BY DEF IInv, Armed
<1>3. ASSUME NEW s \in Proc, txn[s].pc = "commit" PROVE Second(s) \subseteq txn[s].holds
  <2>1. txn[s].todo = <<>> /\ Second(s) \subseteq Taken(s) BY <1>3 DEF IInv, Armed, Decided
  <2>2. ToSet(<<>>) = {} BY DEF ToSet
  <2> QED BY <2>1, <2>2 DEF Taken
<1>4. txn[p].req # txn[q].req
  <2> SUFFICES ASSUME txn[p].req = txn[q].req PROVE FALSE OBVIOUS
  <2>1. Lock("request", txn[p].req, "X") \in First(p) /\ Lock("request", txn[p].req, "X") \in First(q)
    BY DEF First, FirstOf
  <2>2. Conflict(Lock("request", txn[p].req, "X"), Lock("request", txn[p].req, "X")) BY DEF Conflict, Lock
  <2> QED BY <1>1, <1>2, <2>1, <2>2
<1>5. ~(/\ txn[p].load.kind \in {"update", "publish", "close"}
        /\ txn[q].load.kind \in {"update", "publish", "close"})
  <2> SUFFICES ASSUME txn[p].load.kind \in {"update", "publish", "close"},
                      txn[q].load.kind \in {"update", "publish", "close"}
               PROVE FALSE
    OBVIOUS
  <2>1. Lock("assignment", None, "X") \in First(p) /\ Lock("assignment", None, "X") \in First(q)
    BY DEF First, FirstOf
  <2>2. Conflict(Lock("assignment", None, "X"), Lock("assignment", None, "X")) BY DEF Conflict, Lock
  <2> QED BY <1>1, <1>2, <2>1, <2>2
<1>6. ~(/\ txn[p].pc = "commit" /\ txn[q].pc = "commit" /\ txn[p].load.kind \in {"register", "link"}
        /\ txn[q].load.kind = "publish" /\ assignment.status = "DRAFT")
  <2> SUFFICES ASSUME txn[p].pc = "commit", txn[q].pc = "commit", txn[p].load.kind \in {"register", "link"},
                      txn[q].load.kind = "publish", assignment.status = "DRAFT"
               PROVE FALSE
    OBVIOUS
  <2>1. Lock("roster", None, "W") \in Second(p) /\ Lock("roster", None, "S") \in Second(q)
    BY DEF Second, SecondOf
  <2>2. Conflict(Lock("roster", None, "W"), Lock("roster", None, "S")) BY DEF Conflict, Lock
  <2> QED BY <1>1, <1>3, <2>1, <2>2
<1> QED BY <1>4, <1>5, <1>6

\* While a call changes the assignment, whoever else has decided enrols.
LEMMA ChangesAlone ==
  ASSUME IInv, NEW p \in Proc, NEW q \in Proc, p # q, txn[p].pc = "commit", Decided(q),
         txn[p].load.kind \in {"create", "update", "publish", "close"}
  PROVE  txn[q].load.kind \in {"register", "link"}
<1>1. Decided(p) /\ Busy(p) /\ Busy(q) BY DEF Decided, Busy
<1>2. SentBy(txn[p].req, txn[p].load) /\ SentBy(txn[q].req, txn[q].load)
  BY <1>1 DEF IInv, Shape, TxnsOK
<1>3. txn[q].load.kind \in Kind BY <1>2 DEF SentBy, Load
<1>4. Checked(p) /\ Checked(q) BY DEF IInv
<1>5. CASE txn[p].load.kind = "create" /\ txn[q].load.kind = "create"
  <2>1. txn[p].req \in Req /\ txn[q].req \in Req BY <1>2 DEF SentBy
  <2>2. Creator(txn[p].req) /\ Creator(txn[q].req) BY <1>1, <1>5 DEF Creator
  <2>3. txn[p].req = txn[q].req BY <2>1, <2>2 DEF IInv, Created
  <2> QED BY <1>1, <2>3, Alone
<1>6. CASE txn[p].load.kind = "create" /\ txn[q].load.kind \in {"update", "publish", "close"}
  BY <1>1, <1>4, <1>6 DEF Checked
<1>7. CASE txn[q].load.kind = "create" /\ txn[p].load.kind \in {"update", "publish", "close"}
  BY <1>1, <1>4, <1>7 DEF Checked
<1>8. CASE txn[p].load.kind \in {"update", "publish", "close"} /\ txn[q].load.kind \in {"update", "publish", "close"}
  BY <1>1, <1>8, Alone
<1> QED BY <1>3, <1>5, <1>6, <1>7, <1>8 DEF Kind

-----------------------------------------------------------------------------
(* What a call relies on stays true while others go on.                    *)

LEMMA DbSteps ==
  ASSUME Next
  PROVE  UNCHANGED db \/ (\E p \in Proc : Commit(p)) \/ ChangeAccount \/ MoveEvent \/ DuePasses
<1>1. ASSUME NEW r \in Req, Open(r) PROVE UNCHANGED db BY <1>1 DEF Open
<1>2. ASSUME NEW p \in Proc, Begin(p) \/ Acquire(p) \/ Check(p) \/ Write(p) \/ Abort(p) PROVE UNCHANGED db
  BY <1>2 DEF Begin, Acquire, Check, Write, Abort
<1> QED BY <1>1, <1>2 DEF Next

LEMMA CommitHolds ==
  ASSUME IInv, NEW q \in Proc, txn[q].pc = "commit"
  PROVE  Second(q) \subseteq txn[q].holds
<1>1. txn[q].todo = <<>> /\ Second(q) \subseteq Taken(q) BY DEF IInv, Armed, Decided
<1>2. ToSet(<<>>) = {} BY DEF ToSet
<1> QED BY <1>1, <1>2 DEF Taken

LEMMA ArmedKept ==
  ASSUME NEW q \in Proc, Armed(q), txn'[q] = txn[q],
         Decided(q) /\ txn[q].load.kind = "publish" => assignment'.status = assignment.status
  PROVE  Armed(q)'
<1>1. First(q)' = First(q) BY DEF First, FirstOf
<1>2. Decided(q) => Second(q)' = Second(q) BY DEF Second, SecondOf
<1>3. Taken(q)' = Taken(q) BY DEF Taken
<1> QED BY <1>1, <1>2, <1>3 DEF Armed, Decided

LEMMA Kept ==
  ASSUME IInv, Next, NEW q \in Proc, Busy(q), txn'[q] = txn[q]
  PROVE  Armed(q)' /\ Checked(q)' /\ Read(q)'
<1>1. Armed(q) /\ Checked(q) /\ Read(q) BY DEF IInv
<1>2. SentBy(txn[q].req, txn[q].load) BY DEF IInv, Shape, TxnsOK
<1>3. CASE UNCHANGED db
  <2>1. UNCHANGED <<account, event, assignment, ledger, enrolled>> BY <1>3 DEF db
  <2>2. Armed(q)' BY <1>1, <2>1, ArmedKept
  <2>3. Checked(q)' BY <1>1, <2>1 DEF Checked, Decided
  <2>4. Read(q)' BY <1>1, <2>1 DEF Read, EventFits, Members
  <2> QED BY <2>2, <2>3, <2>4
<1>4. ASSUME NEW p \in Proc, Commit(p) PROVE Armed(q)' /\ Checked(q)' /\ Read(q)'
  <2>1. p # q /\ txn[p].pc = "commit"
    <3>1. Ended(p, "done") /\ "done" \in How /\ txn[p].pc = "commit" BY <1>4, CommitFacts DEF How, IInv
    <3>2. txn'[p] = Quiet BY <3>1, EndedFacts DEF IInv
    <3> QED BY <3>1, <3>2, QuietTxn DEF Busy
  <2>2. UNCHANGED <<account, event>> /\ ledger' = [ledger EXCEPT ![txn[p].req] = txn[p].load]
    BY <1>4, CommitFacts DEF IInv
  <2>3. Decided(q) => ledger'[txn[q].req] = ledger[txn[q].req]
    <3>1. SUFFICES ASSUME Decided(q) PROVE ledger'[txn[q].req] = ledger[txn[q].req] OBVIOUS
    <3>2. txn[p].req # txn[q].req BY <2>1, <3>1, Alone DEF Decided
    <3>3. ledger \in [Req -> Load \union {None}] /\ txn[q].req \in Req BY <1>2 DEF IInv, Shape, TablesOK, SentBy
    <3> QED BY <2>2, <3>2, <3>3
  <2>4. CASE /\ txn[p].load.kind \in {"register", "link"}
             /\ UNCHANGED assignment
    <3>1. Armed(q)' BY <1>1, <2>4, ArmedKept
    <3>2. Checked(q)' BY <1>1, <2>2, <2>3, <2>4 DEF Checked, Decided
    <3>3. txn[q].pc = "commit" => ~(txn[q].load.kind = "publish" /\ assignment.status = "DRAFT")
      BY <2>1, <2>4, Alone DEF Decided
    <3>4. Read(q)' BY <1>1, <2>2, <2>4, <3>3 DEF Read, EventFits
    <3> QED BY <3>1, <3>2, <3>4
  <2>5. CASE txn[p].load.kind \in {"create", "update", "publish", "close"}
    <3>1. Decided(q) => txn[q].load.kind \in {"register", "link"} BY <2>1, <2>5, ChangesAlone
    <3>2. Armed(q)' BY <1>1, <3>1, ArmedKept
    <3>3. Checked(q)' BY <1>1, <2>2, <2>3, <3>1 DEF Checked, Decided
    <3>4. Read(q)' BY <1>1, <2>2, <3>1 DEF Read, Decided, DraftKind
    <3> QED BY <3>2, <3>3, <3>4
  <2> QED BY <1>4, <2>4, <2>5, CommitFacts DEF IInv
<1>5. CASE ChangeAccount
  <2>1. UNCHANGED <<linked, enrolled, event, assignment, ledger>> BY <1>5 DEF ChangeAccount
  <2>2. Armed(q)' BY <1>1, <2>1, ArmedKept
  <2>3. Read(q)' BY <1>1, <2>1 DEF Read, EventFits, Members
  <2>4. ASSUME Decided(q), txn[q].load.kind = "link", NEW i \in DOMAIN txn[q].load.links
        PROVE  account'[txn[q].load.links[i].user] = account[txn[q].load.links[i].user]
    <3> DEFINE u == txn[q].load.links[i].user
    <3>1. Lock("user", u, "X") \in txn[q].holds BY <1>1, <2>4 DEF Armed, First, FirstOf
    <3>2. account \in [User -> [role : {"MEMBER", "PENDING"}, cohort : Cohort \union {None}]]
      BY DEF IInv, Shape, TablesOK
    <3>3. PICK w \in User : \E role, c :
            /\ \A p \in Proc : Lock("user", w, "X") \notin txn[p].holds
            /\ account' = [account EXCEPT ![w] = [role |-> role, cohort |-> c]]
      BY <1>5 DEF ChangeAccount
    <3>4. w # u BY <3>1, <3>3
    <3>5. u \in User
      <4>1. txn[q].load.links \in Seq(LinkPlan) BY <1>2 DEF SentBy, Load
      <4>2. txn[q].load.links[i] \in LinkPlan BY <4>1, Elements
      <4> QED BY <4>2 DEF LinkPlan
    <3> HIDE DEF u
    <3>6. account'[u] = account[u]
      <4>1. PICK role, c : account' = [account EXCEPT ![w] = [role |-> role, cohort |-> c]] BY <3>3
      <4> QED BY <3>2, <3>4, <3>5, <4>1
    <3> QED BY <3>6 DEF u
  <2>5. Checked(q)' BY <1>1, <2>1, <2>4 DEF Checked, Decided
  <2> QED BY <2>2, <2>3, <2>5
<1>6. CASE MoveEvent
  <2>1. UNCHANGED <<account, linked, enrolled, assignment, ledger>> BY <1>6 DEF MoveEvent
  <2>2. Armed(q)' BY <1>1, <2>1, ArmedKept
  <2>3. Checked(q)' BY <1>1, <2>1 DEF Checked, Decided
  <2>4. ASSUME txn[q].pc = "commit", txn[q].load.kind \in DraftKind PROVE EventFits(txn[q].load.body)'
    <3> DEFINE body == txn[q].load.body
    <3> SUFFICES ASSUME body.event # None PROVE event'[body.event] = body.cohort
      BY <1>1 DEF EventFits
    <3>1. event[body.event] = body.cohort BY <1>1, <2>4 DEF Read, EventFits
    <3>2. Lock("event", body.event, "K") \in txn[q].holds
      BY <2>4, CommitHolds DEF Second, SecondOf
    <3>3. PICK e \in Event, c \in Cohort : Unlocked("event", e) /\ event' = [event EXCEPT ![e] = c]
      BY <1>6 DEF MoveEvent
    <3>4. e # body.event
      <4>1. Conflict(Lock("event", body.event, "K"), Lock("event", body.event, "X")) BY DEF Conflict, Lock
      <4> QED BY <3>2, <3>3, <4>1 DEF Unlocked
    <3>5. event \in [Event -> Cohort] /\ body.event \in Event
      BY <1>2 DEF IInv, Shape, TablesOK, SentBy, Load, Body
    <3> HIDE DEF body
    <3> QED BY <3>1, <3>3, <3>4, <3>5
  <2>5. Read(q)' BY <1>1, <2>1, <2>4 DEF Read, Members
  <2> QED BY <2>2, <2>3, <2>5
<1>7. CASE DuePasses
  <2>1. /\ assignment'.status = assignment.status /\ assignment'.version = assignment.version
        /\ assignment'.body = assignment.body
        /\ UNCHANGED <<account, linked, enrolled, event, ledger>>
    <3>1. /\ assignment' = [status |-> assignment.status, version |-> assignment.version,
                            body |-> assignment.body, late |-> TRUE, targets |-> assignment.targets]
          /\ UNCHANGED <<account, linked, enrolled, event, ledger>>
      BY <1>7, DueFacts DEF IInv
    <3> QED BY <3>1
  <2>2. Armed(q)' BY <1>1, <2>1, ArmedKept
  <2>3. Checked(q)' BY <1>1, <2>1 DEF Checked, Decided
  <2>4. Read(q)' BY <1>1, <2>1 DEF Read, EventFits, Members
  <2> QED BY <2>2, <2>3, <2>4
<1> QED BY <1>3, <1>4, <1>5, <1>6, <1>7, DbSteps

LEMMA QuietSound ==
  ASSUME NEW p \in Proc, txn'[p] = Quiet
  PROVE  Armed(p)' /\ Checked(p)' /\ Read(p)'
<1>1. txn'[p].pc = "idle" BY QuietTxn
<1> QED BY <1>1 DEF Armed, Checked, Read, Decided

LEMMA EndSound ==
  ASSUME Shape, NEW p \in Proc, NEW how \in How, Ended(p, how)
  PROVE  Armed(p)' /\ Checked(p)' /\ Read(p)'
BY EndedFacts, QuietSound

LEMMA BeginSound ==
  ASSUME IInv, NEW p \in Proc, Begin(p)
  PROVE  Armed(p)' /\ Checked(p)' /\ Read(p)'
<1>1. PICK r \in Req, load \in Load :
        /\ SentBy(r, load)
        /\ txn'[p] = [pc |-> "check", req |-> r, load |-> load, todo |-> FirstLocks(r, load),
                      holds |-> {}, got |-> {}]
  BY BeginFacts DEF IInv
<1>2. FirstOf(r, load) \subseteq ToSet(FirstLocks(r, load)) BY <1>1, FirstFacts DEF SentBy
<1>3. txn'[p].pc = "check" /\ txn'[p].req = r /\ txn'[p].load = load /\ txn'[p].todo = FirstLocks(r, load)
  BY <1>1
<1>4. First(p)' \subseteq Taken(p)'
  <2>1. First(p)' = FirstOf(r, load) BY <1>3 DEF First, FirstOf
  <2>2. ToSet(FirstLocks(r, load)) \subseteq Taken(p)' BY <1>3 DEF Taken
  <2> QED BY <1>2, <2>1, <2>2
<1>5. Armed(p)' BY <1>3, <1>4 DEF Armed, Decided
<1>6. Checked(p)' /\ Read(p)' BY <1>3 DEF Checked, Read, Decided
<1> QED BY <1>5, <1>6

LEMMA AcquireSound ==
  ASSUME IInv, NEW p \in Proc, Acquire(p)
  PROVE  Armed(p)' /\ Checked(p)' /\ Read(p)'
<1>1. Armed(p) /\ Checked(p) /\ Read(p) BY DEF IInv
<1>2. /\ UNCHANGED db /\ txn[p].todo # <<>>
      /\ txn'[p].pc = txn[p].pc /\ txn'[p].req = txn[p].req /\ txn'[p].load = txn[p].load
      /\ txn'[p].got = txn[p].got
      /\ txn'[p].todo = Tail(txn[p].todo)
      /\ txn'[p].holds = txn[p].holds \union {Head(txn[p].todo)}
  BY AcquireFacts DEF IInv
<1>3. UNCHANGED <<account, event, assignment, ledger, enrolled>> BY <1>2 DEF db
<1>4. Taken(p) \subseteq Taken(p)'
  <2>1. txn[p].todo \in Seq(Locks) BY DEF IInv, Shape, TxnsOK, Txn
  <2>2. ToSet(txn[p].todo) \subseteq {Head(txn[p].todo)} \union ToSet(Tail(txn[p].todo)) BY <1>2, <2>1, Split
  <2> QED BY <1>2, <2>2 DEF Taken
<1>5. First(p)' = First(p) BY <1>2 DEF First, FirstOf
<1>6. Second(p)' = Second(p) BY <1>2, <1>3 DEF Second, SecondOf
<1>7. txn[p].pc # "commit" BY <1>1, <1>2 DEF Armed
<1>8. Armed(p)' BY <1>1, <1>2, <1>4, <1>5, <1>6, <1>7 DEF Armed, Decided
<1>9. Checked(p)' BY <1>1, <1>2, <1>3 DEF Checked, Decided
<1>10. Read(p)' BY <1>2, <1>7 DEF Read
<1> QED BY <1>8, <1>9, <1>10

LEMMA CheckSound ==
  ASSUME IInv, NEW p \in Proc, Check(p)
  PROVE  Armed(p)' /\ Checked(p)' /\ Read(p)'
<1>1. CASE \E how \in How : Ended(p, how) BY <1>1, EndSound DEF IInv
<1>2. CASE ~\E how \in How : Ended(p, how)
  <2> DEFINE r == txn[p].req
             load == txn[p].load
  <2>1. /\ txn[p].pc = "check" /\ txn[p].todo = <<>>
        /\ UNCHANGED db
        /\ ledger[r] = None /\ Acceptable(load)
        /\ txn'[p] = [pc |-> "write", req |-> r, load |-> load, todo |-> WriteLocks(r, load),
                      holds |-> txn[p].holds, got |-> txn[p].got]
    BY <1>2, CheckFacts DEF IInv
  <2>2. SentBy(r, load) BY <2>1 DEF IInv, Shape, TxnsOK, Busy
  <2>3. /\ txn'[p].pc = "write" /\ txn'[p].req = r /\ txn'[p].load = load
        /\ txn'[p].todo = WriteLocks(r, load) /\ txn'[p].holds = txn[p].holds
    BY <2>1
  <2>4. UNCHANGED <<account, event, assignment, ledger, enrolled>> BY <2>1 DEF db
  <2>5. Armed(p)'
    <3>1. First(p) \subseteq txn[p].holds
      <4>1. First(p) \subseteq Taken(p) BY <2>1 DEF IInv, Armed
      <4>2. Taken(p) = txn[p].holds BY <2>1 DEF Taken, ToSet
      <4> QED BY <4>1, <4>2
    <3>2. First(p)' = First(p) BY <2>3 DEF First, FirstOf
    <3>3. SecondOf(load) \subseteq ToSet(WriteLocks(r, load)) BY <2>2, SecondFacts DEF IInv, Shape, SentBy
    <3>4. Second(p)' = SecondOf(load) BY <2>3, <2>4 DEF Second, SecondOf
    <3>5. ToSet(WriteLocks(r, load)) \subseteq Taken(p)' BY <2>3 DEF Taken
    <3> HIDE DEF r, load
    <3> QED BY <2>3, <3>1, <3>2, <3>3, <3>4, <3>5 DEF Armed, Decided
  <2>6. load.kind \in Kind BY <2>2 DEF SentBy, Load
  <2>7. /\ load.kind = "link" =>
             \A i \in DOMAIN load.links :
               /\ account[load.links[i].user].role = load.links[i].role
               /\ account[load.links[i].user].cohort = load.links[i].was
        /\ load.kind = "update" => assignment.status = "DRAFT" /\ load.version = assignment.version
        /\ load.kind = "publish" =>
             /\ assignment.status # "none"
             /\ assignment.status = "DRAFT" => load.version = assignment.version
        /\ load.kind = "close" => assignment.status \in {"PUBLISHED", "CLOSED"}
    <3> HIDE DEF load
    <3>1. CASE load.kind = "link" BY <2>1, <3>1 DEF Acceptable, Linkable
    <3>2. CASE load.kind = "update" BY <2>1, <3>2 DEF Acceptable, Stale
    <3>3. CASE load.kind = "publish" BY <2>1, <3>3 DEF Acceptable, Stale
    <3>4. CASE load.kind = "close" BY <2>1, <3>4 DEF Acceptable
    <3> QED BY <3>1, <3>2, <3>3, <3>4
  <2>8. load.kind = "create" => assignment.status = "none"
    <3> SUFFICES ASSUME load.kind = "create", assignment.status # "none" PROVE FALSE OBVIOUS
    <3>1. r \in Req /\ Creator(r) BY <2>1, <2>2 DEF Creator, Busy, SentBy
    <3>2. PICK q \in Req : ledger[q] # None /\ ledger[q].kind = "create" BY DEF IInv, Created
    <3>3. Creator(q) BY <3>2 DEF Creator
    <3>4. q = r BY <3>1, <3>3 DEF IInv, Created
    <3> QED BY <2>1, <3>2, <3>4
  <2>9. Checked(p)' BY <2>1, <2>3, <2>4, <2>7, <2>8 DEF Checked
  <2>10. Read(p)' BY <2>3 DEF Read
  <2> QED BY <2>5, <2>9, <2>10
<1> QED BY <1>1, <1>2

LEMMA WriteSound ==
  ASSUME IInv, NEW p \in Proc, Write(p)
  PROVE  Armed(p)' /\ Checked(p)' /\ Read(p)'
<1>0. "duplicate" \in How /\ "refused" \in How BY DEF How
<1>1. CASE \E how \in {"duplicate", "refused"} : Ended(p, how) BY <1>0, <1>1, EndSound DEF IInv
<1>2. CASE ~\E how \in {"duplicate", "refused"} : Ended(p, how)
  <2> DEFINE r == txn[p].req
             load == txn[p].load
  <2>1. UNCHANGED db /\ txn[p].pc = "write" /\ txn[p].todo = <<>> BY WriteFacts DEF IInv
  <2>2. PICK got :
          /\ txn'[p] = [pc |-> "commit", req |-> r, load |-> load,
                        todo |-> <<>>, holds |-> txn[p].holds, got |-> got]
          /\ load.kind \in DraftKind => EventFits(load.body)
          /\ load.kind \in {"register", "link"} => got \subseteq Student \X Cohort
          /\ load.kind = "publish" /\ assignment.status = "DRAFT" =>
               got = Members(assignment.body.cohort) /\ got = load.targets
    BY <1>2, WriteFacts DEF IInv
  <2>3. UNCHANGED <<account, event, assignment, ledger, enrolled>> BY <2>1 DEF db
  <2>4. /\ txn'[p].pc = "commit" /\ txn'[p].req = r /\ txn'[p].load = load /\ txn'[p].todo = <<>>
        /\ txn'[p].holds = txn[p].holds /\ txn'[p].got = got
    BY <2>2
  <2>5. Armed(p)'
    <3>1. First(p) \subseteq txn[p].holds /\ Second(p) \subseteq Taken(p) BY <2>1 DEF IInv, Armed, Decided
    <3>2. First(p)' = First(p) BY <2>4 DEF First, FirstOf
    <3>3. Second(p)' = Second(p) BY <2>3, <2>4 DEF Second, SecondOf
    <3>4. Taken(p)' = Taken(p) BY <2>1, <2>4 DEF Taken
    <3> QED BY <2>4, <3>1, <3>2, <3>3, <3>4 DEF Armed, Decided
  <2>6. Checked(p) BY DEF IInv
  <2>7. Checked(p)' BY <2>1, <2>3, <2>4, <2>6 DEF Checked, Decided
  <2>8. Read(p)' BY <2>2, <2>3, <2>4 DEF Read, EventFits, Members
  <2> QED BY <2>5, <2>7, <2>8
<1> QED BY <1>1, <1>2

\* What calls have locked, checked and read stays so.
LEMMA TxnsSoundStep == IInv /\ Next => \A p \in Proc : Armed(p)' /\ Checked(p)' /\ Read(p)'
<1> SUFFICES ASSUME IInv, Next, NEW p \in Proc PROVE Armed(p)' /\ Checked(p)' /\ Read(p)' OBVIOUS
<1>1. Shape BY DEF IInv
<1>2. CASE txn'[p] = txn[p]
  <2>1. CASE Busy(p) BY <1>2, <2>1, Kept
  <2>2. CASE ~Busy(p)
    <3>1. txn[p] = Quiet BY <2>2 DEF IInv, Shape, TxnsOK
    <3> QED BY <1>2, <3>1, QuietSound
  <2> QED BY <2>1, <2>2
<1>3. CASE txn'[p] # txn[p]
  <2>1. PICK q \in Proc : Begin(q) \/ Acquire(q) \/ Check(q) \/ Write(q) \/ Commit(q) \/ Abort(q)
    BY <1>3, CallSteps
  <2>2. q = p BY <1>1, <1>3, <2>1, CallGoesOn
  <2>3. CASE Begin(p) BY <2>3, BeginSound
  <2>4. CASE Acquire(p) BY <2>4, AcquireSound
  <2>5. CASE Check(p) BY <2>5, CheckSound
  <2>6. CASE Write(p) BY <2>6, WriteSound
  <2>7. CASE Commit(p)
    <3>1. Ended(p, "done") /\ "done" \in How BY <1>1, <2>7, CommitFacts DEF How
    <3> QED BY <1>1, <3>1, EndSound
  <2>8. CASE Abort(p)
    <3>1. Ended(p, "failed") /\ "failed" \in How BY <2>8, AbortFacts DEF How
    <3> QED BY <1>1, <3>1, EndSound
  <2> QED BY <2>1, <2>2, <2>3, <2>4, <2>5, <2>6, <2>7, <2>8
<1> QED BY <1>2, <1>3

-----------------------------------------------------------------------------
(* The assignment and its pages.                                           *)

LEMMA CommitChanges ==
  ASSUME IInv, NEW p \in Proc, Commit(p), txn[p].load.kind \in {"create", "update", "publish", "close"}
  PROVE  \/ /\ txn[p].load.kind \in DraftKind /\ assignment.status \in {"none", "DRAFT"}
            /\ assignment' = [status |-> "DRAFT", version |-> assignment.version + 1, body |-> txn[p].load.body,
                              late |-> FALSE, targets |-> assignment.targets]
         \/ /\ txn[p].load.kind = "publish" /\ assignment.status = "DRAFT"
            /\ assignment' = [status |-> "PUBLISHED", version |-> assignment.version + 1, body |-> assignment.body,
                              late |-> assignment.late, targets |-> txn[p].got]
         \/ /\ txn[p].load.kind = "close" /\ assignment.status = "PUBLISHED"
            /\ assignment' = [status |-> "CLOSED", version |-> assignment.version + 1, body |-> assignment.body,
                              late |-> assignment.late, targets |-> assignment.targets]
         \/ assignment' = assignment /\ assignment.status # "none"
<1>1. /\ assignment' = IF txn[p].load.kind \in DraftKind THEN Saved(txn[p].load.body)
                       ELSE IF txn[p].load.kind = "publish" THEN Published(txn[p].got) ELSE Closed
      /\ txn[p].pc = "commit"
  BY CommitFacts DEF IInv
<1>2. Checked(p) /\ Decided(p) BY <1>1 DEF IInv, Decided
<1>3. CASE txn[p].load.kind \in DraftKind
  <2>1. assignment.status \in {"none", "DRAFT"} BY <1>2, <1>3 DEF Checked, DraftKind
  <2>2. assignment' = Saved(txn[p].load.body) BY <1>1, <1>3
  <2> QED BY <1>3, <2>1, <2>2, ChangeFacts DEF IInv
<1>4. CASE txn[p].load.kind = "publish"
  <2>1. assignment' = Published(txn[p].got) BY <1>1, <1>4 DEF DraftKind
  <2>2. assignment.status # "none" BY <1>2, <1>4 DEF Checked
  <2>3. assignment' = IF assignment.status = "DRAFT"
          THEN [status |-> "PUBLISHED", version |-> assignment.version + 1, body |-> assignment.body,
                late |-> assignment.late, targets |-> txn[p].got]
          ELSE assignment
    BY <2>1, ChangeFacts DEF IInv
  <2> QED BY <1>4, <2>2, <2>3
<1>5. CASE txn[p].load.kind = "close"
  <2>1. assignment' = Closed BY <1>1, <1>5 DEF DraftKind
  <2>2. assignment.status # "none" BY <1>2, <1>5 DEF Checked
  <2>3. assignment' = IF assignment.status = "PUBLISHED"
          THEN [status |-> "CLOSED", version |-> assignment.version + 1, body |-> assignment.body,
                late |-> assignment.late, targets |-> assignment.targets]
          ELSE assignment
    BY <2>1, ChangeFacts DEF IInv
  <2> QED BY <1>5, <2>2, <2>3
<1> QED BY <1>3, <1>4, <1>5 DEF DraftKind

LEMMA AssignmentSteps ==
  ASSUME IInv, Next
  PROVE  \/ UNCHANGED assignment
         \/ DuePasses
         \/ \E p \in Proc : Commit(p) /\ txn[p].load.kind \in {"create", "update", "publish", "close"}
<1>1. CASE UNCHANGED db BY <1>1 DEF db
<1>2. CASE ChangeAccount \/ MoveEvent BY <1>2 DEF ChangeAccount, MoveEvent
<1>3. ASSUME NEW p \in Proc, Commit(p)
      PROVE  UNCHANGED assignment \/ txn[p].load.kind \in {"create", "update", "publish", "close"}
  BY <1>3, CommitFacts DEF IInv
<1> QED BY <1>1, <1>2, <1>3, DbSteps

\* The version grows with every change of the body.
LEMMA VersionStep ==
  ASSUME IInv, Next
  PROVE  /\ assignment'.version >= assignment.version
         /\ assignment'.version = assignment.version => assignment'.body = assignment.body
<1>1. assignment.version \in Nat BY DEF IInv, Shape, TablesOK, Assignment
<1>2. CASE UNCHANGED assignment BY <1>1, <1>2
<1>3. CASE DuePasses
  <2>1. assignment' = [status |-> assignment.status, version |-> assignment.version,
                       body |-> assignment.body, late |-> TRUE, targets |-> assignment.targets]
    BY <1>3, DueFacts DEF IInv
  <2>2. assignment'.version = assignment.version /\ assignment'.body = assignment.body BY <2>1
  <2> QED BY <1>1, <2>2
<1>4. ASSUME NEW p \in Proc, Commit(p), txn[p].load.kind \in {"create", "update", "publish", "close"}
      PROVE  assignment'.version = assignment.version + 1 \/ assignment' = assignment
  <2>1. CASE assignment' = assignment BY <2>1
  <2>2. CASE assignment' # assignment
    <3>1. \E s, b, l, t : assignment' = [status |-> s, version |-> assignment.version + 1, body |-> b, late |-> l, targets |-> t]
      BY <1>4, <2>2, CommitChanges
    <3> QED BY <3>1
  <2> QED BY <2>1, <2>2
<1>5. (assignment'.version = assignment.version + 1 \/ assignment' = assignment)
      => /\ assignment'.version >= assignment.version
         /\ assignment'.version = assignment.version => assignment'.body = assignment.body
  BY <1>1
<1> QED BY <1>2, <1>3, <1>4, <1>5, AssignmentSteps

LEMMA RenderedStep == IInv /\ Next => Rendered'
<1> SUFFICES ASSUME IInv, Next, NEW r \in Req, page'[r] # None
             PROVE  /\ page'[r].version <= assignment'.version
                    /\ page'[r].version = assignment'.version => page'[r].body = assignment'.body
  BY DEF Rendered
<1>1. CallsOK BY DEF IInv, Shape
<1>2. CASE page[r] # None
  <2>1. page'[r] = page[r] BY <1>1, <1>2, PageKept
  <2>2. /\ page[r].version <= assignment.version
        /\ page[r].version = assignment.version => page[r].body = assignment.body
    BY <1>2 DEF IInv, Rendered
  <2>3. page[r].version \in Nat /\ assignment.version \in Nat /\ assignment'.version \in Nat
    <3>1. page[r] \in Sheet /\ assignment \in Assignment BY <1>1, <1>2 DEF CallsOK, IInv, Shape, TablesOK
    <3>2. assignment' \in Assignment BY TablesStep DEF IInv, TablesOK
    <3> QED BY <3>1, <3>2 DEF Sheet, Assignment
  <2> QED BY <2>1, <2>2, <2>3, VersionStep
<1>3. CASE page[r] = None
  <2>1. PICK q \in Req : Open(q) BY <1>1, <1>3, PageSteps
  <2>2. /\ page' = [page EXCEPT ![q] = [version |-> assignment.version, body |-> assignment.body,
                                        targets |-> Members(assignment.body.cohort)]]
        /\ UNCHANGED assignment
    BY <2>1 DEF Open, db
  <2>3. q = r BY <1>1, <1>3, <2>2 DEF CallsOK
  <2>4. page'[r] = [version |-> assignment.version, body |-> assignment.body,
                    targets |-> Members(assignment.body.cohort)]
    BY <1>1, <2>2, <2>3 DEF CallsOK
  <2>5. assignment.version \in Nat BY DEF IInv, Shape, TablesOK, Assignment
  <2> QED BY <2>2, <2>4, <2>5
<1> QED BY <1>2, <1>3

\* A request that took effect keeps its record.
LEMMA LedgerKept ==
  ASSUME IInv, Next
  PROVE  /\ \A r \in Req : ledger[r] # None => ledger'[r] = ledger[r]
         /\ \A r \in Req : ledger'[r] = ledger[r] \/
              \E p \in Proc : Commit(p) /\ txn[p].req = r /\ ledger'[r] = txn[p].load
<1>1. ledger \in [Req -> Load \union {None}] BY DEF IInv, Shape, TablesOK
<1>2. CASE UNCHANGED ledger BY <1>2
<1>3. ASSUME NEW p \in Proc, Commit(p)
      PROVE  /\ \A r \in Req : ledger[r] # None => ledger'[r] = ledger[r]
             /\ \A r \in Req : ledger'[r] = ledger[r] \/ (txn[p].req = r /\ ledger'[r] = txn[p].load)
  <2>1. ledger' = [ledger EXCEPT ![txn[p].req] = txn[p].load] /\ txn[p].pc = "commit"
    BY <1>3, CommitFacts DEF IInv
  <2>2. ledger[txn[p].req] = None BY <2>1 DEF IInv, Checked, Decided
  <2> QED BY <1>1, <2>1, <2>2
<1>4. CASE ChangeAccount \/ MoveEvent \/ DuePasses BY <1>2, <1>4 DEF ChangeAccount, MoveEvent, DuePasses
<1> QED BY <1>2, <1>3, <1>4, DbSteps DEF db

LEMMA CreatedStep == IInv /\ Next => Created'
<1> SUFFICES ASSUME IInv, Next PROVE Created' OBVIOUS
<1>1. Shape /\ Created BY DEF IInv
<1>2. ASSUME NEW r \in Req, Creator(r)' PROVE Creator(r)
  <2>1. CASE calls'[r] > 0 /\ Creates(r)
    <3>1. calls'[r] <= calls[r] /\ calls[r] \in Nat /\ calls'[r] \in Nat
      <4>1. calls \in [Req -> Nat] /\ calls' \in [Req -> Nat] BY <1>1, CallsStep DEF Shape, CallsOK
      <4>2. CASE UNCHANGED calls BY <4>1, <4>2
      <4>3. ASSUME NEW p \in Proc, Begin(p) PROVE calls'[r] <= calls[r]
        <5>1. PICK q \in Req : calls' = [calls EXCEPT ![q] = @ - 1] BY <1>1, <4>3, BeginFacts
        <5> QED BY <4>1, <5>1
      <4>4. ASSUME NEW p \in Proc, Acquire(p) \/ Check(p) \/ Write(p) \/ Commit(p) \/ Abort(p) PROVE UNCHANGED calls
        BY <4>4 DEF Acquire, Check, Write, Commit, Abort
      <4>5. ASSUME NEW q \in Req, Open(q) PROVE UNCHANGED calls BY <4>5 DEF Open
      <4>6. CASE ChangeAccount \/ MoveEvent \/ DuePasses BY <4>2, <4>6 DEF ChangeAccount, MoveEvent, DuePasses
      <4> QED BY <4>1, <4>2, <4>3, <4>4, <4>5, <4>6 DEF Next
    <3> QED BY <2>1, <3>1 DEF Creator
  <2>2. ASSUME NEW p \in Proc, Busy(p)', txn'[p].req = r, txn'[p].load.kind = "create" PROVE Creator(r)
    <3>1. CASE txn'[p] = txn[p] BY <2>2, <3>1 DEF Creator, Busy
    <3>2. CASE txn'[p] # txn[p]
      <4>1. PICK q \in Proc : Begin(q) \/ Acquire(q) \/ Check(q) \/ Write(q) \/ Commit(q) \/ Abort(q)
        BY <3>2, CallSteps
      <4>2. q = p BY <1>1, <3>2, <4>1, CallGoesOn
      <4>3. CASE Busy(p)
        <5>1. txn'[p] # Quiet BY <2>2, QuietTxn DEF Busy
        <5>2. txn'[p].req = txn[p].req /\ txn'[p].load = txn[p].load BY <1>1, <4>1, <4>2, <4>3, <5>1, CallGoesOn
        <5> QED BY <2>2, <4>3, <5>2 DEF Creator
      <4>4. CASE ~Busy(p)
        <5>1. Begin(p)
          <6>1. txn[p] = Quiet BY <1>1, <4>4 DEF Shape, TxnsOK
          <6>2. ~Acquire(p) BY <6>1, QuietTxn DEF Acquire
          <6>3. ~Check(p) /\ ~Write(p) BY <6>1, QuietTxn DEF Check, Write, At
          <6>4. ~Commit(p) /\ ~Abort(p) BY <6>1, QuietTxn DEF Commit, Abort
          <6> QED BY <4>1, <4>2, <6>2, <6>3, <6>4
        <5>2. PICK q1 \in Req, load \in Load :
                /\ SentBy(q1, load) /\ calls[q1] > 0
                /\ txn'[p] = [pc |-> "check", req |-> q1, load |-> load, todo |-> FirstLocks(q1, load),
                              holds |-> {}, got |-> {}]
          BY <1>1, <5>1, BeginFacts
        <5>3. txn'[p].req = q1 /\ txn'[p].load = load BY <5>2
        <5> QED BY <2>2, <5>2, <5>3 DEF SentBy, Creator
      <4> QED BY <4>3, <4>4
    <3> QED BY <3>1, <3>2
  <2>3. CASE ledger'[r] # None /\ ledger'[r].kind = "create"
    <3>1. CASE ledger'[r] = ledger[r] BY <2>3, <3>1 DEF Creator
    <3>2. ASSUME NEW p \in Proc, Commit(p), txn[p].req = r, ledger'[r] = txn[p].load PROVE Creator(r)
      <4>1. Busy(p) BY <1>1, <3>2, CommitFacts DEF Busy
      <4> QED BY <2>3, <3>2, <4>1 DEF Creator
    <3> QED BY <3>1, <3>2, LedgerKept
  <2> QED BY <1>2, <2>1, <2>2, <2>3 DEF Creator
<1>3. ASSUME assignment'.status # "none" PROVE \E r \in Req : ledger'[r] # None /\ ledger'[r].kind = "create"
  <2>1. CASE assignment.status # "none"
    <3>1. PICK r \in Req : ledger[r] # None /\ ledger[r].kind = "create" BY <1>1, <2>1 DEF Created
    <3> QED BY <3>1, LedgerKept
  <2>2. CASE assignment.status = "none"
    <3>1. ~UNCHANGED assignment BY <1>3, <2>2
    <3>2. ~DuePasses BY <2>2 DEF DuePasses
    <3>3. PICK p \in Proc : Commit(p) /\ txn[p].load.kind \in {"create", "update", "publish", "close"}
      BY <3>1, <3>2, AssignmentSteps
    <3>4. txn[p].load.kind \in DraftKind BY <2>2, <3>1, <3>3, CommitChanges
    <3>5. txn[p].pc = "commit" /\ SentBy(txn[p].req, txn[p].load)
          /\ ledger' = [ledger EXCEPT ![txn[p].req] = txn[p].load]
      BY <1>1, <3>3, CommitFacts
    <3>6. txn[p].load.kind = "create" BY <2>2, <3>4, <3>5 DEF IInv, Checked, Decided, DraftKind
    <3>7. txn[p].req \in Req /\ txn[p].load # None
      BY <3>5, RegistryAssumption DEF SentBy
    <3>8. ledger'[txn[p].req] = txn[p].load BY <1>1, <3>5, <3>7 DEF Shape, TablesOK
    <3> QED BY <3>6, <3>7, <3>8
  <2> QED BY <2>1, <2>2
<1> QED BY <1>1, <1>2, <1>3 DEF Created

-----------------------------------------------------------------------------
(* What is published, and when.                                            *)

\* The commit that publishes: its record is written with its page's contents.
LEMMA PublishCommit ==
  ASSUME IInv, NEW p \in Proc, Commit(p), txn[p].load.kind = "publish", assignment.status = "DRAFT"
  PROVE  /\ txn[p].req \in Req
         /\ ledger'[txn[p].req] = txn[p].load /\ txn[p].load # None
         /\ page'[txn[p].req].body = assignment.body
         /\ page'[txn[p].req].targets = txn[p].got
         /\ txn[p].got = Members(assignment.body.cohort)
<1>1. /\ SentBy(txn[p].req, txn[p].load) /\ txn[p].pc = "commit" /\ UNCHANGED page
      /\ ledger' = [ledger EXCEPT ![txn[p].req] = txn[p].load]
  BY CommitFacts DEF IInv
<1>2. ledger'[txn[p].req] = txn[p].load BY <1>1 DEF IInv, Shape, TablesOK, SentBy
<1>3. txn[p].load # None BY <1>1, RegistryAssumption DEF SentBy
<1>4. txn[p].load.version = assignment.version BY <1>1 DEF IInv, Checked, Decided
<1>5. txn[p].got = Members(assignment.body.cohort) /\ txn[p].got = txn[p].load.targets
  BY <1>1 DEF IInv, Read
<1>6. /\ page[txn[p].req] # None
      /\ page[txn[p].req].version = txn[p].load.version
      /\ page[txn[p].req].targets = txn[p].load.targets
  BY <1>1 DEF SentBy
<1>7. page[txn[p].req].body = assignment.body BY <1>1, <1>4, <1>6 DEF IInv, Rendered, SentBy
<1> QED BY <1>1, <1>2, <1>3, <1>5, <1>6, <1>7 DEF SentBy

\* A publication's record and page are kept.
LEMMA PublicationKept ==
  ASSUME IInv, Next, assignment.status \in {"PUBLISHED", "CLOSED"},
         assignment'.body = assignment.body, assignment'.targets = assignment.targets
  PROVE  PublishedAsReviewed'
<1>1. PICK r \in Req :
        /\ ledger[r] # None /\ ledger[r].kind = "publish"
        /\ page[r].body = assignment.body /\ page[r].targets = assignment.targets
  BY DEF IInv, PublishedAsReviewed
<1>2. ledger'[r] = ledger[r] BY <1>1, LedgerKept
<1>3. page[r] # None BY <1>1 DEF IInv, Recorded
<1>4. page'[r] = page[r] BY <1>3, PageKept DEF IInv, Shape
<1> QED BY <1>1, <1>2, <1>4 DEF PublishedAsReviewed

LEMMA RecordedStep == IInv /\ Next => Recorded'
<1> SUFFICES ASSUME IInv, Next, NEW r \in Req, ledger'[r] # None PROVE page'[r] # None
  BY DEF Recorded
<1>1. page[r] # None
  <2>1. CASE ledger'[r] = ledger[r] BY <2>1 DEF IInv, Recorded
  <2>2. ASSUME NEW p \in Proc, Commit(p), txn[p].req = r PROVE page[r] # None
    BY <2>2, CommitFacts DEF IInv, SentBy
  <2> QED BY <2>1, <2>2, LedgerKept
<1> QED BY <1>1, PageKept DEF IInv, Shape

LEMMA ReviewedStep == IInv /\ Next => PublishedAsReviewed'
<1> SUFFICES ASSUME IInv, Next, assignment'.status \in {"PUBLISHED", "CLOSED"} PROVE PublishedAsReviewed'
  BY DEF PublishedAsReviewed
<1>1. CASE UNCHANGED assignment BY <1>1, PublicationKept
<1>2. ~DuePasses
  <2> SUFFICES ASSUME DuePasses PROVE FALSE OBVIOUS
  <2>1. /\ assignment' = [status |-> assignment.status, version |-> assignment.version,
                          body |-> assignment.body, late |-> TRUE, targets |-> assignment.targets]
        /\ assignment.status = "DRAFT"
    BY DueFacts DEF IInv
  <2>2. assignment'.status = "DRAFT" BY <2>1
  <2> QED BY <2>2
<1>3. ASSUME NEW p \in Proc, Commit(p), txn[p].load.kind \in {"create", "update", "publish", "close"}
      PROVE  PublishedAsReviewed'
  <2>1. CASE assignment' = [status |-> "DRAFT", version |-> assignment.version + 1, body |-> txn[p].load.body,
                            late |-> FALSE, targets |-> assignment.targets]
    <3>1. assignment'.status = "DRAFT" BY <2>1
    <3> QED BY <3>1
  <2>2. CASE /\ txn[p].load.kind = "publish" /\ assignment.status = "DRAFT"
             /\ assignment' = [status |-> "PUBLISHED", version |-> assignment.version + 1, body |-> assignment.body,
                               late |-> assignment.late, targets |-> txn[p].got]
    <3>1. assignment'.body = assignment.body /\ assignment'.targets = txn[p].got BY <2>2
    <3>2. /\ txn[p].req \in Req
          /\ ledger'[txn[p].req] = txn[p].load /\ txn[p].load # None
          /\ page'[txn[p].req].body = assignment.body
          /\ page'[txn[p].req].targets = txn[p].got
      BY <1>3, <2>2, PublishCommit
    <3> QED BY <2>2, <3>1, <3>2 DEF PublishedAsReviewed
  <2>3. CASE /\ assignment.status = "PUBLISHED"
             /\ assignment' = [status |-> "CLOSED", version |-> assignment.version + 1, body |-> assignment.body,
                               late |-> assignment.late, targets |-> assignment.targets]
    <3>1. assignment'.body = assignment.body /\ assignment'.targets = assignment.targets BY <2>3
    <3> QED BY <2>3, <3>1, PublicationKept
  <2>4. CASE assignment' = assignment BY <1>1, <2>4
  <2> QED BY <1>3, <2>1, <2>2, <2>3, <2>4, CommitChanges
<1> QED BY <1>1, <1>2, <1>3, AssignmentSteps

-----------------------------------------------------------------------------
(* The lesson.                                                             *)

LEMMA LessonStep == IInv /\ Next => LessonOfCohort'
<1> SUFFICES ASSUME IInv, Next PROVE LessonOfCohort' OBVIOUS
<1>1. LessonOfCohort /\ Shape BY DEF IInv
<1>2. ASSUME UNCHANGED event, assignment'.body = assignment.body PROVE LessonOfCohort'
  BY <1>1, <1>2 DEF LessonOfCohort
<1>3. CASE UNCHANGED db BY <1>2, <1>3 DEF db
<1>4. CASE ChangeAccount BY <1>2, <1>4 DEF ChangeAccount
<1>5. CASE DuePasses
  <2>1. /\ assignment' = [status |-> assignment.status, version |-> assignment.version,
                          body |-> assignment.body, late |-> TRUE, targets |-> assignment.targets]
        /\ UNCHANGED event
    BY <1>1, <1>5, DueFacts
  <2>2. assignment'.body = assignment.body BY <2>1
  <2> QED BY <1>2, <2>1, <2>2
<1>6. CASE MoveEvent
  <2>1. PICK e \in Event, c \in Cohort :
          assignment.body.event # e /\ event' = [event EXCEPT ![e] = c]
    BY <1>6 DEF MoveEvent
  <2>2. UNCHANGED assignment BY <1>6 DEF MoveEvent
  <2>3. event \in [Event -> Cohort] /\ assignment.body.event \in Event \union {None}
    BY <1>1 DEF Shape, TablesOK, Assignment, Body
  <2>4. assignment.body.event # None => event'[assignment.body.event] = event[assignment.body.event]
    BY <2>1, <2>3
  <2> QED BY <1>1, <2>2, <2>4 DEF LessonOfCohort
<1>7. ASSUME NEW p \in Proc, Commit(p) PROVE LessonOfCohort'
  <2>1. UNCHANGED event /\ txn[p].pc = "commit" BY <1>1, <1>7, CommitFacts
  <2>2. CASE UNCHANGED assignment BY <1>2, <2>1, <2>2
  <2>3. CASE ~UNCHANGED assignment
    <3>1. txn[p].load.kind \in {"create", "update", "publish", "close"} BY <1>1, <1>7, <2>3, CommitFacts
    <3>2. CASE /\ txn[p].load.kind \in DraftKind
               /\ assignment' = [status |-> "DRAFT", version |-> assignment.version + 1, body |-> txn[p].load.body,
                                 late |-> FALSE, targets |-> assignment.targets]
      <4>1. assignment'.body = txn[p].load.body BY <3>2
      <4>2. EventFits(txn[p].load.body) BY <2>1, <3>2 DEF IInv, Read
      <4> QED BY <2>1, <4>1, <4>2 DEF EventFits, LessonOfCohort
    <3>3. CASE \E s, l, t : assignment' = [status |-> s, version |-> assignment.version + 1,
                                           body |-> assignment.body, late |-> l, targets |-> t]
      <4>1. assignment'.body = assignment.body BY <3>3
      <4> QED BY <1>2, <2>1, <4>1
    <3> QED BY <1>7, <2>3, <3>1, <3>2, <3>3, CommitChanges
  <2> QED BY <2>2, <2>3
<1> QED BY <1>3, <1>4, <1>5, <1>6, <1>7, DbSteps

-----------------------------------------------------------------------------
(* The invariant is inductive.                                             *)

LEMMA InitIInv == Init => IInv
<1> SUFFICES ASSUME Init PROVE IInv OBVIOUS
<1>1. NoAssignment \in Assignment BY DEF NoAssignment, Assignment, NoBody, Body
<1>2. assignment.status = "none" /\ assignment.version = 0 /\ assignment.targets = {}
      /\ assignment.body.event = None
  BY DEF Init, NoAssignment, NoBody
<1>3. PICK S \in Scenario : calls = S.calls /\ changes = S.changes BY DEF Init
<1>4. calls \in [Req -> Nat] /\ changes \in Nat BY <1>3, RegistryAssumption
<1>5. \A p \in Proc : txn[p] = Quiet BY DEF Init
<1>6. Shape
  <2>1. TablesOK BY <1>1, <1>2 DEF Init, TablesOK
  <2>2. CallsOK
    <3>1. Silent \in [req : Req \union {None}, load : Load \union {None}, how : How] BY DEF Silent, How
    <3> QED BY <1>4, <3>1 DEF Init, CallsOK
  <2>3. TxnsOK
    <3>1. txn \in [Proc -> Txn] BY QuietTxn DEF Init
    <3> QED BY <1>5, <3>1, QuietTxn DEF TxnsOK, Busy
  <2> QED BY <2>1, <2>2, <2>3 DEF Shape
<1>7. Apart BY <1>5, QuietTxn DEF Apart
<1>8. \A p \in Proc : Armed(p) /\ Checked(p) /\ Read(p)
  BY <1>5, QuietTxn DEF Armed, Checked, Read, Decided
<1>9. Rendered /\ Recorded BY DEF Init, Rendered, Recorded
<1>10. Created
  <2>1. ASSUME NEW r \in Req, Creator(r) PROVE S.calls[r] > 0 /\ Creates(r)
    <3>1. ledger[r] = None BY DEF Init
    <3>2. ~\E p \in Proc : Busy(p) BY <1>5, QuietTxn DEF Busy
    <3> QED BY <1>3, <2>1, <3>1, <3>2 DEF Creator
  <2> QED BY <1>2, <2>1, OneCreator DEF Created
<1>11. PublishedAsReviewed /\ LessonOfCohort BY <1>2 DEF PublishedAsReviewed, LessonOfCohort
<1> QED BY <1>6, <1>7, <1>8, <1>9, <1>10, <1>11 DEF IInv

LEMMA Unchanged == IInv /\ UNCHANGED vars => IInv'
<1> SUFFICES ASSUME IInv, UNCHANGED vars PROVE IInv' OBVIOUS
<1>1. UNCHANGED <<account, linked, enrolled, event, assignment, ledger, page, txn, answer, calls, changes>>
  BY DEF vars, db
<1>2. Shape'
  <2>1. TablesOK' BY <1>1 DEF IInv, Shape, TablesOK
  <2>2. CallsOK' BY <1>1 DEF IInv, Shape, CallsOK
  <2>3. TxnsOK' BY <1>1 DEF IInv, Shape, TxnsOK, Busy, SentBy
  <2> QED BY <2>1, <2>2, <2>3 DEF Shape
<1>3. Apart' BY <1>1 DEF IInv, Apart
<1>4. ASSUME NEW p \in Proc PROVE Armed(p)' /\ Checked(p)' /\ Read(p)'
  <2>1. Armed(p) /\ Checked(p) /\ Read(p) BY DEF IInv
  <2>2. Armed(p)' BY <1>1, <2>1, ArmedKept
  <2>3. Checked(p)' BY <1>1, <2>1 DEF Checked, Decided
  <2>4. Read(p)' BY <1>1, <2>1 DEF Read, EventFits, Members
  <2> QED BY <2>2, <2>3, <2>4
<1>5. Rendered' /\ Recorded' BY <1>1 DEF IInv, Rendered, Recorded
<1>6. Created' BY <1>1 DEF IInv, Created, Creator, Busy
<1>7. PublishedAsReviewed' /\ LessonOfCohort' BY <1>1 DEF IInv, PublishedAsReviewed, LessonOfCohort
<1> QED BY <1>2, <1>3, <1>4, <1>5, <1>6, <1>7 DEF IInv

LEMMA StepIInv == IInv /\ [Next]_vars => IInv'
<1>1. IInv /\ Next => Shape'
  <2>1. IInv /\ Next => TablesOK' BY TablesStep DEF IInv
  <2>2. IInv /\ Next => CallsOK' BY CallsStep DEF IInv
  <2>3. IInv /\ Next => TxnsOK' BY TxnsStep DEF IInv
  <2> QED BY <2>1, <2>2, <2>3 DEF Shape
<1>2. IInv /\ Next => Apart' BY ApartStep DEF IInv
<1>3. IInv /\ Next => IInv'
  BY <1>1, <1>2, TxnsSoundStep, RenderedStep, RecordedStep, CreatedStep, ReviewedStep, LessonStep DEF IInv
<1> QED BY <1>3, Unchanged

LEMMA Inductive == Spec => []IInv
BY InitIInv, StepIInv, PTL DEF Spec

-----------------------------------------------------------------------------
(* Theorems.                                                               *)

LEMMA IInvRows == IInv => RowsSound
<1> SUFFICES ASSUME IInv PROVE RowsSound OBVIOUS
<1>1. Shape /\ LessonOfCohort BY DEF IInv
<1>2. /\ account \in [User -> [role : {"MEMBER", "PENDING"}, cohort : Cohort \union {None}]]
      /\ linked \in [Student -> User \union {None}]
      /\ enrolled \subseteq Student \X Cohort
      /\ event \in [Event -> Cohort]
      /\ assignment.status \in {"none", "DRAFT"} => assignment.targets = {}
      /\ calls \in [Req -> Nat] /\ changes \in Nat
  BY <1>1 DEF Shape, TablesOK, CallsOK
<1>3. /\ assignment.status \in {"none", "DRAFT", "PUBLISHED", "CLOSED"}
      /\ assignment.version \in Nat
      /\ assignment.body \in Body
      /\ assignment.targets \subseteq Student
  BY <1>1 DEF Shape, TablesOK, Assignment
<1>4. ASSUME NEW p \in Proc
      PROVE  /\ txn[p].pc \in {"idle", "check", "write", "commit"}
             /\ txn[p].pc = "idle" <=> txn[p].req = None
             /\ txn[p].pc = "idle" => txn[p] = Quiet
             /\ answer[p].how \in How
  <2>1. txn[p] \in Txn BY <1>1 DEF Shape, TxnsOK
  <2>2. CASE Busy(p)
    <3>1. txn[p].req \in Req /\ txn[p].pc # "idle" BY <1>1, <2>2 DEF Shape, TxnsOK, SentBy, Busy
    <3> QED BY <1>1, <2>1, <3>1, RegistryAssumption DEF Txn, Shape, CallsOK
  <2>3. CASE ~Busy(p)
    <3>1. txn[p] = Quiet BY <1>1, <2>3 DEF Shape, TxnsOK
    <3>2. Quiet.req = None /\ Quiet.pc = "idle" BY DEF Quiet
    <3> QED BY <1>1, <3>1, <3>2 DEF Shape, CallsOK
  <2> QED BY <2>2, <2>3
<1> QED BY <1>1, <1>2, <1>3, <1>4 DEF RowsSound, TypeOK

\* A step that publishes takes everybody who is enrolled when it does.
TargetsStep ==
  assignment.status = "DRAFT" /\ assignment'.status = "PUBLISHED"
    => assignment'.targets = Members(assignment.body.cohort)

LEMMA StepTargets == IInv /\ Next => TargetsStep
<1> SUFFICES ASSUME IInv, Next, assignment.status = "DRAFT", assignment'.status = "PUBLISHED"
             PROVE  assignment'.targets = Members(assignment.body.cohort)
  BY DEF TargetsStep
<1>1. ~DuePasses
  <2> SUFFICES ASSUME DuePasses PROVE FALSE OBVIOUS
  <2>1. assignment' = [status |-> assignment.status, version |-> assignment.version,
                       body |-> assignment.body, late |-> TRUE, targets |-> assignment.targets]
    BY DueFacts DEF IInv
  <2>2. assignment'.status = "DRAFT" BY <2>1
  <2> QED BY <2>2
<1>2. PICK p \in Proc : Commit(p) /\ txn[p].load.kind \in {"create", "update", "publish", "close"}
  BY <1>1, AssignmentSteps
<1>3. CASE assignment' = [status |-> "DRAFT", version |-> assignment.version + 1, body |-> txn[p].load.body,
                          late |-> FALSE, targets |-> assignment.targets]
  <2>1. assignment'.status = "DRAFT" BY <1>3
  <2> QED BY <2>1
<1>4. CASE /\ txn[p].load.kind = "publish"
           /\ assignment' = [status |-> "PUBLISHED", version |-> assignment.version + 1, body |-> assignment.body,
                             late |-> assignment.late, targets |-> txn[p].got]
  <2>1. assignment'.targets = txn[p].got BY <1>4
  <2> QED BY <1>2, <1>4, <2>1, PublishCommit
<1> QED BY <1>2, <1>3, <1>4, CommitChanges

\* A step that replaces a draft's body is a save whose form showed it.
EditStep ==
  assignment.status = "DRAFT" /\ assignment'.body # assignment.body
    => \E p \in Proc : txn[p].pc = "commit" /\ page[txn[p].req].body = assignment.body

LEMMA StepEdit == IInv /\ Next => EditStep
<1> SUFFICES ASSUME IInv, Next, assignment.status = "DRAFT", assignment'.body # assignment.body
             PROVE  \E p \in Proc : txn[p].pc = "commit" /\ page[txn[p].req].body = assignment.body
  BY DEF EditStep
<1>1. ~DuePasses
  <2> SUFFICES ASSUME DuePasses PROVE FALSE OBVIOUS
  <2>1. assignment' = [status |-> assignment.status, version |-> assignment.version,
                       body |-> assignment.body, late |-> TRUE, targets |-> assignment.targets]
    BY DueFacts DEF IInv
  <2>2. assignment'.body = assignment.body BY <2>1
  <2> QED BY <2>2
<1>2. PICK p \in Proc : Commit(p) /\ txn[p].load.kind \in {"create", "update", "publish", "close"}
  BY <1>1, AssignmentSteps
<1>3. txn[p].pc = "commit" /\ SentBy(txn[p].req, txn[p].load) BY <1>2, CommitFacts DEF IInv
<1>4. ASSUME NEW s, NEW t, NEW l,
             assignment' = [status |-> s, version |-> assignment.version + 1, body |-> assignment.body,
                            late |-> l, targets |-> t]
      PROVE  FALSE
  <2>1. assignment'.body = assignment.body BY <1>4
  <2> QED BY <2>1
<1>5. txn[p].load.kind \in DraftKind BY <1>2, <1>4, CommitChanges
<1>6. txn[p].load.kind = "update" /\ txn[p].load.version = assignment.version
  BY <1>3, <1>5 DEF IInv, Checked, Decided, DraftKind
<1>7. page[txn[p].req] # None /\ page[txn[p].req].version = assignment.version
  BY <1>3, <1>6 DEF SentBy
<1>8. page[txn[p].req].body = assignment.body BY <1>3, <1>7 DEF IInv, Rendered, SentBy
<1> QED BY <1>3, <1>8

\* A step that links a student follows the plan of the call that commits.
LinkStep ==
  \A s \in Student : linked'[s] # linked[s] =>
    \E p \in {q \in Proc : txn[q].pc = "commit" /\ s \in LinkStudents(txn[q].load)} :
      LET k == LinkOf(txn[p].load, s) IN
      /\ linked'[s] = k.user
      /\ account[k.user].role = k.role
      /\ account[k.user].cohort = k.was

LEMMA StepLink == IInv /\ Next => LinkStep
<1> SUFFICES ASSUME IInv, Next, NEW s \in Student, linked'[s] # linked[s]
             PROVE  \E p \in {q \in Proc : txn[q].pc = "commit" /\ s \in LinkStudents(txn[q].load)} :
                      LET k == LinkOf(txn[p].load, s) IN
                      /\ linked'[s] = k.user
                      /\ account[k.user].role = k.role
                      /\ account[k.user].cohort = k.was
  BY DEF LinkStep
<1>1. ~UNCHANGED linked OBVIOUS
<1>2. PICK p \in Proc : Commit(p)
  BY <1>1, DbSteps DEF db, ChangeAccount, MoveEvent, DuePasses
<1>3. txn[p].pc = "commit" /\ SentBy(txn[p].req, txn[p].load) /\ txn[p].load.kind = "link" /\ Link(p)
  BY <1>1, <1>2, CommitFacts DEF IInv
<1>4. s \in LinkStudents(txn[p].load) /\ linked'[s] = LinkOf(txn[p].load, s).user
  BY <1>3 DEF Link
<1>5. PICK i \in DOMAIN txn[p].load.links : LinkOf(txn[p].load, s) = txn[p].load.links[i]
  <2>1. PICK i \in DOMAIN txn[p].load.links : txn[p].load.links[i].student = s BY <1>4 DEF LinkStudents
  <2>2. txn[p].load.links[i] \in Range(txn[p].load.links) BY DEF Range
  <2>3. LinkOf(txn[p].load, s) \in Range(txn[p].load.links) BY <2>1, <2>2 DEF LinkOf
  <2> QED BY <2>3 DEF Range
<1>6. /\ account[txn[p].load.links[i].user].role = txn[p].load.links[i].role
      /\ account[txn[p].load.links[i].user].cohort = txn[p].load.links[i].was
  BY <1>3 DEF IInv, Checked, Decided
<1> QED BY <1>3, <1>4, <1>5, <1>6

\* A step that answers with a conflict or a refusal does not answer for a
\* request that took effect.
AnswerStep ==
  \A p \in Proc :
    /\ answer'[p] # answer[p]
    /\ answer'[p].how \in {"conflict", "refused", "duplicate"}
    => ledger[answer'[p].req] # answer'[p].load

LEMMA StepAnswer == IInv /\ Next => AnswerStep
<1> SUFFICES ASSUME IInv, Next, NEW p \in Proc, answer'[p] # answer[p],
                    answer'[p].how \in {"conflict", "refused", "duplicate"}
             PROVE  ledger[answer'[p].req] # answer'[p].load
  BY DEF AnswerStep
<1>1. Shape BY DEF IInv
<1>2. PICK q \in Proc : Begin(q) \/ Acquire(q) \/ Check(q) \/ Write(q) \/ Commit(q) \/ Abort(q)
  BY CallSteps
<1>3. ASSUME NEW how \in How, Ended(q, how)
      PROVE  q = p /\ answer'[p].req = txn[p].req /\ answer'[p].load = txn[p].load /\ answer'[p].how = how
  <2>1. q = p BY <1>1, <1>3, EndedFacts
  <2>2. answer'[p] = [req |-> txn[p].req, load |-> txn[p].load, how |-> how] BY <1>1, <1>3, <2>1, EndedFacts
  <2> QED BY <2>1, <2>2
<1>4. CASE Begin(q) \/ Acquire(q) BY <1>1, <1>4, BeginFacts, AcquireFacts
<1>5. CASE Check(q)
  <2>1. PICK how \in How : Ended(q, how) /\ (how \in {"conflict", "refused", "duplicate"} =>
                                              ledger[txn[q].req] # txn[q].load)
    BY <1>1, <1>5, CheckFacts
  <2> QED BY <1>3, <2>1
<1>6. CASE Write(q)
  <2>1. \E how \in {"duplicate", "refused"} : Ended(q, how) BY <1>1, <1>6, WriteFacts
  <2>2. txn[q].pc = "write" BY <1>1, <1>6, WriteFacts
  <2>3. ledger[txn[q].req] = None /\ SentBy(txn[q].req, txn[q].load)
    BY <2>2 DEF IInv, Checked, Decided, Shape, TxnsOK, Busy
  <2>4. txn[q].load # None BY <2>3, RegistryAssumption DEF SentBy
  <2>5. "duplicate" \in How /\ "refused" \in How BY DEF How
  <2> QED BY <1>3, <2>1, <2>3, <2>4, <2>5
<1>7. CASE Commit(q)
  <2>1. Ended(q, "done") /\ "done" \in How BY <1>1, <1>7, CommitFacts DEF How
  <2> QED BY <1>3, <2>1
<1>8. CASE Abort(q)
  <2>1. Ended(q, "failed") /\ "failed" \in How BY <1>8, AbortFacts DEF How
  <2> QED BY <1>3, <2>1
<1> QED BY <1>2, <1>4, <1>5, <1>6, <1>7, <1>8

\* For any number of calls, requests, students, accounts, cohorts and lessons:
\* the registry's rows keep their shape, and an assignment's lesson is of its
\* cohort (guard_academic_assignment, the trigger on schedule_events).
THEOREM RegistryIsSound == Spec => []RowsSound
BY Inductive, IInvRows, PTL

\* A publication's targets are everybody enrolled when it takes effect: what
\* LOCK TABLE ... IN SHARE MODE is for.
THEOREM TargetsAreComplete == Spec => TargetsComplete
<1>1. IInv /\ Next => TargetsStep BY StepTargets
<1>2. IInv /\ [Next]_vars => [TargetsStep]_vars BY <1>1
<1> QED BY <1>2, Inductive, PTL DEF Spec, TargetsComplete, TargetsStep

\* Publications, saves and links are carried out on what the person who
\* confirmed them was shown (expectedUpdatedAt, expectedTargetFingerprint, the
\* plan's role and cohort).
THEOREM ActsAsReviewed == Spec => AsReviewed
<1>1. IInv /\ [Next]_vars => [PublishedAsReviewed']_vars BY ReviewedStep
<1>2. IInv /\ [Next]_vars => [EditStep]_vars BY StepEdit
<1>3. IInv /\ [Next]_vars => [LinkStep]_vars BY StepLink
<1>4. Spec => [][PublishedAsReviewed']_vars BY <1>1, Inductive, PTL DEF Spec
<1>5. Spec => NoEditLost BY <1>2, Inductive, PTL DEF Spec, NoEditLost, EditStep
<1>6. Spec => LinkedAsApproved BY <1>3, Inductive, PTL DEF Spec, LinkedAsApproved, LinkStep
<1> QED BY <1>4, <1>5, <1>6 DEF AsReviewed

\* A permitted approver who repeats a request that took effect is not told
\* that it was refused (the replay branch of each function).
THEOREM RetriesAreAnswered == Spec => RetryAnswered
<1>1. IInv /\ [Next]_vars => [AnswerStep]_vars BY StepAnswer
<1> QED BY <1>1, Inductive, PTL DEF Spec, RetryAnswered, AnswerStep

-----------------------------------------------------------------------------
(* Greatest elements.                                                      *)

LEMMA LessThan == \E R : IsWellFoundedOn(R, Nat) /\ \A x, y \in Nat : <<x, y>> \in R <=> x < y
<1>1. \A x, y \in Nat : <<x, y>> \in OpToRel(<, Nat) <=> x < y BY DEF OpToRel
<1> QED BY <1>1, NatLessThanWellFounded, Zenon

LEMMA Least ==
  ASSUME NEW T \in SUBSET Nat, T # {}
  PROVE  \E x \in T : \A y \in T : x <= y
<1>1. PICK R : IsWellFoundedOn(R, Nat) /\ \A x, y \in Nat : <<x, y>> \in R <=> x < y BY LessThan
<1>2. T \subseteq Nat OBVIOUS
<1>3. IsWellFoundedOn(R, Nat) BY <1>1
<1>4. PICK x \in T : \A y \in T : ~(<<y, x>> \in R) BY <1>2, <1>3, WFMin
<1>5. \A y \in T : y \in Nat /\ x \in Nat /\ ~(y < x) BY <1>1, <1>4
<1> QED BY <1>5

\* Some number is in the places of every element of a finite set.
LEMMA Greatest ==
  ASSUME NEW D, IsFiniteSet(D), D # {}, NEW f \in [D -> Nat]
  PROVE  \E p \in D : \A q \in D : f[q] <= f[p]
<1> DEFINE Top(S) == \E p \in S : \A q \in S : f[q] <= f[p]
           Bad == {n \in Nat : \E S \in SUBSET D : S # {} /\ Cardinality(S) = n /\ ~Top(S)}
<1>1. CASE Bad = {}
  <2>1. Cardinality(D) \in Nat /\ D \in SUBSET D BY FS_CardinalityType
  <2> QED BY <1>1, <2>1
<1>2. CASE Bad # {}
  <2>1. Bad \in SUBSET Nat OBVIOUS
  <2>2. PICK n \in Bad : \A m \in Bad : n <= m BY <1>2, <2>1, Least
  <2>3. PICK S \in SUBSET D : S # {} /\ Cardinality(S) = n /\ ~Top(S) BY <2>2
  <2>4. IsFiniteSet(S) /\ n \in Nat BY <2>3, FS_Subset
  <2>5. PICK x \in S : TRUE BY <2>3
  <2>6. IsFiniteSet(S \ {x}) /\ Cardinality(S \ {x}) = n - 1 BY <2>3, <2>4, <2>5, FS_RemoveElement
  <2>7. S \ {x} # {}
    <3> SUFFICES ASSUME S = {x} PROVE FALSE BY <2>5
    <3>1. f[x] \in Nat BY <2>5
    <3> QED BY <2>3, <3>1
  <2>8. Cardinality(S \ {x}) \in Nat /\ Cardinality(S \ {x}) < n BY <2>4, <2>6, FS_CardinalityType
  <2>9. S \ {x} \in SUBSET D OBVIOUS
  <2>10. ~(Cardinality(S \ {x}) \in Bad)
    <3> DEFINE c == Cardinality(S \ {x})
    <3> HIDE DEF Bad, c
    <3>1. c \in Nat /\ c < n BY <2>8 DEF c
    <3>2. c \in Bad => n <= c BY <2>2
    <3>3. c \notin Bad BY <2>4, <3>1, <3>2
    <3> QED BY <3>3 DEF c
  <2>11. Top(S \ {x}) BY <2>7, <2>8, <2>9, <2>10
  <2>12. PICK p \in S \ {x} : \A q \in S \ {x} : f[q] <= f[p] BY <2>11
  <2>13. \A q \in S : f[q] \in Nat OBVIOUS
  <2>14. CASE f[x] <= f[p] BY <2>3, <2>12, <2>14
  <2>15. CASE f[p] <= f[x]
    <3>1. \A q \in S : f[q] <= f[x] BY <2>5, <2>12, <2>13, <2>15
    <3> QED BY <2>3, <2>5, <3>1
  <2> QED BY <2>5, <2>12, <2>13, <2>14, <2>15
<1> QED BY <1>1, <1>2

-----------------------------------------------------------------------------
(* The order in which calls lock.                                          *)

Early == {"request", "user", "student", "assignment"}
Late == {"roster", "pair", "event"}

Class(l) ==
  CASE l.what = "request" -> 0
    [] l.what = "user" -> 1
    [] l.what = "student" -> 2
    [] l.what = "assignment" -> 3
    [] l.what = "roster" -> 4
    [] l.what = "pair" -> 5
    [] l.what = "event" -> 6
Place(l) ==
  CASE l.what \in {"user", "student"} /\ l.of \in Student \union User -> IdOf[l.of]
    [] l.what = "pair" /\ l.of \in Student \X Cohort -> IdOf[l.of[1]]
    [] OTHER -> 0

Before(l, m) == Class(l) < Class(m) \/ (Class(l) = Class(m) /\ Place(l) < Place(m))
Rising(list) == \A i, j \in DOMAIN list : i < j => Before(list[i], list[j])

LEMMA RisingJoined ==
  ASSUME NEW s \in Seq(Locks), NEW t \in Seq(Locks), Rising(s), Rising(t),
         \A l \in ToSet(s), m \in ToSet(t) : Class(l) < Class(m)
  PROVE  /\ s \o t \in Seq(Locks)
         /\ Rising(s \o t)
         /\ ToSet(s \o t) = ToSet(s) \union ToSet(t)
<1>1. /\ Len(s) \in Nat /\ DOMAIN s = 1..Len(s)
      /\ Len(t) \in Nat /\ DOMAIN t = 1..Len(t)
  BY Elements
<1>2. /\ s \o t \in Seq(Locks) /\ Len(s \o t) = Len(s) + Len(t)
      /\ \A i \in 1..Len(s) + Len(t) : (s \o t)[i] = IF i <= Len(s) THEN s[i] ELSE t[i - Len(s)]
  BY ConcatProperties
<1>3. DOMAIN (s \o t) = 1..(Len(s) + Len(t)) BY <1>2, Elements
<1>4. ASSUME NEW i \in DOMAIN (s \o t)
      PROVE  \/ i \in DOMAIN s /\ (s \o t)[i] = s[i]
             \/ i > Len(s) /\ i - Len(s) \in DOMAIN t /\ (s \o t)[i] = t[i - Len(s)]
  BY <1>1, <1>2, <1>3
<1>5. ToSet(s \o t) = ToSet(s) \union ToSet(t)
  <2>1. \A i \in DOMAIN (s \o t) : (s \o t)[i] \in ToSet(s) \union ToSet(t) BY <1>4 DEF ToSet
  <2>2. ToSet(s \o t) \subseteq ToSet(s) \union ToSet(t) BY <2>1 DEF ToSet
  <2> QED BY <2>2, Joined
<1>6. ASSUME NEW i \in DOMAIN (s \o t), NEW j \in DOMAIN (s \o t), i < j
      PROVE  Before((s \o t)[i], (s \o t)[j])
  <2>1. i \in Nat /\ j \in Nat BY <1>1, <1>3
  <2>2. CASE i \in DOMAIN s /\ (s \o t)[i] = s[i]
    <3>1. CASE j \in DOMAIN s /\ (s \o t)[j] = s[j] BY <1>6, <2>2, <3>1 DEF Rising
    <3>2. CASE j - Len(s) \in DOMAIN t /\ (s \o t)[j] = t[j - Len(s)]
      BY <2>2, <3>2 DEF ToSet, Before
    <3> QED BY <1>4, <3>1, <3>2
  <2>3. CASE i > Len(s) /\ i - Len(s) \in DOMAIN t /\ (s \o t)[i] = t[i - Len(s)]
    <3>1. j - Len(s) \in DOMAIN t /\ (s \o t)[j] = t[j - Len(s)] BY <1>1, <1>4, <1>6, <2>1, <2>3
    <3>2. i - Len(s) < j - Len(s) BY <1>1, <1>6, <2>1
    <3> QED BY <2>3, <3>1, <3>2 DEF Rising
  <2> QED BY <1>4, <2>2, <2>3
<1> QED BY <1>2, <1>5, <1>6 DEF Rising

LEMMA RisingOne ==
  ASSUME NEW l \in Locks
  PROVE  <<l>> \in Seq(Locks) /\ Rising(<<l>>) /\ ToSet(<<l>>) = {l}
<1>1. <<l>> \in Seq(Locks) /\ Len(<<l>>) = 1 /\ <<l>>[1] = l OBVIOUS
<1>2. DOMAIN <<l>> = 1..1 BY <1>1, Elements
<1>3. \A i \in 1..1 : i = 1 OBVIOUS
<1>4. ToSet(<<l>>) = {l} BY <1>1, <1>2, <1>3 DEF ToSet
<1>5. Rising(<<l>>) BY <1>2 DEF Rising
<1> QED BY <1>1, <1>4, <1>5

LEMMA RisingNone == <<>> \in Seq(Locks) /\ Rising(<<>>) /\ ToSet(<<>>) = {}
BY DEF Rising, ToSet

\* The list of ids is in their order.
LEMMA RisingIds ==
  ASSUME NEW ids, ids \subseteq Student \union User, IsFiniteSet(ids)
  PROVE  \A i, j \in DOMAIN InIdOrder(ids) :
           i < j => IdOf[InIdOrder(ids)[i]] < IdOf[InIdOrder(ids)[j]]
<1> DEFINE n == Cardinality(ids)
           rank(i) == Cardinality(UpTo(ids, i))
           order == [k \in 1..n |-> CHOOSE i \in ids : rank(i) = k]
<1>1. n \in Nat BY FS_CardinalityType
<1>2. InIdOrder(ids) = order /\ DOMAIN order = 1..n BY DEF InIdOrder
<1>3. /\ InIdOrder(ids) \in Seq(ids)
      /\ \A i \in ids : i \in ToSet(InIdOrder(ids))
  BY Ordered
<1>4. \A i \in ids : IsFiniteSet(UpTo(ids, i)) BY FS_Subset DEF UpTo
<1>5. ASSUME NEW k \in 1..n PROVE order[k] \in ids /\ rank(order[k]) = k
  <2>1. PICK i \in ids : rank(i) = k BY RankTaken
  <2>2. order[k] = CHOOSE j \in ids : rank(j) = k OBVIOUS
  <2> HIDE DEF rank, order
  <2> QED BY <2>1, <2>2
<1> HIDE DEF order
<1>6. ASSUME NEW i \in 1..n, NEW j \in 1..n, i < j PROVE IdOf[order[i]] < IdOf[order[j]]
  <2> DEFINE a == order[i]
             b == order[j]
  <2>1. a \in ids /\ b \in ids /\ rank(a) = i /\ rank(b) = j BY <1>5
  <2>2. IdOf[a] \in Nat /\ IdOf[b] \in Nat BY <2>1, RegistryAssumption
  <2> HIDE DEF a, b
  <2> SUFFICES ASSUME IdOf[b] <= IdOf[a] PROVE FALSE BY <2>2 DEF a, b
  <2>3. UpTo(ids, b) \subseteq UpTo(ids, a)
    <3> SUFFICES ASSUME NEW k \in ids, IdOf[k] <= IdOf[b] PROVE IdOf[k] <= IdOf[a] BY DEF UpTo
    <3>1. IdOf[k] \in Nat BY RegistryAssumption
    <3> QED BY <2>2, <3>1
  <2>4. Cardinality(UpTo(ids, b)) <= Cardinality(UpTo(ids, a)) BY <1>4, <2>1, <2>3, FS_Subset
  <2> QED BY <1>6, <2>1, <2>4
<1> QED BY <1>2, <1>6

LEMMA RisingEach ==
  ASSUME NEW what \in {"user", "student"}, NEW ids, ids \subseteq Student \union User, IsFiniteSet(ids)
  PROVE  /\ LockEach(what, InIdOrder(ids)) \in Seq(Locks)
         /\ Rising(LockEach(what, InIdOrder(ids)))
         /\ \A l \in ToSet(LockEach(what, InIdOrder(ids))) : l.what = what
<1> DEFINE order == InIdOrder(ids)
           list == LockEach(what, order)
<1>1. order \in Seq(ids) /\ DOMAIN list = DOMAIN order BY Ordered DEF LockEach
<1>2. list \in Seq(Locks) BY <1>1, EachLocked
<1>3. \A i \in DOMAIN list : list[i].what = what /\ list[i].of = order[i] /\ order[i] \in Student \union User
  BY <1>1, Elements DEF LockEach, Lock
<1>4. \A i, j \in DOMAIN order : i < j => IdOf[order[i]] < IdOf[order[j]] BY RisingIds
<1> HIDE DEF list, order
<1>5. Rising(list) BY <1>1, <1>3, <1>4 DEF Rising, Before, Class, Place
<1>6. \A l \in ToSet(list) : l.what = what BY <1>3 DEF ToSet
<1> QED BY <1>2, <1>5, <1>6 DEF list, order

LEMMA RisingFirst ==
  ASSUME NEW r \in Req, NEW load \in Load, load.kind # "register"
  PROVE  /\ Rising(FirstLocks(r, load))
         /\ \A l \in ToSet(FirstLocks(r, load)) : l.what \in Early
<1>1. RequestLock(r) \in Seq(Locks) /\ Rising(RequestLock(r)) /\ \A l \in ToSet(RequestLock(r)) : l.what = "request"
  <2>1. Lock("request", r, "X") \in Locks BY DEF Lock, Locks, Mode
  <2> QED BY <2>1, RisingOne DEF RequestLock, Lock
<1>2. Actor[r] \in User BY RegistryAssumption
<1>3. CASE load.kind = "link"
  <2> DEFINE users == {Actor[r]} \union {load.links[i].user : i \in DOMAIN load.links}
             accounts == LockEach("user", LinkOrder(r, load))
             students == LockEach("student", InIdOrder(LinkStudents(load)))
  <2>1. users \subseteq Student \union User /\ IsFiniteSet(users) BY <1>2, PlanFinite, FS_Union, FS_Singleton
  <2>2. LinkOrder(r, load) = InIdOrder(users) BY DEF LinkOrder
  <2> HIDE DEF users
  <2>3. accounts \in Seq(Locks) /\ Rising(accounts) /\ \A l \in ToSet(accounts) : l.what = "user"
    BY <2>1, <2>2, RisingEach
  <2>4. students \in Seq(Locks) /\ Rising(students) /\ \A l \in ToSet(students) : l.what = "student"
    <3>1. LinkStudents(load) \subseteq Student \union User /\ IsFiniteSet(LinkStudents(load)) BY PlanFinite
    <3> QED BY <3>1, RisingEach
  <2>5. FirstLocks(r, load) = (RequestLock(r) \o accounts) \o students BY <1>3 DEF FirstLocks
  <2> HIDE DEF accounts, students
  <2>6. \A l \in ToSet(RequestLock(r)), m \in ToSet(accounts) : Class(l) < Class(m) BY <1>1, <2>3 DEF Class
  <2>7. /\ RequestLock(r) \o accounts \in Seq(Locks) /\ Rising(RequestLock(r) \o accounts)
        /\ ToSet(RequestLock(r) \o accounts) = ToSet(RequestLock(r)) \union ToSet(accounts)
    BY <1>1, <2>3, <2>6, RisingJoined
  <2>8. \A l \in ToSet(RequestLock(r) \o accounts), m \in ToSet(students) : Class(l) < Class(m)
    BY <1>1, <2>3, <2>4, <2>7 DEF Class
  <2>9. /\ Rising(FirstLocks(r, load))
        /\ ToSet(FirstLocks(r, load)) = ToSet(RequestLock(r) \o accounts) \union ToSet(students)
    BY <2>4, <2>5, <2>7, <2>8, RisingJoined
  <2> QED BY <1>1, <2>3, <2>4, <2>7, <2>9 DEF Early
<1>4. CASE load.kind # "link"
  <2> DEFINE account1 == <<Lock("user", Actor[r], "X")>>
             rest == IF load.kind = "create" THEN <<>> ELSE <<Lock("assignment", None, "X")>>
  <2>1. Lock("user", Actor[r], "X") \in Locks /\ Lock("assignment", None, "X") \in Locks
    BY <1>2 DEF Lock, Locks, Mode
  <2>2. account1 \in Seq(Locks) /\ Rising(account1) /\ \A l \in ToSet(account1) : l.what = "user"
    BY <2>1, RisingOne DEF Lock
  <2>3. rest \in Seq(Locks) /\ Rising(rest) /\ \A l \in ToSet(rest) : l.what = "assignment"
    <3>1. Lock("assignment", None, "X").what = "assignment" BY DEF Lock
    <3>2. CASE load.kind = "create" BY <3>2, RisingNone
    <3>3. CASE load.kind # "create" BY <2>1, <3>1, <3>3, RisingOne
    <3> QED BY <3>2, <3>3
  <2>4. FirstLocks(r, load) = (RequestLock(r) \o account1) \o rest BY <1>4 DEF FirstLocks
  <2> HIDE DEF account1, rest
  <2>5. \A l \in ToSet(RequestLock(r)), m \in ToSet(account1) : Class(l) < Class(m) BY <1>1, <2>2 DEF Class
  <2>6. /\ RequestLock(r) \o account1 \in Seq(Locks) /\ Rising(RequestLock(r) \o account1)
        /\ ToSet(RequestLock(r) \o account1) = ToSet(RequestLock(r)) \union ToSet(account1)
    BY <1>1, <2>2, <2>5, RisingJoined
  <2>7. \A l \in ToSet(RequestLock(r) \o account1), m \in ToSet(rest) : Class(l) < Class(m)
    BY <1>1, <2>2, <2>3, <2>6 DEF Class
  <2>8. /\ Rising(FirstLocks(r, load))
        /\ ToSet(FirstLocks(r, load)) = ToSet(RequestLock(r) \o account1) \union ToSet(rest)
    BY <2>3, <2>4, <2>6, <2>7, RisingJoined
  <2> QED BY <1>1, <2>2, <2>3, <2>6, <2>8 DEF Early
<1> QED BY <1>3, <1>4

LEMMA RisingSecond ==
  ASSUME TablesOK, NEW r \in Req, NEW load \in Load, load.kind # "register"
  PROVE  /\ Rising(WriteLocks(r, load))
         /\ \A l \in ToSet(WriteLocks(r, load)) : l.what \in Late
<1> DEFINE table == Lock("roster", None, "W")
           share == Lock("roster", None, "S")
<1>1. /\ table \in Locks /\ share \in Locks /\ table.what = "roster" /\ share.what = "roster"
      /\ \A s \in Student, c \in Cohort : PairLock(s, c) \in Locks
      /\ \A e \in Event : Lock("event", e, "K") \in Locks
  BY DEF Lock, Locks, Mode, PairLock
<1>2. ASSUME NEW body \in Body
      PROVE  /\ EventLocks(body) \in Seq(Locks) /\ Rising(EventLocks(body))
             /\ \A l \in ToSet(EventLocks(body)) : l.what = "event"
  <2>1. body.event # None => Lock("event", body.event, "K") \in Locks BY <1>1 DEF Body
  <2>2. Lock("event", body.event, "K").what = "event" BY DEF Lock
  <2>3. CASE body.event = None BY <2>3, RisingNone DEF EventLocks
  <2>4. CASE body.event # None BY <2>1, <2>2, <2>4, RisingOne DEF EventLocks
  <2> QED BY <2>3, <2>4
<1>3. load.body \in Body /\ assignment.body \in Body BY DEF Load, TablesOK, Assignment
<1> HIDE DEF table, share
<1>4. CASE load.kind = "link"
  <2> DEFINE students == InIdOrder(LinkStudents(load))
             pairs == [i \in DOMAIN students |-> PairLock(students[i], LinkOf(load, students[i]).cohort)]
  <2>1. WriteLocks(r, load) = <<table>> \o pairs BY <1>4 DEF WriteLocks, LinkLocks, table
  <2>2. LinkStudents(load) \subseteq Student \union User /\ IsFiniteSet(LinkStudents(load)) BY PlanFinite
  <2>3. /\ students \in Seq(LinkStudents(load))
        /\ \A i, j \in DOMAIN students : i < j => IdOf[students[i]] < IdOf[students[j]]
    BY <2>2, Ordered, RisingIds
  <2>4. pairs \in Seq(Locks) BY PairsLocked
  <2>5. \A i \in DOMAIN pairs : i \in DOMAIN students /\ pairs[i].what = "pair" /\ pairs[i].of[1] = students[i]
                              /\ pairs[i].of \in Student \X Cohort
    <3>1. ASSUME NEW i \in DOMAIN students PROVE students[i] \in Student /\ LinkOf(load, students[i]).cohort \in Cohort
      <4>1. students[i] \in LinkStudents(load) BY <2>3, Elements
      <4> QED BY <4>1, PlanFinite, LinkCohort
    <3> QED BY <3>1 DEF PairLock, Lock
  <2> HIDE DEF pairs, students
  <2>6. Rising(pairs) BY <2>3, <2>5 DEF Rising, Before, Class, Place
  <2>7. \A l \in ToSet(pairs) : l.what = "pair" BY <2>5 DEF ToSet
  <2>8. <<table>> \in Seq(Locks) /\ Rising(<<table>>) /\ ToSet(<<table>>) = {table} BY <1>1, RisingOne
  <2>9. \A l \in ToSet(<<table>>), m \in ToSet(pairs) : Class(l) < Class(m) BY <1>1, <2>7, <2>8 DEF Class
  <2>10. /\ Rising(WriteLocks(r, load))
         /\ ToSet(WriteLocks(r, load)) = ToSet(<<table>>) \union ToSet(pairs)
    BY <2>1, <2>4, <2>6, <2>8, <2>9, RisingJoined
  <2> QED BY <1>1, <2>7, <2>8, <2>10 DEF Late
<1>5. CASE load.kind = "publish" /\ assignment.status = "DRAFT"
  <2>1. WriteLocks(r, load) = <<share>> \o EventLocks(assignment.body)
    BY <1>5 DEF WriteLocks, PublishLocks, share
  <2>2. <<share>> \in Seq(Locks) /\ Rising(<<share>>) /\ ToSet(<<share>>) = {share} BY <1>1, RisingOne
  <2>3. \A l \in ToSet(<<share>>), m \in ToSet(EventLocks(assignment.body)) : Class(l) < Class(m)
    BY <1>1, <1>2, <1>3, <2>2 DEF Class
  <2>4. /\ Rising(WriteLocks(r, load))
        /\ ToSet(WriteLocks(r, load)) = ToSet(<<share>>) \union ToSet(EventLocks(assignment.body))
    BY <1>2, <1>3, <2>1, <2>2, <2>3, RisingJoined
  <2> QED BY <1>1, <1>2, <1>3, <2>2, <2>4 DEF Late
<1>6. CASE load.kind # "link" /\ ~(load.kind = "publish" /\ assignment.status = "DRAFT")
  <2>1. WriteLocks(r, load) = EventLocks(load.body) \/ WriteLocks(r, load) = <<>>
    BY <1>6 DEF WriteLocks
  <2> QED BY <1>2, <1>3, <2>1, RisingNone DEF Late
<1> QED BY <1>4, <1>5, <1>6

\* A call other than a registration waits for a lock beyond all it holds.
InOrder(p) ==
  Busy(p) /\ txn[p].load.kind # "register" =>
    /\ Rising(txn[p].todo)
    /\ \A h \in txn[p].holds : \A l \in ToSet(txn[p].todo) : Before(h, l)
    /\ txn[p].pc = "check" => \A l \in Taken(p) : l.what \in Early

LEMMA Places ==
  ASSUME NEW h \in Locks, NEW l \in Locks
  PROVE  /\ Class(h) \in 0..6 /\ Place(h) \in Nat
         /\ h.what \in Early /\ l.what \in Late => Before(h, l)
<1>1. h.what \in Early \union Late BY DEF Locks, Early, Late
<1>2. Class(h) \in 0..6 BY <1>1 DEF Class, Early, Late
<1>3. h.what \in Early => Class(h) <= 3 BY DEF Class, Early
<1>4. l.what \in Late => Class(l) \in 4..6 BY DEF Class, Late
<1>5. Place(h) \in Nat BY RegistryAssumption DEF Place
<1> QED BY <1>2, <1>3, <1>4, <1>5 DEF Before

LEMMA RisingTail ==
  ASSUME NEW s \in Seq(Locks), s # <<>>, Rising(s)
  PROVE  Rising(Tail(s)) /\ \A l \in ToSet(Tail(s)) : Before(Head(s), l)
<1>1. Len(s) \in Nat /\ DOMAIN s = 1..Len(s) BY Elements
<1>2. Len(s) # 0 /\ Head(s) = s[1] /\ Tail(s) \in Seq(Locks) BY EmptySeq, HeadTailProperties
<1>3. /\ Len(Tail(s)) = Len(s) - 1
      /\ \A i \in 1..Len(s) - 1 : Tail(s)[i] = s[i + 1]
  BY HeadTailProperties
<1>4. DOMAIN Tail(s) = 1..(Len(s) - 1) BY <1>2, <1>3, Elements
<1>5. \A i \in DOMAIN Tail(s) : i \in Nat /\ i + 1 \in DOMAIN s /\ Tail(s)[i] = s[i + 1] /\ 1 < i + 1
  BY <1>1, <1>3, <1>4
<1>6. 1 \in DOMAIN s BY <1>1, <1>2
<1>7. Rising(Tail(s))
  <2>1. \A i, j \in DOMAIN Tail(s) : i < j => i + 1 < j + 1 BY <1>5
  <2> QED BY <1>5, <2>1 DEF Rising
<1>8. \A i \in DOMAIN Tail(s) : Before(Head(s), Tail(s)[i]) BY <1>2, <1>5, <1>6 DEF Rising
<1> QED BY <1>7, <1>8 DEF ToSet

LEMMA InitOrder == Init => \A p \in Proc : InOrder(p)
BY QuietTxn DEF Init, InOrder, Busy

LEMMA OrderStep == IInv /\ (\A p \in Proc : InOrder(p)) /\ Next => \A p \in Proc : InOrder(p)'
<1> SUFFICES ASSUME IInv, \A p \in Proc : InOrder(p), Next, NEW p \in Proc,
                    Busy(p)', txn'[p].load.kind # "register"
             PROVE  InOrder(p)'
  BY DEF InOrder
<1>1. Shape BY DEF IInv
<1>2. CASE txn'[p] = txn[p] BY <1>2 DEF InOrder, Busy, Taken
<1>3. CASE txn'[p] # txn[p]
  <2>1. PICK q \in Proc : Begin(q) \/ Acquire(q) \/ Check(q) \/ Write(q) \/ Commit(q) \/ Abort(q)
    BY <1>3, CallSteps
  <2>2. q = p BY <1>1, <1>3, <2>1, CallGoesOn
  <2>3. ~(\E how \in How : Ended(p, how))
    <3> SUFFICES ASSUME NEW how \in How, Ended(p, how) PROVE FALSE OBVIOUS
    <3>1. txn'[p] = Quiet BY <1>1, EndedFacts
    <3> QED BY <3>1, QuietTxn DEF Busy
  <2>4. CASE Begin(p)
    <3>1. PICK r \in Req, load \in Load :
            txn'[p] = [pc |-> "check", req |-> r, load |-> load, todo |-> FirstLocks(r, load),
                       holds |-> {}, got |-> {}]
      BY <1>1, <2>4, BeginFacts
    <3>2. txn'[p].load = load /\ txn'[p].todo = FirstLocks(r, load) /\ txn'[p].holds = {} BY <3>1
    <3>3. /\ Rising(FirstLocks(r, load))
          /\ \A l \in ToSet(FirstLocks(r, load)) : l.what \in Early
      BY <3>2, RisingFirst
    <3> QED BY <3>2, <3>3 DEF InOrder, Taken
  <2>5. CASE Acquire(p)
    <3>1. /\ Busy(p) /\ txn[p].todo # <<>>
          /\ txn'[p].pc = txn[p].pc /\ txn'[p].load = txn[p].load
          /\ txn'[p].todo = Tail(txn[p].todo)
          /\ txn'[p].holds = txn[p].holds \union {Head(txn[p].todo)}
      BY <1>1, <2>5, AcquireFacts
    <3>2. txn[p].todo \in Seq(Locks) BY <1>1 DEF Shape, TxnsOK, Txn
    <3>3. /\ Rising(Tail(txn[p].todo))
          /\ \A l \in ToSet(Tail(txn[p].todo)) : Before(Head(txn[p].todo), l)
      BY <3>1, <3>2, RisingTail DEF InOrder
    <3>4. /\ ToSet(Tail(txn[p].todo)) \subseteq ToSet(txn[p].todo)
          /\ Head(txn[p].todo) \in ToSet(txn[p].todo)
      BY <3>1, <3>2, Split
    <3> QED BY <3>1, <3>3, <3>4 DEF InOrder, Taken
  <2>6. CASE Check(p)
    <3>1. txn[p].pc = "check" /\ txn[p].todo = <<>>
          /\ txn'[p] = [pc |-> "write", req |-> txn[p].req, load |-> txn[p].load,
                        todo |-> WriteLocks(txn[p].req, txn[p].load), holds |-> txn[p].holds,
                        got |-> txn[p].got]
      BY <1>1, <2>3, <2>6, CheckFacts
    <3>2. /\ txn'[p].pc = "write" /\ txn'[p].load = txn[p].load /\ txn'[p].holds = txn[p].holds
          /\ txn'[p].todo = WriteLocks(txn[p].req, txn[p].load)
      BY <3>1
    <3>3. Busy(p) /\ SentBy(txn[p].req, txn[p].load) BY <1>1, <3>1 DEF Busy, Shape, TxnsOK
    <3>4. /\ Rising(WriteLocks(txn[p].req, txn[p].load))
          /\ \A l \in ToSet(WriteLocks(txn[p].req, txn[p].load)) : l.what \in Late
      BY <1>1, <3>2, <3>3, RisingSecond DEF SentBy, Shape
    <3>5. \A h \in txn[p].holds : h \in Locks /\ h.what \in Early
      BY <1>1, <3>1, <3>2, <3>3 DEF InOrder, Taken, Shape, TxnsOK, Txn
    <3>6. \A l \in ToSet(WriteLocks(txn[p].req, txn[p].load)) : l \in Locks
      BY <1>1, <3>3, SecondFacts, Elements DEF SentBy, Shape
    <3> QED BY <3>2, <3>4, <3>5, <3>6, Places DEF InOrder
  <2>7. CASE Write(p)
    <3>1. "duplicate" \in How /\ "refused" \in How BY DEF How
    <3>2. PICK got : txn'[p] = [pc |-> "commit", req |-> txn[p].req, load |-> txn[p].load,
                               todo |-> <<>>, holds |-> txn[p].holds, got |-> got]
      BY <1>1, <2>3, <2>7, <3>1, WriteFacts
    <3>3. txn'[p].pc = "commit" /\ txn'[p].todo = <<>> BY <3>2
    <3> QED BY <3>3, RisingNone DEF InOrder
  <2>8. ~Commit(p) BY <1>1, <2>3, CommitFacts DEF How
  <2>9. ~Abort(p) BY <2>3, AbortFacts DEF How
  <2> QED BY <2>1, <2>2, <2>4, <2>5, <2>6, <2>7, <2>8, <2>9
<1> QED BY <1>2, <1>3

LEMMA NoCircle == IInv /\ (\A p \in Proc : InOrder(p)) => CircleNeedsRegistration
<1> SUFFICES ASSUME IInv, \A p \in Proc : InOrder(p),
                    NEW D, D \subseteq {p \in Proc : txn[p].pc # "idle" /\ txn[p].load.kind # "register"}, D # {},
                    \A p \in D : \E q \in D : WaitsFor(p, q)
             PROVE  FALSE
  BY DEF CircleNeedsRegistration
<1> DEFINE next(p) == Head(txn[p].todo)
<1>1. \A p \in D : p \in Proc /\ Busy(p) /\ txn[p].load.kind # "register" BY DEF Busy
<1>2. ASSUME NEW p \in D
      PROVE  /\ next(p) \in Locks /\ Class(next(p)) \in 0..6 /\ Place(next(p)) \in Nat
             /\ next(p) \in ToSet(txn[p].todo)
             /\ \A h \in txn[p].holds : Before(h, next(p))
  <2>1. txn[p].todo # <<>> BY DEF WaitsFor
  <2>2. txn[p].todo \in Seq(Locks) BY <1>1 DEF IInv, Shape, TxnsOK, Txn
  <2>3. next(p) \in Locks /\ next(p) \in ToSet(txn[p].todo) BY <2>1, <2>2, Split
  <2> HIDE DEF next
  <2> QED BY <1>1, <2>3, Places DEF InOrder
\* A call that is waited for waits for a lock further on.
<1>3. ASSUME NEW p \in D PROVE \E q \in D : Before(next(p), next(q))
  <2>1. PICK q \in D : WaitsFor(p, q) OBVIOUS
  <2>2. PICK h \in txn[q].holds : Conflict(next(p), h) BY <2>1 DEF WaitsFor
  <2>3. h.what = next(p).what /\ h.of = next(p).of BY <2>2 DEF Conflict
  <2> HIDE DEF next
  <2>4. Class(h) = Class(next(p)) /\ Place(h) = Place(next(p)) BY <2>3 DEF Class, Place
  <2>5. Before(h, next(q)) BY <1>2
  <2> QED BY <2>4, <2>5 DEF Before
<1> HIDE DEF next
<1> DEFINE class == [p \in D |-> Class(next(p))]
<1>4. IsFiniteSet(D) BY FiniteCalls, FS_Subset
<1>5. class \in [D -> Nat] BY <1>2
<1>6. PICK p \in D : \A q \in D : class[q] <= class[p] BY <1>4, <1>5, Greatest
<1> DEFINE E == {q \in D : class[q] = class[p]}
           place == [q \in E |-> Place(next(q))]
<1>7. IsFiniteSet(E) /\ E # {} BY <1>4, FS_Subset
<1>8. place \in [E -> Nat] BY <1>2
<1>9. PICK s \in E : \A q \in E : place[q] <= place[s]
  <2> HIDE DEF E, place
  <2> QED BY <1>7, <1>8, Greatest
<1>10. s \in D /\ Class(next(s)) = Class(next(p)) OBVIOUS
<1>11. PICK q \in D : Before(next(s), next(q)) BY <1>3, <1>10
<1>12. Class(next(q)) <= Class(next(p)) /\ Class(next(q)) \in 0..6 /\ Class(next(p)) \in 0..6
  BY <1>2, <1>6
<1>13. Class(next(q)) = Class(next(p)) /\ Place(next(s)) < Place(next(q))
  <2> HIDE DEF class, E
  <2> QED BY <1>10, <1>11, <1>12 DEF Before
<1>14. q \in E /\ place[q] <= place[s] BY <1>9, <1>13
<1>15. Place(next(q)) <= Place(next(s)) BY <1>14
<1>16. Place(next(q)) \in Nat /\ Place(next(s)) \in Nat BY <1>2, <1>10
<1> HIDE DEF class, E, place
<1> QED BY <1>13, <1>15, <1>16

\* Link plans, saves, publications and closures alone never wait for one
\* another in a circle, however many there are: they lock the request, the
\* accounts and the students in the order of their ids, the assignment, the
\* roster, the pairs and the lesson, in this order.
THEOREM OnlyRegistrationsDeadlock == Spec => []CircleNeedsRegistration
<1> DEFINE All == IInv /\ \A p \in Proc : InOrder(p)
<1>1. Init => All BY InitIInv, InitOrder
<1>2. All /\ [Next]_vars => All'
  <2>1. CASE Next BY <2>1, StepIInv, OrderStep
  <2>2. CASE UNCHANGED vars
    <3>1. UNCHANGED txn BY <2>2 DEF vars
    <3> QED BY <2>2, <3>1, StepIInv DEF InOrder, Busy, Taken
  <2> QED BY <2>1, <2>2
<1>3. All => CircleNeedsRegistration BY NoCircle
<1> QED BY <1>1, <1>2, <1>3, PTL DEF Spec

=============================================================================
