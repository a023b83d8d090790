---------------------- MODULE ApplicationForms_proofs ----------------------
(***************************************************************************)
(* Proofs about the rate limits and about the application form.            *)
(*                                                                         *)
(* The first part is about RateLimit alone: the limits hold, and the       *)
(* announced waits are honest, for any axes, limits and windows and any    *)
(* number of overlapping calls.  The steps considered there are those of   *)
(* RateLimit and the release of any reservation by somebody else, so that  *)
(* the form, which composes RateLimit, can use the result: it takes no     *)
(* other steps of the limits.  What the form itself promises follows from  *)
(* the inductive invariant FInv, in the second part.                       *)
(***************************************************************************)
EXTENDS ApplicationForms, FiniteSetTheorems, SequenceTheorems, TLAPS

\* The rows of a reservation go for whatever reason.
Freed == \E id : Released(id) /\ UNCHANGED <<now, locks, call, told, made>>

AnyNext == Next \/ Freed

-----------------------------------------------------------------------------
\* The inductive invariant.

Span(a) == Window[a] * Sec

OnAxis(E, a) == {e \in E : e.axis = a}

\* The events of an axis dated after lo and not after hi.
Between(E, a, lo, hi) == {e \in E : e.axis = a /\ lo < e.at /\ e.at <= hi}

Few(E, a, lo, hi) == Cardinality(Between(E, a, lo, hi)) < Limit[a]

\* No call has two events on an axis in mind at once, so an axis has finitely
\* many.
Finite == \A a \in Axis : IsFiniteSet(OnAxis(events, a))

\* A transaction holds the locks it has taken, and from the clock's reading on
\* all of them.
Held ==
  \A p \in Call :
    /\ call[p].left \subseteq call[p].axes
    /\ call[p].pc # "idle" => call[p].axes \in Asked
    /\ call[p].pc = "locking" => \A a \in call[p].axes \ call[p].left : locks[a] = p
    /\ call[p].pc = "counting" => \A a \in call[p].axes : locks[a] = p

\* Nothing is dated after the clock, and no event on the axes of a call that
\* counts is dated after the time the call has read.
Clocked ==
  /\ \A e \in events : e.at <= now
  /\ \A p \in Call :
       /\ told[p].at <= now
       /\ call[p].pc = "counting" =>
            /\ call[p].at <= now
            /\ \A e \in events : e.axis \in call[p].axes => e.at <= call[p].at

\* An attempt that was let through has its events as long as a window reaches.
Mirrored ==
  \A s \in standing :
    s.at >= now - Retention =>
      \A a \in s.axes : [id |-> s.id, axis |-> a, at |-> s.at] \in events

\* A reservation's id names its call.
Named ==
  /\ \A s, t \in standing : s.id = t.id => s = t
  /\ \A s \in standing : \A p \in Call :
       s.id[1] = p => /\ s.id[2] <= made[p]
                      /\ call[p].pc # "idle" => s.id[2] < made[p]

\* No window of an axis, wherever it ends, has more events than the limit.
EventBound ==
  \A a \in Axis : \A x \in Int :
    Cardinality(Between(events, a, x - Span(a), x)) <= Limit[a]

\* On an axis a call has looked at, the events that will still be in the
\* window after the wait found so far are fewer than the limit.
Counted ==
  \A p \in Call : call[p].pc = "counting" =>
    \A a \in call[p].axes \ call[p].left :
      Few(events, a, call[p].at + call[p].retry * Sec - Span(a), call[p].at)

\* The same of an answer that has been given, for the events before it.
Promised ==
  \A p \in Call : \A a \in told[p].axes :
    Few(events, a, told[p].until - Span(a), told[p].at - 1)

\* What is going to be recorded is not dated before an answer given.
Later ==
  \A p, q \in Call : \A a \in told[p].axes :
    call[q].pc = "counting" /\ a \in call[q].axes => call[q].at >= told[p].at

Base == TypeOK /\ Held /\ Clocked /\ Named /\ Later

IInv == Base /\ Mirrored /\ Finite /\ EventBound /\ Counted /\ Promised

-----------------------------------------------------------------------------
\* Arithmetic of the windows.

LEMMA SpanBounds ==
  ASSUME NEW a \in Axis
  PROVE  /\ Span(a) \in Nat
         /\ Span(a) > 0
         /\ Span(a) <= Retention
<1>1. Window[a] \in Nat /\ Window[a] > 0 /\ Sec \in Nat /\ Sec > 0 BY RateAssumption
<1>2. Window[a] * Sec \in Nat /\ Window[a] * Sec > 0 BY <1>1
<1>3. Window[a] * Sec <= Retention BY RateAssumption
<1> QED BY <1>2, <1>3 DEF Span

\* A number of seconds is a number of ticks, and more are more.
LEMMA Seconds ==
  ASSUME NEW m \in Nat, NEW n \in Nat
  PROVE  /\ m * Sec \in Nat
         /\ m <= n => m * Sec <= n * Sec
<1>1. Sec \in Nat /\ Sec > 0 BY RateAssumption
<1> QED BY <1>1

\* Rounding up never shortens a wait.
LEMMA RoundedUp ==
  ASSUME NEW t \in Int
  PROVE  /\ CeilSec(t) \in Int
         /\ CeilSec(t) * Sec >= t
<1>1. Sec \in Nat /\ Sec > 0 BY RateAssumption
<1>2. PICK d \in Int : d = t + Sec - 1 BY <1>1
<1>3. d \div Sec \in Int BY <1>1, <1>2
<1>4. d = Sec * (d \div Sec) + (d % Sec) /\ d % Sec \in 0..(Sec - 1) BY <1>1, <1>2
<1>5. Sec * (d \div Sec) = (d \div Sec) * Sec BY <1>1, <1>3
<1>6. CeilSec(t) = d \div Sec BY <1>2 DEF CeilSec
<1> QED BY <1>1, <1>2, <1>3, <1>4, <1>5, <1>6

-----------------------------------------------------------------------------
\* Counting events.

LEMMA Smaller ==
  ASSUME NEW S, NEW T, IsFiniteSet(T), S \subseteq T
  PROVE  /\ IsFiniteSet(S)
         /\ Cardinality(S) \in Nat
         /\ Cardinality(T) \in Nat
         /\ Cardinality(S) <= Cardinality(T)
BY FS_Subset, FS_CardinalityType

LEMMA OneMore ==
  ASSUME NEW S, NEW x, IsFiniteSet(S)
  PROVE  /\ IsFiniteSet(S \union {x})
         /\ Cardinality(S \union {x}) <= Cardinality(S) + 1
<1>1. Cardinality(S) \in Nat BY FS_CardinalityType
<1>2. IsFiniteSet(S \union {x}) /\ Cardinality(S \union {x}) = IF x \in S THEN Cardinality(S) ELSE Cardinality(S) + 1
  BY FS_AddElement
<1> QED BY <1>1, <1>2

LEMMA OneLess ==
  ASSUME NEW S, NEW x \in S, IsFiniteSet(S)
  PROVE  /\ IsFiniteSet(S \ {x})
         /\ Cardinality(S \ {x}) + 1 = Cardinality(S)
<1>1. Cardinality(S) \in Nat /\ Cardinality(S \ {x}) \in Nat BY FS_CardinalityType, FS_RemoveElement
<1>2. Cardinality(S \ {x}) = Cardinality(S) - 1 BY FS_RemoveElement
<1> QED BY <1>1, <1>2, FS_RemoveElement

LEMMA BetweenFinite ==
  ASSUME Finite, NEW a \in Axis, NEW lo, NEW hi
  PROVE  IsFiniteSet(Between(events, a, lo, hi))
<1>1. Between(events, a, lo, hi) \subseteq OnAxis(events, a) BY DEF Between, OnAxis
<1> QED BY <1>1, Smaller DEF Finite

\* What few contain is few.
LEMMA Fewer ==
  ASSUME Finite, NEW a \in Axis, Limit[a] \in Nat,
         NEW lo, NEW hi, NEW F, NEW lo2, NEW hi2,
         Between(F, a, lo2, hi2) \subseteq Between(events, a, lo, hi),
         Few(events, a, lo, hi)
  PROVE  Few(F, a, lo2, hi2)
<1>1. IsFiniteSet(Between(events, a, lo, hi)) BY BetweenFinite
<1> QED BY <1>1, Smaller DEF Few

-----------------------------------------------------------------------------
(* Transactions, locks and times: Base, one lemma per kind of step.        *)

LEMMA InitIInv == Init => IInv
<1> SUFFICES ASSUME Init PROVE IInv OBVIOUS
<1> USE DEF Init
<1>1. Base
  BY RateAssumption DEF Base, TypeOK, Held, Clocked, Named, Later, CallState, Idle, Untold
<1>2. \A a \in Axis : \A lo, hi : Between(events, a, lo, hi) = {} BY DEF Between
<1>3. Cardinality({}) = 0 BY FS_EmptySet
<1>4. Finite
  <2>1. \A a \in Axis : OnAxis(events, a) = {} BY DEF OnAxis
  <2> QED BY <2>1, FS_EmptySet DEF Finite
<1>5. EventBound
  <2> SUFFICES ASSUME NEW a \in Axis, NEW x \in Int
               PROVE  Cardinality(Between(events, a, x - Span(a), x)) <= Limit[a]
    BY DEF EventBound
  <2>1. Cardinality(Between(events, a, x - Span(a), x)) = 0 BY <1>2, <1>3
  <2>2. Limit[a] \in Nat BY RateAssumption
  <2> QED BY <2>1, <2>2
<1>6. Counted /\ Promised BY DEF Counted, Promised, Idle, Untold
<1> QED BY <1>1, <1>4, <1>5, <1>6 DEF IInv, Mirrored

LEMMA StartBase ==
  ASSUME Base, NEW p \in Call, Start(p)
  PROVE  Base'
<1> USE DEF Base, Start
<1>1. PICK axes \in Asked :
        call' = [call EXCEPT ![p] = [Idle EXCEPT !.pc = "locking", !.axes = axes, !.left = axes]]
  OBVIOUS
<1>2. axes \subseteq Axis BY RateAssumption
<1>3. call'[p] = [pc |-> "locking", axes |-> axes, left |-> axes, at |-> 0, retry |-> 0]
  BY <1>1 DEF TypeOK, Idle
<1>4. \A q \in Call \ {p} : call'[q] = call[q] BY <1>1 DEF TypeOK
<1>5. made[p] \in Nat /\ made'[p] = made[p] + 1 /\ \A q \in Call \ {p} : made'[q] = made[q]
  BY DEF TypeOK
<1>6. TypeOK'
  <2>1. [pc |-> "locking", axes |-> axes, left |-> axes, at |-> 0, retry |-> 0] \in CallState
    BY <1>2 DEF CallState
  <2>2. call' \in [Call -> CallState] BY <1>1, <2>1, <1>3 DEF TypeOK
  <2>3. made' \in [Call -> Nat] BY <1>5 DEF TypeOK
  <2> QED BY <2>2, <2>3 DEF TypeOK
<1>7. Held' BY <1>3, <1>4 DEF Held
<1>8. Clocked' BY <1>3, <1>4 DEF Clocked
<1>9. Named'
  <2>1. \A s \in standing : s.id[1] \in Call /\ s.id[2] \in Nat BY DEF TypeOK, Attempt, Id
  <2> QED BY <1>4, <1>5, <2>1 DEF Named, TypeOK
<1>10. Later' BY <1>3, <1>4 DEF Later
<1> QED BY <1>6, <1>7, <1>8, <1>9, <1>10

LEMMA LockBase ==
  ASSUME Base, NEW p \in Call, Lock(p)
  PROVE  Base'
<1> USE DEF Base, Lock
<1>1. PICK a \in call[p].left :
        /\ locks[a] = None
        /\ locks' = [locks EXCEPT ![a] = p]
        /\ call' = [call EXCEPT ![p].left = @ \ {a}]
  OBVIOUS
<1>2. a \in Axis /\ call[p] \in CallState BY DEF TypeOK, CallState
<1>3. call'[p] = [call[p] EXCEPT !.left = @ \ {a}] /\ call'[p] \in CallState
  BY <1>1, <1>2 DEF TypeOK, CallState
<1>4. \A q \in Call \ {p} : call'[q] = call[q] BY <1>1 DEF TypeOK
<1>5. TypeOK' BY <1>1, <1>2, <1>3 DEF TypeOK
<1>6. locks'[a] = p /\ \A b \in Axis \ {a} : locks'[b] = locks[b] BY <1>1, <1>2 DEF TypeOK
<1>7. Held'
  <2>1. \A q \in Call : call[q].axes \subseteq Axis BY DEF TypeOK, CallState
  <2>2. \A q \in Call \ {p} :
          /\ call[q].pc = "counting" => a \notin call[q].axes
          /\ call[q].pc = "locking" => a \notin call[q].axes \ call[q].left
    BY <1>1, RateAssumption DEF Held
  <2>3. call'[p].pc = "locking" /\ call'[p].axes = call[p].axes /\ call'[p].left = call[p].left \ {a}
    BY <1>2, <1>3 DEF CallState
  <2>4. \A b \in call'[p].axes \ call'[p].left : locks'[b] = p
    BY <1>6, <2>1, <2>3 DEF Held
  <2>5. \A q \in Call \ {p} :
          /\ call[q].pc = "locking" => \A b \in call[q].axes \ call[q].left : locks'[b] = q
          /\ call[q].pc = "counting" => \A b \in call[q].axes : locks'[b] = q
    BY <1>6, <2>1, <2>2 DEF Held
  <2> QED BY <1>4, <2>3, <2>4, <2>5 DEF Held
<1>8. call'[p].pc = call[p].pc /\ call'[p].axes = call[p].axes /\ call'[p].at = call[p].at
  BY <1>2, <1>3 DEF CallState
<1>9. Clocked' BY <1>4, <1>8 DEF Clocked
<1>10. Named' BY <1>4, <1>8 DEF Named
<1>11. Later' BY <1>4, <1>8 DEF Later
<1> QED BY <1>5, <1>7, <1>9, <1>10, <1>11

LEMMA ReadClockBase ==
  ASSUME Base, NEW p \in Call, ReadClock(p)
  PROVE  Base'
<1> USE DEF Base, ReadClock
<1>1. call[p] \in CallState BY DEF TypeOK
<1>2. call'[p] = [call[p] EXCEPT !.pc = "counting", !.left = call[p].axes, !.at = now]
  BY DEF TypeOK
<1>3. /\ call'[p] \in CallState
      /\ call'[p].pc = "counting"
      /\ call'[p].axes = call[p].axes
      /\ call'[p].left = call[p].axes
      /\ call'[p].at = now
  BY <1>1, <1>2 DEF CallState, TypeOK
<1>4. \A q \in Call \ {p} : call'[q] = call[q] BY DEF TypeOK
<1>5. TypeOK' BY <1>3, <1>4 DEF TypeOK
<1>6. Held'
  <2>1. \A a \in call[p].axes : locks'[a] = p BY DEF Held
  <2>2. call'[p].axes \in Asked BY <1>3 DEF Held
  <2>3. locks' = locks OBVIOUS
  <2> SUFFICES ASSUME NEW q \in Call
               PROVE  /\ call'[q].left \subseteq call'[q].axes
                      /\ call'[q].pc # "idle" => call'[q].axes \in Asked
                      /\ call'[q].pc = "locking" =>
                           \A a \in call'[q].axes \ call'[q].left : locks'[a] = q
                      /\ call'[q].pc = "counting" => \A a \in call'[q].axes : locks'[a] = q
    BY DEF Held
  <2>4. CASE q = p BY <1>3, <2>1, <2>2, <2>4
  <2>5. CASE q # p
    <3>1. call'[q] = call[q] BY <1>4, <2>5
    <3> HIDE DEF ReadClock
    <3> QED BY <3>1, <2>3 DEF Held
  <2> QED BY <2>4, <2>5
<1>7. Clocked' BY <1>3, <1>4 DEF Clocked, TypeOK
<1>8. Named' BY <1>3, <1>4 DEF Named
<1>9. Later'
  <2>1. \A q \in Call : told[q].at <= now BY DEF Clocked
  <2> QED BY <1>3, <1>4, <2>1 DEF Later
<1> QED BY <1>5, <1>6, <1>7, <1>8, <1>9

LEMMA CountBase ==
  ASSUME Base, NEW p \in Call, Count(p)
  PROVE  Base'
<1> USE DEF Base, Count
<1>1. call[p] \in CallState /\ call[p].pc = "counting" BY DEF TypeOK
<1>2. PICK a \in call[p].left, n \in Nat :
        call' = [call EXCEPT ![p].left = @ \ {a}, ![p].retry = n]
  <2>1. PICK a \in call[p].left :
          \/ \E e \in InWindow(a, call[p].at) :
               call' = [call EXCEPT
                 ![p].left = @ \ {a},
                 ![p].retry = AtLeast(@, AtLeast(1, Wait(a, call[p].at, e.at)))]
          \/ call' = [call EXCEPT ![p].left = @ \ {a}]
    BY Zenon
  <2>2. CASE call' = [call EXCEPT ![p].left = @ \ {a}]
    <3>1. call' = [call EXCEPT ![p].left = @ \ {a}, ![p].retry = call[p].retry]
      BY <2>2, <1>1 DEF TypeOK, CallState
    <3>2. call[p].retry \in Nat BY <1>1 DEF CallState
    <3> QED BY <3>1, <3>2
  <2>3. ASSUME NEW e \in InWindow(a, call[p].at),
               call' = [call EXCEPT
                 ![p].left = @ \ {a},
                 ![p].retry = AtLeast(@, AtLeast(1, Wait(a, call[p].at, e.at)))]
        PROVE  \E n \in Nat : call' = [call EXCEPT ![p].left = @ \ {a}, ![p].retry = n]
    <3>1. a \in Axis /\ call[p].at \in Nat /\ call[p].retry \in Nat BY <1>1 DEF CallState
    <3>2. e.at \in Nat BY <2>3 DEF InWindow, TypeOK, EventRecord
    <3>3. e.at + Window[a] * Sec - call[p].at \in Int BY <3>1, <3>2, SpanBounds DEF Span
    <3>4. Wait(a, call[p].at, e.at) \in Int BY <3>3, RoundedUp DEF Wait
    <3>5. AtLeast(1, Wait(a, call[p].at, e.at)) \in Nat BY <3>4 DEF AtLeast
    <3>6. AtLeast(call[p].retry, AtLeast(1, Wait(a, call[p].at, e.at))) \in Nat
      BY <3>1, <3>5 DEF AtLeast
    <3> QED BY <2>3, <3>6
  <2> QED BY <2>1, <2>2, <2>3
<1>3. /\ call'[p] \in CallState
      /\ call'[p].pc = "counting"
      /\ call'[p].axes = call[p].axes
      /\ call'[p].left \subseteq call[p].left
      /\ call'[p].at = call[p].at
  BY <1>1, <1>2 DEF CallState, TypeOK
<1>4. \A q \in Call \ {p} : call'[q] = call[q] BY <1>2 DEF TypeOK
<1>5. TypeOK'
  <2>1. call' \in [Call -> CallState] BY <1>2, <1>3 DEF TypeOK
  <2> QED BY <2>1 DEF TypeOK
<1>6. Held' BY <1>1, <1>3, <1>4 DEF Held
<1>7. Clocked' BY <1>1, <1>3, <1>4 DEF Clocked
<1>8. Named' BY <1>1, <1>3, <1>4 DEF Named
<1>9. Later' BY <1>1, <1>3, <1>4 DEF Later
<1> QED BY <1>5, <1>6, <1>7, <1>8, <1>9

\* A transaction ends: its locks are free, the others keep theirs.
LEMMA EndedHeld ==
  ASSUME TypeOK, Held, NEW p \in Call, Ended(p)
  PROVE  /\ locks' \in [Axis -> Call \union {None}]
         /\ call' \in [Call -> CallState]
         /\ call'[p] = Idle
         /\ \A q \in Call \ {p} : call'[q] = call[q]
         /\ Held'
<1>1. locks' \in [Axis -> Call \union {None}] BY DEF TypeOK, Ended
<1>2. call'[p] = Idle BY DEF TypeOK, Ended
<1>3. \A q \in Call \ {p} : call'[q] = call[q] BY DEF TypeOK, Ended
<1>4. Idle \in CallState BY DEF Idle, CallState
<1>5. call' \in [Call -> CallState] BY <1>4 DEF TypeOK, Ended
<1>6. \A q \in Call \ {p} : \A a \in Axis : locks[a] = q => locks'[a] = q BY DEF Ended
<1>7. \A q \in Call : call[q].axes \subseteq Axis BY DEF TypeOK, CallState
<1>8. Held'
  <2> SUFFICES ASSUME NEW q \in Call
               PROVE  /\ call'[q].left \subseteq call'[q].axes
                      /\ call'[q].pc # "idle" => call'[q].axes \in Asked
                      /\ call'[q].pc = "locking" =>
                           \A a \in call'[q].axes \ call'[q].left : locks'[a] = q
                      /\ call'[q].pc = "counting" => \A a \in call'[q].axes : locks'[a] = q
    BY DEF Held
  <2>1. CASE q = p BY <1>2, <2>1 DEF Idle
  <2>2. CASE q # p
    <3>1. call'[q] = call[q] BY <1>3, <2>2
    <3> QED BY <3>1, <1>6, <1>7, <2>2 DEF Held
  <2> QED BY <2>1, <2>2
<1> QED BY <1>1, <1>2, <1>3, <1>5, <1>8

\* Two calls that count have no axis in common.
LEMMA Apart ==
  ASSUME Held, NEW p \in Call, NEW q \in Call, p # q,
         call[p].pc = "counting", call[q].pc = "counting"
  PROVE  call[p].axes \intersect call[q].axes = {}
BY DEF Held

LEMMA RefuseBase ==
  ASSUME Base, NEW p \in Call, Refuse(p)
  PROVE  Base'
<1> USE DEF Base, Refuse
<1>1. /\ locks' \in [Axis -> Call \union {None}]
      /\ call' \in [Call -> CallState]
      /\ call'[p] = Idle
      /\ \A q \in Call \ {p} : call'[q] = call[q]
      /\ Held'
  BY EndedHeld
<1>2. /\ told'[p].axes = call[p].axes
      /\ told'[p].at = call[p].at
      /\ told'[p].until = call[p].at + call[p].retry * Sec
      /\ \A q \in Call \ {p} : told'[q] = told[q]
  BY DEF TypeOK
<1>3. call[p] \in CallState BY DEF TypeOK
<1>4. TypeOK'
  <2>1. call[p].at \in Nat /\ call[p].retry * Sec \in Nat BY <1>3, Seconds DEF CallState
  <2>2. told' \in [Call -> [axes : SUBSET Axis, at : Nat, until : Nat]]
    BY <1>3, <2>1 DEF TypeOK, CallState
  <2> QED BY <1>1, <2>2 DEF TypeOK
<1>5. Clocked' BY <1>1, <1>2 DEF Clocked, Idle
<1>6. Named' BY <1>1 DEF Named, Idle
<1>7. Later'
  <2> SUFFICES ASSUME NEW r \in Call, NEW q \in Call, NEW a \in told'[r].axes,
                      call'[q].pc = "counting", a \in call'[q].axes
               PROVE  call'[q].at >= told'[r].at
    BY DEF Later
  <2>1. q # p /\ call'[q] = call[q] BY <1>1 DEF Idle
  <2>2. CASE r = p BY <2>1, <2>2, <1>2, Apart
  <2>3. CASE r # p BY <2>1, <2>3, <1>2 DEF Later
  <2> QED BY <2>2, <2>3
<1> QED BY <1>1, <1>4, <1>5, <1>6, <1>7

\* What a step that ends p's transaction may record.
Records(p) ==
  /\ call[p].pc = "counting"
  /\ call[p].left = {}
  /\ call[p].retry = 0
  /\ events' = events \union Recorded(p)

LEMMA RecordedShape ==
  ASSUME Base, NEW p \in Call, call[p].pc = "counting"
  PROVE  /\ \A e \in Recorded(p) : /\ e.axis \in call[p].axes
                                   /\ e.at = call[p].at
                                   /\ e.id = <<p, made[p]>>
                                   /\ e \in EventRecord
         /\ \A a \in call[p].axes :
              [id |-> <<p, made[p]>>, axis |-> a, at |-> call[p].at] \in Recorded(p)
<1> USE DEF Base
<1>1. call[p] \in CallState /\ made[p] \in Nat BY DEF TypeOK
<1>2. <<p, made[p]>> \in Id BY <1>1 DEF Id
<1>3. \A e \in Recorded(p) : e.axis \in call[p].axes /\ e.at = call[p].at /\ e.id = <<p, made[p]>>
  BY DEF Recorded
<1>4. \A e \in Recorded(p) : e \in EventRecord
  BY <1>1, <1>2 DEF Recorded, EventRecord, CallState
<1> QED BY <1>3, <1>4 DEF Recorded

\* A transaction that ends and is not refused: Allow and Break.
LEMMA EndBase ==
  ASSUME Base, NEW p \in Call, call[p].pc # "idle", Ended(p),
         UNCHANGED <<now, told, made>>,
         events' = events \/ Records(p),
         \/ standing' = standing
         \/ /\ call[p].pc = "counting"
            /\ standing' = standing \union
                 {[id |-> <<p, made[p]>>, axes |-> call[p].axes, at |-> call[p].at]}
  PROVE  Base'
<1> USE DEF Base
<1>1. /\ locks' \in [Axis -> Call \union {None}]
      /\ call' \in [Call -> CallState]
      /\ call'[p] = Idle
      /\ \A q \in Call \ {p} : call'[q] = call[q]
      /\ Held'
  BY EndedHeld
<1>2. call[p] \in CallState /\ made[p] \in Nat /\ call[p].axes \in Asked BY DEF TypeOK, Held
<1>3. \A e \in events' \ events :
        /\ call[p].pc = "counting"
        /\ e.axis \in call[p].axes /\ e.at = call[p].at /\ e \in EventRecord
  BY RecordedShape DEF Records
<1>4. TypeOK'
  <2>1. events' \subseteq EventRecord BY <1>3 DEF TypeOK
  <2>2. [id |-> <<p, made[p]>>, axes |-> call[p].axes, at |-> call[p].at] \in Attempt
    BY <1>2 DEF Attempt, Id, CallState
  <2>3. standing' \subseteq Attempt BY <2>2 DEF TypeOK
  <2> QED BY <1>1, <2>1, <2>3 DEF TypeOK
<1>5. Clocked'
  <2>1. \A e \in events' : e.at <= now BY <1>3 DEF Clocked
  <2> SUFFICES ASSUME NEW q \in Call, call'[q].pc = "counting"
               PROVE  /\ call'[q].at <= now
                      /\ \A e \in events' : e.axis \in call'[q].axes => e.at <= call'[q].at
    BY <2>1 DEF Clocked
  <2>2. q # p /\ call'[q] = call[q] BY <1>1 DEF Idle
  <2>3. call[p].pc = "counting" => call[p].axes \intersect call[q].axes = {} BY <2>2, Apart
  <2> QED BY <2>2, <2>3, <1>3 DEF Clocked
<1>6. Named'
  <2>1. \A s \in standing' \ standing : s.id = <<p, made[p]>>
    OBVIOUS
  <2>2. \A s, t \in standing' \ standing : s = t OBVIOUS
  <2>3. \A s \in standing : s.id # <<p, made[p]>>
    <3> SUFFICES ASSUME NEW s \in standing, s.id = <<p, made[p]>> PROVE FALSE OBVIOUS
    <3>1. s.id[1] = p /\ s.id[2] = made[p] OBVIOUS
    <3> QED BY <3>1, <1>2 DEF Named
  <2>4. \A s, t \in standing' : s.id = t.id => s = t BY <2>1, <2>2, <2>3 DEF Named
  <2>5. \A s \in standing' : \A q \in Call :
          s.id[1] = q => /\ s.id[2] <= made[q]
                         /\ call'[q].pc # "idle" => s.id[2] < made[q]
    <3> SUFFICES ASSUME NEW s \in standing', NEW q \in Call, s.id[1] = q
                 PROVE  /\ s.id[2] <= made[q]
                        /\ call'[q].pc # "idle" => s.id[2] < made[q]
      OBVIOUS
    <3>1. CASE s \in standing BY <3>1, <1>1 DEF Named, Idle
    <3>2. CASE s \notin standing
      <4>1. q = p /\ s.id[2] = made[p] BY <3>2, <2>1
      <4> QED BY <4>1, <1>1, <1>2 DEF Idle
    <3> QED BY <3>1, <3>2
  <2> QED BY <2>4, <2>5 DEF Named
<1>7. Later' BY <1>1 DEF Later, Idle
<1> QED BY <1>1, <1>4, <1>5, <1>6, <1>7

\* Steps that take rows away or move the clock.
LEMMA OtherBase ==
  ASSUME Base, UNCHANGED <<locks, call, told, made>>,
         now' \in Nat, now' >= now,
         events' \subseteq events, standing' \subseteq standing
  PROVE  Base'
<1> USE DEF Base
<1>1. TypeOK' BY DEF TypeOK
<1>2. Held' BY DEF Held
<1>3. Clocked'
  <2>1. \A e \in events : e.at \in Nat BY DEF TypeOK, EventRecord
  <2>2. \A q \in Call : told[q].at \in Nat /\ call[q].at \in Nat BY DEF TypeOK, CallState
  <2>3. now \in Nat BY DEF TypeOK
  <2> QED BY <2>1, <2>2, <2>3 DEF Clocked
<1>4. Named' BY DEF Named
<1>5. Later' BY DEF Later
<1> QED BY <1>1, <1>2, <1>3, <1>4, <1>5

LEMMA BaseStep ==
  ASSUME Base, AnyNext
  PROVE  Base'
<1>1. ASSUME NEW p \in Call, Start(p) PROVE Base' BY <1>1, StartBase
<1>2. ASSUME NEW p \in Call, Lock(p) PROVE Base' BY <1>2, LockBase
<1>3. ASSUME NEW p \in Call, ReadClock(p) PROVE Base' BY <1>3, ReadClockBase
<1>4. ASSUME NEW p \in Call, Count(p) PROVE Base' BY <1>4, CountBase
<1>5. ASSUME NEW p \in Call, Refuse(p) PROVE Base' BY <1>5, RefuseBase
<1>6. ASSUME NEW p \in Call, Allow(p) PROVE Base'
  <2>1. Records(p) BY <1>6 DEF Allow, Records
  <2> QED BY <1>6, <2>1, EndBase DEF Allow
<1>7. ASSUME NEW p \in Call, Break(p) PROVE Base'
  <2>1. events' = events \/ Records(p) BY <1>7 DEF Break, Records
  <2> QED BY <1>7, <2>1, EndBase DEF Break
<1>8. now \in Nat BY DEF Base, TypeOK
<1>9. ASSUME Forgive PROVE Base'
  <2>1. events' \subseteq events /\ standing' \subseteq standing BY <1>9 DEF Forgive, Released
  <2> QED BY <1>8, <1>9, <2>1, OtherBase DEF Forgive
<1>10. ASSUME Cleanup PROVE Base' BY <1>8, <1>10, OtherBase DEF Cleanup
<1>11. ASSUME Tick PROVE Base' BY <1>8, <1>11, OtherBase DEF Tick
<1>12. ASSUME Freed PROVE Base'
  <2>1. events' \subseteq events /\ standing' \subseteq standing BY <1>12 DEF Freed, Released
  <2> QED BY <1>8, <1>12, <2>1, OtherBase DEF Freed
<1> QED BY <1>1, <1>2, <1>3, <1>4, <1>5, <1>6, <1>7, <1>9, <1>10, <1>11, <1>12 DEF AnyNext, Next

-----------------------------------------------------------------------------
(* Windows: the parts of the invariant that count events.                  *)

\* Every step takes events away, keeps them, or records those of one call.
LEMMA EventsStep ==
  ASSUME Base, AnyNext
  PROVE  events' \subseteq events \/ \E p \in Call : Records(p) /\ Ended(p)
BY DEF AnyNext, Next, Start, Lock, ReadClock, Count, Refuse, Allow, Break, Forgive, Cleanup,
       Tick, Freed, Released, Records

\* On an axis of the call that records, a window grows by one event at most;
\* on any other it stays as it was.
LEMMA Grown ==
  ASSUME Base, NEW p \in Call, Records(p), NEW a \in Axis
  PROVE  /\ a \notin call[p].axes => \A lo, hi : Between(events', a, lo, hi) = Between(events, a, lo, hi)
         /\ a \in call[p].axes => \A lo, hi :
              Between(events', a, lo, hi) \subseteq
                Between(events, a, lo, hi) \union {[id |-> <<p, made[p]>>, axis |-> a, at |-> call[p].at]}
         /\ \A lo, hi : ~(lo < call[p].at /\ call[p].at <= hi) =>
              Between(events', a, lo, hi) = Between(events, a, lo, hi)
<1> DEFINE new == [id |-> <<p, made[p]>>, axis |-> a, at |-> call[p].at]
<1>1. events' = events \union Recorded(p) BY DEF Records
<1>2. \A e \in Recorded(p) : e.axis \in call[p].axes /\ e.at = call[p].at
  BY RecordedShape DEF Records
<1>3. \A e \in Recorded(p) : e.axis = a => e = new BY DEF Recorded
<1>4. a \notin call[p].axes => \A lo, hi : Between(events', a, lo, hi) = Between(events, a, lo, hi)
  BY <1>1, <1>2 DEF Between
<1>5. \A lo, hi : Between(events', a, lo, hi) \subseteq Between(events, a, lo, hi) \union {new}
  BY <1>1, <1>3 DEF Between
<1>6. \A lo, hi : ~(lo < call[p].at /\ call[p].at <= hi) =>
        Between(events', a, lo, hi) = Between(events, a, lo, hi)
  BY <1>1, <1>2 DEF Between
<1> QED BY <1>4, <1>5, <1>6

LEMMA FiniteStep ==
  ASSUME Base, Finite, AnyNext
  PROVE  Finite'
<1> SUFFICES ASSUME NEW a \in Axis PROVE IsFiniteSet(OnAxis(events', a))
  BY DEF Finite
<1>1. CASE events' \subseteq events
  <2>1. OnAxis(events', a) \subseteq OnAxis(events, a) BY <1>1 DEF OnAxis
  <2> QED BY <2>1, Smaller DEF Finite
<1>2. ASSUME NEW p \in Call, Records(p) PROVE IsFiniteSet(OnAxis(events', a))
  <2> DEFINE new == [id |-> <<p, made[p]>>, axis |-> a, at |-> call[p].at]
  <2>1. OnAxis(events', a) \subseteq OnAxis(events, a) \union {new}
    BY <1>2 DEF OnAxis, Records, Recorded
  <2>2. IsFiniteSet(OnAxis(events, a) \union {new})
    <3> HIDE DEF new
    <3> QED BY FS_AddElement DEF Finite
  <2> QED BY <2>1, <2>2, Smaller
<1> QED BY <1>1, <1>2, EventsStep

\* The heart of the limit: a call records on an axis only if every window that
\* the new event joins has room, because nothing on the axis is later than it.
LEMMA EventBoundStep ==
  ASSUME Base, Finite, EventBound, Counted, AnyNext
  PROVE  EventBound'
<1> SUFFICES ASSUME NEW a \in Axis, NEW x \in Int
             PROVE  Cardinality(Between(events', a, x - Span(a), x)) <= Limit[a]
  BY DEF EventBound
<1>1. Limit[a] \in Nat BY RateAssumption
<1>2. Cardinality(Between(events, a, x - Span(a), x)) <= Limit[a] BY DEF EventBound
<1>3. IsFiniteSet(Between(events, a, x - Span(a), x)) BY BetweenFinite
<1>4. CASE events' \subseteq events
  <2>1. Between(events', a, x - Span(a), x) \subseteq Between(events, a, x - Span(a), x)
    BY <1>4 DEF Between
  <2> QED BY <2>1, <1>1, <1>2, <1>3, Smaller
<1>5. ASSUME NEW p \in Call, Records(p)
      PROVE  Cardinality(Between(events', a, x - Span(a), x)) <= Limit[a]
  <2>1. CASE a \notin call[p].axes BY <2>1, <1>2, <1>5, Grown
  <2>2. CASE ~(x - Span(a) < call[p].at /\ call[p].at <= x) BY <2>2, <1>2, <1>5, Grown
  <2>3. CASE a \in call[p].axes /\ x - Span(a) < call[p].at /\ call[p].at <= x
    <3> DEFINE now2 == call[p].at
               old == Between(events, a, x - Span(a), x)
               new == [id |-> <<p, made[p]>>, axis |-> a, at |-> call[p].at]
    <3>1. call[p] \in CallState /\ call[p].pc = "counting" /\ call[p].left = {} /\ call[p].retry = 0
      BY <1>5 DEF Base, TypeOK, Records
    <3>2. now2 \in Nat /\ Span(a) \in Nat /\ 0 * Sec = 0
      BY <3>1, SpanBounds, RateAssumption DEF CallState
    <3>3. Few(events, a, now2 + call[p].retry * Sec - Span(a), now2)
      BY <2>3, <3>1 DEF Counted
    <3>4. now2 + call[p].retry * Sec - Span(a) = now2 - Span(a) BY <3>1, <3>2
    <3>5. \A e \in events : e.axis = a => e.at \in Nat /\ e.at <= now2
      BY <2>3, <3>1 DEF Base, Clocked, TypeOK, EventRecord
    <3>6. old \subseteq Between(events, a, now2 - Span(a), now2)
      BY <2>3, <3>2, <3>5 DEF Between
    <3>7. Few(events, a, x - Span(a), x) BY <3>3, <3>4, <3>6, <1>1, Fewer
    <3>8. Cardinality(old) + 1 <= Limit[a]
      BY <3>7, <1>1, <1>3, FS_CardinalityType DEF Few
    <3>9. IsFiniteSet(old \union {new}) /\ Cardinality(old \union {new}) <= Cardinality(old) + 1
      <4> HIDE DEF new, old
      <4>1. IsFiniteSet(old) BY <1>3 DEF old
      <4> QED BY <4>1, OneMore
    <3>10. Between(events', a, x - Span(a), x) \subseteq old \union {new}
      BY <1>5, <2>3, Grown
    <3> QED BY <3>8, <3>9, <3>10, <1>1, <1>3, Smaller, FS_CardinalityType
  <2> QED BY <2>1, <2>2, <2>3
<1> QED BY <1>4, <1>5, EventsStep

\* What a call has counted stays true while it holds its locks.
LEMMA CountedKept ==
  ASSUME Base, Finite, Counted, NEW q \in Call, call'[q] = call[q], call[q].pc = "counting",
         events' \subseteq events \/ \E p \in Call \ {q} : Records(p),
         NEW a \in call[q].axes \ call[q].left
  PROVE  Few(events', a, call[q].at + call[q].retry * Sec - Span(a), call[q].at)
<1> DEFINE lo == call[q].at + call[q].retry * Sec - Span(a)
<1>1. a \in Axis BY DEF Base, TypeOK, CallState
<1>2. Limit[a] \in Nat BY <1>1, RateAssumption
<1>3. Few(events, a, lo, call[q].at) BY DEF Counted
<1>4. Between(events', a, lo, call[q].at) \subseteq Between(events, a, lo, call[q].at)
  <2>1. CASE events' \subseteq events BY <2>1 DEF Between
  <2>2. ASSUME NEW p \in Call \ {q}, Records(p)
        PROVE  Between(events', a, lo, call[q].at) = Between(events, a, lo, call[q].at)
    <3>1. a \notin call[p].axes BY <2>2, Apart DEF Base, Records
    <3> QED BY <3>1, <2>2, <1>1, Grown
  <2> QED BY <2>1, <2>2
<1> QED BY <1>1, <1>2, <1>3, <1>4, Fewer

\* The wait of a refusing axis reaches the oldest event of its full window, so
\* one event less will be in the way.
LEMMA RefusedCount ==
  ASSUME Base, Finite, EventBound, NEW p \in Call, call[p].pc = "counting",
         NEW a \in call[p].axes, NEW e \in InWindow(a, call[p].at), NEW n \in Nat,
         n >= Wait(a, call[p].at, e.at)
  PROVE  Few(events, a, call[p].at + n * Sec - Span(a), call[p].at)
<1> DEFINE t == call[p].at
           seen == Between(events, a, t - Span(a), t)
<1>1. a \in Axis /\ t \in Nat BY DEF Base, TypeOK, CallState
<1>2. Limit[a] \in Nat /\ Span(a) \in Nat BY <1>1, RateAssumption, SpanBounds
<1>3. \A f \in events : f.axis = a => f.at \in Nat /\ f.at <= t
  BY DEF Base, Clocked, TypeOK, EventRecord
<1>4. e \in events /\ e.axis = a /\ e.at > t - Span(a) BY DEF InWindow, Span
<1>5. e \in seen BY <1>1, <1>2, <1>3, <1>4 DEF Between
<1>6. IsFiniteSet(seen) /\ Cardinality(seen) <= Limit[a] BY <1>1, BetweenFinite DEF EventBound
<1>7. t + n * Sec - Span(a) \in Int /\ t + n * Sec - Span(a) >= e.at
  <2> DEFINE d == e.at + Span(a) - t
  <2>1. d \in Int BY <1>1, <1>2, <1>3, <1>4
  <2>2. CeilSec(d) \in Int /\ CeilSec(d) * Sec >= d BY <2>1, RoundedUp
  <2>3. Wait(a, t, e.at) = CeilSec(d) BY DEF Wait, Span
  <2>4. Sec \in Nat /\ Sec > 0 /\ n >= CeilSec(d) BY <2>3, RateAssumption
  <2>5. n * Sec >= CeilSec(d) * Sec
    <3> HIDE DEF d
    <3> QED BY <2>2, <2>4
  <2>6. n * Sec \in Nat BY <2>4, Seconds
  <2>7. CeilSec(d) * Sec \in Int BY <2>2, <2>4
  <2>8. n * Sec >= d
    <3> HIDE DEF d
    <3> QED BY <2>1, <2>2, <2>5, <2>6, <2>7
  <2> QED BY <1>1, <1>2, <1>3, <1>4, <2>6, <2>8
<1>8. Between(events, a, t + n * Sec - Span(a), t) \subseteq seen \ {e}
  BY <1>1, <1>2, <1>3, <1>4, <1>7 DEF Between
<1>9. IsFiniteSet(seen \ {e}) /\ Cardinality(seen \ {e}) + 1 = Cardinality(seen)
  <2> HIDE DEF seen
  <2> QED BY <1>5, <1>6, OneLess
<1>10. Cardinality(Between(events, a, t + n * Sec - Span(a), t)) <= Cardinality(seen \ {e})
  BY <1>8, <1>9, Smaller
<1>11. /\ Cardinality(Between(events, a, t + n * Sec - Span(a), t)) \in Nat
       /\ Cardinality(seen \ {e}) \in Nat
  BY <1>8, <1>9, Smaller
<1> QED BY <1>2, <1>6, <1>9, <1>10, <1>11 DEF Few

\* A wait found for one axis is as good for those looked at before.
LEMMA LongerWait ==
  ASSUME Base, Finite, NEW p \in Call, NEW a \in Axis, NEW m \in Nat, NEW n \in Nat, m <= n,
         Few(events, a, call[p].at + m * Sec - Span(a), call[p].at)
  PROVE  Few(events, a, call[p].at + n * Sec - Span(a), call[p].at)
<1>1. call[p].at \in Nat /\ Span(a) \in Nat /\ Limit[a] \in Nat
  BY SpanBounds, RateAssumption DEF Base, TypeOK, CallState
<1>2. m * Sec \in Nat /\ n * Sec \in Nat /\ m * Sec <= n * Sec BY Seconds
<1>3. \A e \in events : e.at \in Nat BY DEF Base, TypeOK, EventRecord
<1>4. Between(events, a, call[p].at + n * Sec - Span(a), call[p].at) \subseteq
        Between(events, a, call[p].at + m * Sec - Span(a), call[p].at)
  BY <1>1, <1>2, <1>3 DEF Between
<1> QED BY <1>1, <1>4, Fewer

LEMMA CountCounted ==
  ASSUME Base, Finite, EventBound, Counted, NEW p \in Call, Count(p)
  PROVE  Counted'
<1>1. call[p] \in CallState /\ call[p].pc = "counting" /\ call[p].left \subseteq call[p].axes
  BY DEF Base, TypeOK, Held, Count
<1>2. PICK a \in call[p].left :
        \/ \E e \in InWindow(a, call[p].at) :
             call' = [call EXCEPT
               ![p].left = @ \ {a},
               ![p].retry = AtLeast(@, AtLeast(1, Wait(a, call[p].at, e.at)))]
        \/ /\ Cardinality(InWindow(a, call[p].at)) < Limit[a]
           /\ call' = [call EXCEPT ![p].left = @ \ {a}]
  BY Zenon DEF Count
<1>3. events' = events BY DEF Count
<1>4. a \in Axis /\ call[p].retry \in Nat /\ call[p].at \in Nat BY <1>1 DEF CallState
<1>5. \A q \in Call \ {p} : call'[q] = call[q] BY <1>2 DEF Base, TypeOK
<1>6. PICK n \in Nat :
        /\ n >= call[p].retry
        /\ call'[p] = [call[p] EXCEPT !.left = @ \ {a}, !.retry = n]
        /\ Few(events, a, call[p].at + n * Sec - Span(a), call[p].at)
  <2>1. ASSUME NEW e \in InWindow(a, call[p].at),
               call' = [call EXCEPT
                 ![p].left = @ \ {a},
                 ![p].retry = AtLeast(@, AtLeast(1, Wait(a, call[p].at, e.at)))]
        PROVE  \E n \in Nat :
                 /\ n >= call[p].retry
                 /\ call'[p] = [call[p] EXCEPT !.left = @ \ {a}, !.retry = n]
                 /\ Few(events, a, call[p].at + n * Sec - Span(a), call[p].at)
    <3> DEFINE w == Wait(a, call[p].at, e.at)
               n == AtLeast(call[p].retry, AtLeast(1, w))
    <3>1. e.at \in Nat BY <2>1 DEF InWindow, Base, TypeOK, EventRecord
    <3>2. e.at + Window[a] * Sec - call[p].at \in Int BY <1>4, <3>1, SpanBounds DEF Span
    <3>3. w \in Int BY <3>2, RoundedUp DEF Wait
    <3>4. n \in Nat /\ n >= call[p].retry /\ n >= w BY <1>4, <3>3 DEF AtLeast
    <3>5. call'[p] = [call[p] EXCEPT !.left = @ \ {a}, !.retry = n]
      BY <2>1 DEF Base, TypeOK
    <3>6. Few(events, a, call[p].at + n * Sec - Span(a), call[p].at)
      <4> HIDE DEF n
      <4> QED BY <1>1, <3>4, RefusedCount
    <3> QED BY <3>4, <3>5, <3>6
  <2>2. CASE /\ Cardinality(InWindow(a, call[p].at)) < Limit[a]
             /\ call' = [call EXCEPT ![p].left = @ \ {a}]
    <3>1. call'[p] = [call[p] EXCEPT !.left = @ \ {a}, !.retry = call[p].retry]
      BY <2>2, <1>1 DEF Base, TypeOK, CallState
    <3>2. \A e \in events : e.axis = a => e.at \in Nat /\ e.at <= call[p].at
      BY <1>1 DEF Base, Clocked, TypeOK, EventRecord
    <3>3. Span(a) \in Nat /\ Limit[a] \in Nat BY <1>4, SpanBounds, RateAssumption
    <3>4. Between(events, a, call[p].at - Span(a), call[p].at) = InWindow(a, call[p].at)
      BY <1>4, <3>2, <3>3 DEF Between, InWindow, Span
    <3>5. Few(events, a, call[p].at - Span(a), call[p].at) BY <2>2, <3>4 DEF Few
    <3>6. 0 * Sec = 0 BY RateAssumption
    <3>7. call[p].at + 0 * Sec - Span(a) = call[p].at - Span(a) BY <1>4, <3>3, <3>6
    <3>8. Few(events, a, call[p].at + 0 * Sec - Span(a), call[p].at) BY <3>5, <3>7
    <3>9. Few(events, a, call[p].at + call[p].retry * Sec - Span(a), call[p].at)
      BY <1>4, <3>8, LongerWait
    <3>10. call[p].retry \in Nat /\ call[p].retry >= call[p].retry BY <1>4
    <3> USE <3>10
    <3> WITNESS call[p].retry \in Nat
    <3> QED BY <3>1, <3>9, <3>10
  <2> QED BY <1>2, <2>1, <2>2
<1>7. /\ call'[p].axes = call[p].axes /\ call'[p].left = call[p].left \ {a}
      /\ call'[p].at = call[p].at /\ call'[p].retry = n
  BY <1>1, <1>6 DEF CallState
<1> SUFFICES ASSUME NEW q \in Call, call'[q].pc = "counting", NEW b \in call'[q].axes \ call'[q].left
             PROVE  Few(events', b, call'[q].at + call'[q].retry * Sec - Span(b), call'[q].at)
  BY DEF Counted
<1>8. CASE q # p BY <1>3, <1>5, <1>8 DEF Counted
<1>9. CASE q = p /\ b = a BY <1>3, <1>6, <1>7, <1>9
<1>10. CASE q = p /\ b # a
  <2>1. b \in call[p].axes \ call[p].left /\ b \in Axis BY <1>1, <1>7, <1>10 DEF CallState
  <2>2. Few(events, b, call[p].at + call[p].retry * Sec - Span(b), call[p].at)
    BY <1>1, <2>1 DEF Counted
  <2>3. Few(events, b, call[p].at + n * Sec - Span(b), call[p].at)
    BY <1>4, <1>6, <2>1, <2>2, LongerWait
  <2> QED BY <1>3, <1>7, <1>10, <2>3
<1> QED BY <1>8, <1>9, <1>10

LEMMA CountedStep ==
  ASSUME Base, Finite, EventBound, Counted, AnyNext
  PROVE  Counted'
<1>1. ASSUME NEW p \in Call, Count(p) PROVE Counted' BY <1>1, CountCounted
<1>2. CASE ~\E p \in Call : Count(p)
  <2> SUFFICES ASSUME NEW q \in Call, call'[q].pc = "counting", NEW b \in call'[q].axes \ call'[q].left
               PROVE  Few(events', b, call'[q].at + call'[q].retry * Sec - Span(b), call'[q].at)
    BY DEF Counted
  <2>1. \/ call'[q] = call[q]
        \/ Start(q) \/ Lock(q) \/ ReadClock(q) \/ Ended(q)
    <3>1. ASSUME NEW p \in Call, Start(p) \/ Lock(p) \/ ReadClock(p)
          PROVE  p = q \/ call'[q] = call[q]
      BY <3>1 DEF Start, Lock, ReadClock, Base, TypeOK
    <3>2. ASSUME NEW p \in Call, Refuse(p) \/ Allow(p) \/ Break(p)
          PROVE  Ended(p) /\ (p = q \/ call'[q] = call[q])
      BY <3>2 DEF Refuse, Allow, Break, Ended, Base, TypeOK
    <3>3. ASSUME Forgive \/ Cleanup \/ Tick \/ Freed PROVE call'[q] = call[q]
      BY <3>3 DEF Forgive, Cleanup, Tick, Freed
    <3> QED BY <1>2, <3>1, <3>2, <3>3 DEF AnyNext, Next
  <2>2. ~Start(q)
    <3> SUFFICES ASSUME Start(q) PROVE FALSE OBVIOUS
    <3>1. PICK axes \in Asked :
            call' = [call EXCEPT ![q] = [Idle EXCEPT !.pc = "locking", !.axes = axes, !.left = axes]]
      BY DEF Start
    <3>2. call'[q].pc = "locking" BY <3>1 DEF Base, TypeOK, Idle
    <3> QED BY <3>2
  <2>3. ~Lock(q)
    <3> SUFFICES ASSUME Lock(q) PROVE FALSE OBVIOUS
    <3>1. call[q].pc = "locking" /\ call[q] \in CallState BY DEF Lock, Base, TypeOK
    <3>2. PICK x : call' = [call EXCEPT ![q].left = @ \ {x}] BY DEF Lock
    <3>3. call'[q].pc = "locking" BY <3>1, <3>2 DEF Base, TypeOK, CallState
    <3> QED BY <3>3
  <2>4. ~ReadClock(q)
    <3> SUFFICES ASSUME ReadClock(q) PROVE FALSE OBVIOUS
    <3>1. call[q] \in CallState BY DEF Base, TypeOK
    <3>2. call'[q].left = call[q].axes /\ call'[q].axes = call[q].axes
      BY <3>1 DEF ReadClock, Base, TypeOK, CallState
    <3> QED BY <3>2
  <2>5. ~Ended(q) BY DEF Ended, Idle, Base, TypeOK
  <2>6. call'[q] = call[q] BY <2>1, <2>2, <2>3, <2>4, <2>5
  <2>7. events' \subseteq events \/ \E p \in Call \ {q} : Records(p) BY <2>5, EventsStep
  <2> QED BY <2>6, <2>7, CountedKept
<1> QED BY <1>1, <1>2

\* A promise that was given: what is recorded afterwards is not dated before it.
LEMMA PromisedStep ==
  ASSUME Base, Finite, Counted, Promised, AnyNext
  PROVE  Promised'
<1> SUFFICES ASSUME NEW q \in Call, NEW a \in told'[q].axes
             PROVE  Few(events', a, told'[q].until - Span(a), told'[q].at - 1)
  BY DEF Promised
<1>1. CASE Refuse(q)
  <2>1. call[q] \in CallState /\ call[q].pc = "counting" /\ call[q].left = {} /\ events' = events
    BY <1>1 DEF Refuse, Base, TypeOK
  <2>2. /\ told'[q].axes = call[q].axes
        /\ told'[q].at = call[q].at
        /\ told'[q].until = call[q].at + call[q].retry * Sec
    BY <1>1 DEF Refuse, Base, TypeOK
  <2>3. a \in Axis /\ Limit[a] \in Nat /\ call[q].at \in Nat
    BY <2>1, <2>2, RateAssumption DEF CallState
  <2>7. a \in call[q].axes \ call[q].left BY <2>1, <2>2
  <2>8. Few(events, a, call[q].at + call[q].retry * Sec - Span(a), call[q].at)
    BY <2>1, <2>7 DEF Counted
  <2>4. Few(events, a, told'[q].until - Span(a), call[q].at)
    <3>1. told'[q].until - Span(a) = call[q].at + call[q].retry * Sec - Span(a)
      <4>1. call[q].retry * Sec \in Nat /\ Span(a) \in Nat BY <2>1, <2>3, Seconds, SpanBounds DEF CallState
      <4> QED BY <2>2, <2>3, <4>1
    <3> QED BY <2>8, <3>1
  <2>5. \A e \in events : e.at \in Nat BY DEF Base, TypeOK, EventRecord
  <2>6. Between(events, a, told'[q].until - Span(a), told'[q].at - 1) \subseteq
          Between(events, a, told'[q].until - Span(a), call[q].at)
    BY <2>2, <2>3, <2>5 DEF Between
  <2> QED BY <2>1, <2>3, <2>4, <2>6, Fewer
<1>2. CASE ~Refuse(q)
  <2>1. told'[q] = told[q]
    BY <1>2 DEF AnyNext, Next, Start, Lock, ReadClock, Count, Refuse, Allow, Break, Forgive,
                Cleanup, Tick, Freed, Base, TypeOK
  <2>2. a \in Axis /\ Limit[a] \in Nat /\ told[q].at \in Nat
    BY <2>1, RateAssumption DEF Base, TypeOK
  <2>3. Few(events, a, told[q].until - Span(a), told[q].at - 1) BY <2>1 DEF Promised
  <2>4. Between(events', a, told[q].until - Span(a), told[q].at - 1) \subseteq
          Between(events, a, told[q].until - Span(a), told[q].at - 1)
    <3>1. CASE events' \subseteq events BY <3>1 DEF Between
    <3>2. ASSUME NEW p \in Call, Records(p)
          PROVE  Between(events', a, told[q].until - Span(a), told[q].at - 1) =
                   Between(events, a, told[q].until - Span(a), told[q].at - 1)
      <4>1. CASE a \notin call[p].axes BY <2>2, <3>2, <4>1, Grown
      <4>2. CASE a \in call[p].axes
        <5>1. call[p].at >= told[q].at BY <2>1, <3>2, <4>2 DEF Base, Later, Records
        <5>2. call[p].at \in Nat BY DEF Base, TypeOK, CallState
        <5>3. ~(call[p].at <= told[q].at - 1) BY <2>2, <5>1, <5>2
        <5> QED BY <2>2, <3>2, <5>3, Grown
      <4> QED BY <4>1, <4>2
    <3> QED BY <3>1, <3>2, EventsStep
  <2> QED BY <2>1, <2>2, <2>3, <2>4, Fewer
<1> QED BY <1>1, <1>2

\* The events of an attempt go only with the attempt, or when they are too old
\* for any window.
LEMMA MirroredStep ==
  ASSUME Base, Mirrored, AnyNext
  PROVE  Mirrored'
<1> SUFFICES ASSUME NEW s \in standing', s.at >= now' - Retention, NEW a \in s.axes
             PROVE  [id |-> s.id, axis |-> a, at |-> s.at] \in events'
  BY DEF Mirrored
<1> DEFINE own == [id |-> s.id, axis |-> a, at |-> s.at]
<1>1. Retention \in Nat /\ now \in Nat BY RateAssumption DEF Base, TypeOK
<1>2. s \in standing => s.at \in Nat BY DEF Base, TypeOK, Attempt
<1>3. now' \in Nat /\ now' >= now
  <2>1. ASSUME NEW p \in Call, Start(p) \/ Lock(p) \/ ReadClock(p) \/ Count(p)
        PROVE  now' = now
    BY <2>1, Zenon DEF Start, Lock, ReadClock, Count
  <2>2. CASE \E p \in Call : Refuse(p) \/ Allow(p) \/ Break(p)
    BY <1>1, <2>2 DEF Refuse, Allow, Break
  <2>3. CASE Forgive \/ Cleanup \/ Freed BY <1>1, <2>3 DEF Forgive, Cleanup, Freed
  <2>4. CASE Tick BY <1>1, <2>4 DEF Tick
  <2> QED BY <1>1, <2>1, <2>2, <2>3, <2>4 DEF AnyNext, Next
<1>4. s \in standing => own \in events BY <1>1, <1>2, <1>3 DEF Mirrored
<1>5. ASSUME NEW p \in Call, Allow(p) PROVE own \in events'
  <2>1. CASE s \in standing BY <1>4, <1>5, <2>1 DEF Allow
  <2>2. CASE s \notin standing
    <3>1. s = [id |-> <<p, made[p]>>, axes |-> call[p].axes, at |-> call[p].at]
      BY <1>5, <2>2 DEF Allow
    <3>2. own \in Recorded(p) BY <1>5, <3>1, RecordedShape DEF Allow
    <3> QED BY <1>5, <3>2 DEF Allow
  <2> QED BY <2>1, <2>2
<1>6. ASSUME Cleanup PROVE own \in events'
  <2>1. PICK t \in 0..now : events' = {e \in events : ~(e.at < Cutoff(t))} BY <1>6 DEF Cleanup
  <2>2. s \in standing /\ now' = now BY <1>6 DEF Cleanup
  <2>3. ~(s.at < Cutoff(t)) BY <1>1, <1>2, <2>2 DEF Cutoff
  <2> QED BY <1>4, <2>1, <2>2, <2>3
<1>7. ASSUME Forgive \/ Freed PROVE own \in events'
  <2>1. PICK id : Released(id) BY <1>7 DEF Forgive, Freed
  <2>2. s \in standing /\ s.id # id BY <2>1 DEF Released
  <2> QED BY <1>4, <2>1, <2>2 DEF Released
<1>8. CASE \/ \E p \in Call : Start(p) \/ Lock(p) \/ ReadClock(p) \/ Count(p) \/ Refuse(p) \/ Break(p)
           \/ Tick
  <2>1. standing' = standing /\ events \subseteq events'
    BY <1>8 DEF Start, Lock, ReadClock, Count, Refuse, Break, Tick
  <2> QED BY <1>4, <2>1
<1> QED BY <1>5, <1>6, <1>7, <1>8 DEF AnyNext, Next

LEMMA StepIInv == IInv /\ [AnyNext]_vars => IInv'
<1> SUFFICES ASSUME IInv, [AnyNext]_vars PROVE IInv' OBVIOUS
<1>1. CASE UNCHANGED vars
  <2> USE <1>1 DEF vars, IInv
  <2>1. Base' BY DEF Base, TypeOK, Held, Clocked, Named, Later
  <2>2. Mirrored' BY DEF Mirrored
  <2>3. Finite' BY DEF Finite, OnAxis
  <2>4. EventBound' BY DEF EventBound, Between
  <2>5. Counted' BY DEF Counted, Few, Between
  <2>6. Promised' BY DEF Promised, Few, Between
  <2> QED BY <2>1, <2>2, <2>3, <2>4, <2>5, <2>6
<1>2. CASE AnyNext
  BY <1>2, BaseStep, FiniteStep, EventBoundStep, CountedStep, PromisedStep, MirroredStep DEF IInv
<1> QED BY <1>1, <1>2

\* An attempt that was let through in the window that ends now has its event in
\* that window, and no two attempts share one.
LEMMA StandingBound == IInv => WindowBound
<1> SUFFICES ASSUME IInv, NEW a \in Axis
             PROVE  Cardinality({s \in standing : a \in s.axes /\ s.at > now - Window[a] * Sec}) <= Limit[a]
  BY DEF WindowBound
<1> DEFINE S == {s \in standing : a \in s.axes /\ s.at > now - Window[a] * Sec}
           T == Between(events, a, now - Span(a), now)
           f == [s \in S |-> [id |-> s.id, axis |-> a, at |-> s.at]]
<1>1. now \in Nat /\ Span(a) \in Nat /\ Span(a) <= Retention /\ Retention \in Nat /\ Limit[a] \in Nat
  BY SpanBounds, RateAssumption DEF IInv, Base, TypeOK
<1>2. \A s \in S : s \in standing /\ a \in s.axes /\ s.at \in Nat /\ s.at > now - Span(a)
  BY DEF IInv, Base, TypeOK, Attempt, Span
<1>3. \A s \in S : [id |-> s.id, axis |-> a, at |-> s.at] \in events
  <2> SUFFICES ASSUME NEW s \in S PROVE [id |-> s.id, axis |-> a, at |-> s.at] \in events
    OBVIOUS
  <2>1. s.at >= now - Retention BY <1>1, <1>2
  <2> QED BY <1>2, <2>1 DEF IInv, Mirrored
<1>4. \A s \in S : [id |-> s.id, axis |-> a, at |-> s.at] \in T
  BY <1>1, <1>2, <1>3 DEF Between, IInv, Base, Clocked
<1>5. \A s, t \in S : s.id = t.id => s = t BY DEF IInv, Base, Named
<1>6. f \in Injection(S, T)
  <2>1. f \in [S -> T] BY <1>4
  <2>2. \A s, t \in S : f[s] = f[t] => s = t
    <3> SUFFICES ASSUME NEW s \in S, NEW t \in S, f[s] = f[t] PROVE s = t OBVIOUS
    <3>1. [id |-> s.id, axis |-> a, at |-> s.at] = [id |-> t.id, axis |-> a, at |-> t.at] OBVIOUS
    <3>2. s.id = t.id BY <3>1
    <3> QED BY <1>5, <3>2
  <2> HIDE DEF f, S, T
  <2> QED BY <2>1, <2>2 DEF Injection, IsInjective
<1>7. IsFiniteSet(T) /\ Cardinality(T) \in Nat BY BetweenFinite, FS_CardinalityType DEF IInv
<1>8. Cardinality(T) <= Limit[a] BY <1>1 DEF IInv, EventBound
<1>9. IsFiniteSet(S) /\ Cardinality(S) <= Cardinality(T)
  <2> HIDE DEF f, S, T
  <2> QED BY <1>6, <1>7, FS_Injection
<1>10. Cardinality(S) \in Nat BY <1>9, FS_CardinalityType
<1> QED BY <1>1, <1>7, <1>8, <1>9, <1>10

LEMMA IInvWindows == IInv => WindowsSound
BY StandingBound DEF IInv, Base, WindowsSound

-----------------------------------------------------------------------------
(* Results.                                                                *)

\* No axis has more attempts in its window than its limit, for any axes,
\* limits and windows, any number of overlapping calls, cleanups at any time
\* and reservations released at any time (reserve_rate_limit, cleanup of
\* rate_limit_events).
THEOREM LimitsHold == Spec => []WindowsSound
<1>1. Init => IInv BY InitIInv
<1>2. IInv /\ [Next]_vars => IInv' BY StepIInv DEF AnyNext
<1>3. IInv => WindowsSound BY IInvWindows
<1> QED BY <1>1, <1>2, <1>3, PTL DEF Spec

\* What RetryHonest says of a step.
HonestStep ==
  \A p \in Call :
    /\ call[p].retry = 0 /\ call'[p].retry > 0
    /\ call[p].axes = told[p].axes
    /\ call[p].at >= told[p].until
    => \E e \in events : e.axis \in call[p].axes /\ e.at >= told[p].at

\* A call begins to be refused only when it counts a full window; had it waited
\* as told, and nobody come since, the window would have room.
LEMMA StepHonest == IInv /\ [AnyNext]_vars => HonestStep
<1> SUFFICES ASSUME IInv, [AnyNext]_vars, NEW p \in Call,
                    call[p].retry = 0, call'[p].retry > 0,
                    call[p].axes = told[p].axes, call[p].at >= told[p].until,
                    \A e \in events : e.axis \in call[p].axes => ~(e.at >= told[p].at)
             PROVE  FALSE
  BY DEF HonestStep
<1>1. call[p] \in CallState /\ Base BY DEF IInv, Base, TypeOK
<1>2. Count(p)
  <2>1. call'[p] # call[p] BY <1>1 DEF CallState
  <2>2. call'[p].retry # 0 OBVIOUS
  <2> QED
    <3>1. ASSUME NEW q \in Call, Start(q) PROVE call'[p] = call[p] \/ call'[p].retry = 0
      BY <3>1, <1>1 DEF Start, Base, TypeOK, Idle
    <3>2. ASSUME NEW q \in Call, Lock(q) \/ ReadClock(q)
          PROVE  call'[p] = call[p] \/ call'[p].retry = 0
      BY <3>2, <1>1 DEF Lock, ReadClock, Base, TypeOK, CallState
    <3>3. ASSUME NEW q \in Call, Refuse(q) \/ Allow(q) \/ Break(q)
          PROVE  call'[p] = call[p] \/ call'[p].retry = 0
      BY <3>3, <1>1 DEF Refuse, Allow, Break, Ended, Base, TypeOK, Idle
    <3>4. ASSUME NEW q \in Call, Count(q), q # p PROVE call'[p] = call[p]
      BY <3>4, <1>1 DEF Count, Base, TypeOK
    <3>5. ASSUME UNCHANGED vars \/ Forgive \/ Cleanup \/ Tick \/ Freed PROVE call'[p] = call[p]
      BY <3>5 DEF vars, Forgive, Cleanup, Tick, Freed
    <3> QED BY <2>1, <3>1, <3>2, <3>3, <3>4, <3>5 DEF AnyNext, Next
<1>3. PICK a \in call[p].left : Cardinality(InWindow(a, call[p].at)) >= Limit[a]
  <2>1. ASSUME NEW a \in call[p].left, call' = [call EXCEPT ![p].left = @ \ {a}] PROVE FALSE
    <3>1. call'[p].retry = call[p].retry BY <2>1, <1>1 DEF Base, TypeOK, CallState
    <3> QED BY <3>1
  <2> QED BY <1>2, <2>1 DEF Count
<1>4. /\ a \in told[p].axes /\ a \in Axis /\ Limit[a] \in Nat /\ Span(a) \in Nat
      /\ call[p].at \in Nat /\ told[p].at \in Nat /\ told[p].until \in Nat
  BY <1>1, <1>3, SpanBounds, RateAssumption DEF Base, TypeOK, Held, CallState
<1>5. Few(events, a, told[p].until - Span(a), told[p].at - 1) BY <1>4 DEF IInv, Promised
<1>6. InWindow(a, call[p].at) \subseteq Between(events, a, told[p].until - Span(a), told[p].at - 1)
  <2>1. \A e \in events : e.at \in Nat BY <1>1 DEF Base, TypeOK, EventRecord
  <2>2. \A e \in events : e.axis = a => e.at <= told[p].at - 1 BY <1>4, <2>1
  <2> QED BY <1>4, <2>1, <2>2 DEF InWindow, Between, Span
<1>7. IsFiniteSet(Between(events, a, told[p].until - Span(a), told[p].at - 1))
  BY <1>4, BetweenFinite DEF IInv
<1> QED BY <1>3, <1>4, <1>5, <1>6, <1>7, Smaller DEF Few

\* A caller who waits as long as it was told is refused only if somebody has
\* reserved one of its axes since (retry_after_sec of reserve_rate_limit).
THEOREM WaitsAreHonest == Spec => RetryHonest
<1>1. Init => IInv BY InitIInv
<1>2. IInv /\ [Next]_vars => IInv' BY StepIInv DEF AnyNext
<1>3. IInv /\ [Next]_vars => HonestStep BY StepHonest DEF AnyNext
<1> QED BY <1>1, <1>2, <1>3, PTL DEF Spec, RetryHonest, HonestStep


-----------------------------------------------------------------------------
(* What the form's requests do to the rate limits.                         *)

\* A step of the form is a step of the limits, the release of a reservation,
\* or none of their business.
LEMMA RateStep == [AppNext]_allVars => [AnyNext]_vars
<1> SUFFICES ASSUME [AppNext]_allVars PROVE AnyNext \/ UNCHANGED vars
  OBVIOUS
<1>1. CASE UNCHANGED allVars BY <1>1 DEF allVars
<1>2. ASSUME NEW p \in Call, Apply(p) \/ Granted(p) \/ Blocked(p) \/ OtherRequest(p) \/ Reserving(p)
      PROVE  AnyNext
  <2>1. Start(p) \/ Allow(p) \/ Refuse(p) \/ Break(p) \/ Lock(p) \/ ReadClock(p) \/ Count(p)
    BY <1>2, Zenon DEF Apply, Granted, Blocked, OtherRequest, Reserving
  <2> QED BY <2>1 DEF AnyNext, Next
<1>3. ASSUME NEW p \in Call, Lose(p) \/ Verify(p) PROVE UNCHANGED vars
  BY <1>3 DEF Lose, Verify
<1>4. ASSUME NEW b \in batch, AssertRevision(b) \/ Insert(b) \/ Store(b) \/ Fail(b)
      PROVE  UNCHANGED vars
  BY <1>4 DEF AssertRevision, Insert, Store, Fail
<1>5. ASSUME NEW a \in Admin,
             OpenPage(a) \/ LoadPage(a) \/ Save(a) \/ SaveRuns(a) \/ Begin(a) \/ Decide(a)
      PROVE  UNCHANGED vars
  BY <1>5, Zenon DEF OpenPage, LoadPage, Save, SaveRuns, Begin, Decide
<1>6. ASSUME NEW a \in Admin, Erase(a) PROVE AnyNext \/ UNCHANGED vars
  <2>1. UNCHANGED <<now, locks, call, told, made>> BY <1>6 DEF Erase
  <2>2. UNCHANGED <<events, standing>> \/ \E id : Released(id) BY <1>6, Zenon DEF Erase
  <2> QED BY <2>1, <2>2 DEF AnyNext, Freed, vars
<1>7. CASE Publish \/ DeleteForm BY <1>7 DEF Publish, DeleteForm
<1>8. CASE Around BY <1>8 DEF Around, AnyNext, Next
<1> QED BY <1>1, <1>2, <1>3, <1>4, <1>5, <1>6, <1>7, <1>8 DEF AppNext

-----------------------------------------------------------------------------
(* The inductive invariant of the form.                                    *)

Draft == [id : (1..lastId) \union {None}, says : Meaning, needs : BOOLEAN]

Request == [pc : {"idle", "reserve", "batch", "verify"}, email : Email \union {None}, rev : Nat,
            answers : Answers \union {<<>>}]
Batch == [id : Id, email : Email, rev : Nat, answers : Answers, pc : {"begun", "asserted", "inserted"}]
Application == [id : Id, email : Email, answers : Answers, status : Status]
Page == [pc : {"loading", "shown", "saving"}, rev : Nat, list : Seq(Draft), base : Seq(Draft)]
Task == [pc : {"idle", "decide", "erase"}, id : Id \union {None}, old : Status \union {None},
         new : Status \union {None}]

\* The form, the tables, what the database runs and what the screens hold.
FormShape ==
  /\ form \in [there : BOOLEAN, open : BOOLEAN, rev : Nat, list : Seq(Question)]
  /\ lastId \in Nat
  /\ DistinctIds(form.list)

TableShape ==
  /\ subs \subseteq Application
  /\ batch \subseteq Batch
  /\ app \in [Call -> Request]
  /\ \A p \in Call : app[p].pc = "reserve" => app[p].email \in Email /\ app[p].answers \in Answers

ScreenShape ==
  /\ page \in [Admin -> Page]
  /\ \A a \in Admin : page[a].pc = "saving" => DistinctIds(page[a].list)
  /\ desk \in [Admin -> Task]
  /\ \A a \in Admin : desk[a].pc = "decide" => desk[a].new \in Status

\* The id of a reservation that has ended.
Given(id) ==
  /\ id[2] <= made[id[1]]
  /\ call[id[1]].pc # "idle" => id[2] < made[id[1]]

\* Applications have ids of reservations that have ended, so the one that is
\* under way gets a new one.
Numbering ==
  /\ \A b \in batch : Given(b.id)
  /\ \A id \in stored : id \in Id /\ Given(id)
  /\ \A o \in outcome : o.id \in Id /\ Given(o.id)
  /\ \A p \in Call :
       /\ app[p].pc = "reserve" => call[p].pc # "idle"
       /\ app[p].pc \in {"batch", "verify"} => call[p].pc = "idle"

\* An application is in one place: a batch, the table or the erased.
Placed ==
  /\ \A b, c \in batch : b.id = c.id => b = c
  /\ \A b \in batch : b.id \notin stored
  /\ \A s, t \in subs : s.id = t.id => s = t
  /\ \A s \in subs : s.id \in attached
  /\ attached \subseteq stored
  /\ StoredKept
  /\ ErasedWholly

\* What was answered for good is decided for good.
Settled ==
  /\ ToldTruly
  /\ \A o \in outcome : o.how \in {"changed", "duplicate"} => \A b \in batch : b.id # o.id

\* The unique index: a row that is inserted shuts out the others.
Unique ==
  /\ OncePerEmail
  /\ \A b \in batch : b.pc = "inserted" =>
       /\ \A s \in subs : s.email # b.email
       /\ \A c \in batch : c.pc = "inserted" /\ c.email = b.email => c = b

\* Answers that fit a list: they mean what it asks, and it misses none.
Fits(answers, list) ==
  /\ \A i \in DOMAIN answers : i \in Ids(list) /\ Asks(list, i).says = answers[i]
  /\ \A q \in ToSet(list) : q.needs => q.id \in DOMAIN answers

\* Answers that were judged by a revision of the form fit it as long as the
\* form has that revision.
Judged(rev, answers) ==
  /\ rev <= form.rev
  /\ form.there /\ rev = form.rev => Fits(answers, form.list)

\* What the assertion has checked stays true, for the batch locks the form.
Meant ==
  /\ MeaningKept
  /\ \A p \in Call : app[p].pc = "reserve" => Judged(app[p].rev, app[p].answers)
  /\ \A b \in batch :
       /\ Judged(b.rev, b.answers)
       /\ b.pc # "begun" => form.there /\ form.open /\ b.rev = form.rev

\* An editor that has the form's revision was shown the form's questions.
EditsKnown ==
  \A a \in Admin :
    /\ page[a].rev <= form.rev
    /\ form.there /\ page[a].rev = form.rev /\ page[a].pc # "loading" => page[a].base = form.list

FInv ==
  /\ FormShape /\ TableShape /\ ScreenShape
  /\ Numbering /\ Placed /\ Settled /\ Unique /\ Meant /\ EditsKnown /\ AuditTrue

-----------------------------------------------------------------------------
(* Lists of questions.                                                     *)

LEMMA Elements ==
  ASSUME NEW S, NEW list \in Seq(S)
  PROVE  /\ Len(list) \in Nat
         /\ DOMAIN list = 1..Len(list)
         /\ \A i \in DOMAIN list : list[i] \in S /\ list[i] \in ToSet(list)
         /\ \A q \in ToSet(list) : q \in S /\ \E i \in DOMAIN list : q = list[i]
BY LenProperties, ElementOfSeq DEF ToSet

LEMMA RemovedIn ==
  ASSUME NEW S, NEW list \in Seq(S), NEW i \in DOMAIN list
  PROVE  RemoveAt(list, i) \in Seq(S)
<1>1. DOMAIN list = 1..Len(list) /\ Len(list) \in Nat /\ \A j \in 1..Len(list) : list[j] \in S
  BY Elements
<1>2. i \in Int /\ i - 1 \in Int /\ i + 1 \in Int BY <1>1
<1>3. SubSeq(list, 1, i - 1) \in Seq(S)
  <2>1. \A j \in 1..(i - 1) : list[j] \in S BY <1>1
  <2> QED BY <1>2, <2>1, SubSeqProperties
<1>4. SubSeq(list, i + 1, Len(list)) \in Seq(S)
  <2>1. \A j \in (i + 1)..Len(list) : list[j] \in S BY <1>1
  <2> QED BY <1>1, <1>2, <2>1, SubSeqProperties
<1> QED BY <1>3, <1>4, ConcatProperties DEF RemoveAt

LEMMA SwappedIn ==
  ASSUME NEW S, NEW list \in Seq(S), NEW i \in 1..(Len(list) - 1)
  PROVE  Swapped(list, i) \in Seq(S)
<1>1. Len(list) \in Nat /\ \A j \in 1..Len(list) : list[j] \in S BY Elements
<1>2. i \in 1..Len(list) /\ i + 1 \in 1..Len(list) BY <1>1
<1>3. [list EXCEPT ![i] = list[i + 1]] \in Seq(S) /\ Len([list EXCEPT ![i] = list[i + 1]]) = Len(list)
  BY <1>1, <1>2, ExceptSeq
<1>4. [[list EXCEPT ![i] = list[i + 1]] EXCEPT ![i + 1] = list[i]] \in Seq(S)
  BY <1>1, <1>2, <1>3, ExceptSeq
<1> QED BY <1>4 DEF Swapped

LEMMA MovedIn ==
  ASSUME NEW S, NEW list \in Seq(S), NEW new \in Moved(list)
  PROVE  new \in Seq(S)
BY RemovedIn, SwappedIn DEF Moved

\* Whatever an editor does to a list of drafts makes a list of drafts.
LEMMA EditsIn ==
  ASSUME NEW list \in Seq(Draft), NEW new \in Edits(list)
  PROVE  new \in Seq(Draft)
<1>1. Len(list) \in Nat /\ DOMAIN list = 1..Len(list) /\ \A i \in DOMAIN list : list[i] \in Draft
  BY Elements
<1>2. CASE new \in Moved(list) BY <1>2, MovedIn
<1>3. ASSUME NEW i \in DOMAIN list, NEW m \in Meaning, new = [list EXCEPT ![i].says = m]
      PROVE  new \in Seq(Draft)
  <2>1. [list[i] EXCEPT !.says = m] \in Draft BY <1>1 DEF Draft
  <2>2. new = [list EXCEPT ![i] = [list[i] EXCEPT !.says = m]] BY <1>3
  <2> HIDE DEF Draft
  <2> QED BY <1>1, <2>1, <2>2, ExceptSeq
<1>4. ASSUME NEW i \in DOMAIN list, new = [list EXCEPT ![i].needs = ~@]
      PROVE  new \in Seq(Draft)
  <2>1. [list[i] EXCEPT !.needs = ~@] \in Draft BY <1>1 DEF Draft
  <2>2. new = [list EXCEPT ![i] = [list[i] EXCEPT !.needs = ~@]] BY <1>4
  <2> QED BY <1>1, <2>1, <2>2, ExceptSeq
<1>5. ASSUME NEW m \in Meaning, new = Append(list, [id |-> None, says |-> m, needs |-> FALSE])
      PROVE  new \in Seq(Draft)
  <2>1. [id |-> None, says |-> m, needs |-> FALSE] \in Draft BY DEF Draft
  <2> QED BY <1>5, <2>1, AppendProperties
<1>6. new \in Reworded(list) => \E i \in DOMAIN list, m \in Meaning : new = [list EXCEPT ![i].says = m]
  BY DEF Reworded
<1>7. new \in Required(list) => \E i \in DOMAIN list : new = [list EXCEPT ![i].needs = ~@]
  BY DEF Required
<1>8. new \in Extended(list) =>
        \E m \in Meaning : new = Append(list, [id |-> None, says |-> m, needs |-> FALSE])
  BY DEF Extended
<1> QED BY <1>2, <1>3, <1>4, <1>5, <1>6, <1>7, <1>8 DEF Edits

\* The questions before the i-th that are new.
NewIn(list, i) == {j \in 1..i : list[j].id = None}

LEMMA NewCounted ==
  ASSUME NEW list \in Seq(Draft), NEW i \in 0..Len(list), NEW k \in 0..i
  PROVE  /\ IsFiniteSet(NewIn(list, i))
         /\ Cardinality(NewIn(list, i)) \in Nat
         /\ Cardinality(NewIn(list, k)) \in Nat
         /\ Cardinality(NewIn(list, k)) <= Cardinality(NewIn(list, i))
         /\ k < i /\ list[i].id = None => Cardinality(NewIn(list, k)) < Cardinality(NewIn(list, i))
<1>1. Len(list) \in Nat /\ i \in Nat /\ k \in Nat /\ k <= i BY Elements
<1>2. IsFiniteSet(1..i) BY <1>1, FS_Interval
<1>3. IsFiniteSet(NewIn(list, i)) /\ Cardinality(NewIn(list, i)) \in Nat
  <2>1. NewIn(list, i) \subseteq 1..i BY DEF NewIn
  <2> QED BY <1>2, <2>1, Smaller
<1>4. NewIn(list, k) \subseteq NewIn(list, i) BY <1>1 DEF NewIn
<1>5. Cardinality(NewIn(list, k)) \in Nat /\ Cardinality(NewIn(list, k)) <= Cardinality(NewIn(list, i))
  BY <1>3, <1>4, Smaller
<1>6. ASSUME k < i, list[i].id = None PROVE Cardinality(NewIn(list, k)) < Cardinality(NewIn(list, i))
  <2>1. i \in NewIn(list, i) /\ i \notin NewIn(list, k) BY <1>1, <1>6 DEF NewIn
  <2>2. /\ IsFiniteSet(NewIn(list, i) \ {i})
        /\ Cardinality(NewIn(list, i) \ {i}) + 1 = Cardinality(NewIn(list, i))
    BY <1>3, <2>1, OneLess
  <2>3. NewIn(list, k) \subseteq NewIn(list, i) \ {i} BY <1>4, <2>1
  <2>4. /\ Cardinality(NewIn(list, i) \ {i}) \in Nat
        /\ Cardinality(NewIn(list, k)) <= Cardinality(NewIn(list, i) \ {i})
    BY <2>2, <2>3, Smaller
  <2> QED BY <1>3, <1>5, <2>2, <2>4
<1> QED BY <1>3, <1>5, <1>6

\* What the database makes of a list: every question keeps its id or gets one
\* of its own, above all that were given.
LEMMA NumberedQuestions ==
  ASSUME lastId \in Nat, NEW list \in Seq(Draft), DistinctIds(list), NEW last,
         last = lastId + Cardinality({i \in DOMAIN list : list[i].id = None})
  PROVE  /\ last \in Nat /\ last >= lastId
         /\ DOMAIN Numbered(list) = DOMAIN list
         /\ Numbered(list) \in Seq([id : 1..last, says : Meaning, needs : BOOLEAN])
         /\ DistinctIds(Numbered(list))
         /\ \A i \in DOMAIN list :
              IF list[i].id # None THEN Numbered(list)[i] = list[i]
                                   ELSE Numbered(list)[i].id > lastId
<1> DEFINE n == Len(list)
           N(i) == Cardinality(NewIn(list, i))
           saved == Numbered(list)
<1>1. n \in Nat /\ DOMAIN list = 1..n /\ \A i \in 1..n : list[i] \in Draft BY Elements
<1>2. last = lastId + N(n) BY <1>1 DEF NewIn
<1>3. \A i \in 1..n : N(i) \in Nat /\ N(i) <= N(n) BY <1>1, NewCounted
<1>4. N(n) \in Nat
  <2>1. n \in 0..n /\ n \in 0..Len(list) BY <1>1
  <2> QED BY <2>1, NewCounted
<1>5. \A i \in 1..n : list[i].id = None => N(i) > 0
  <2> SUFFICES ASSUME NEW i \in 1..n, list[i].id = None PROVE N(i) > 0 OBVIOUS
  <2>1. i \in 0..n /\ 0 \in 0..i /\ 0 < i BY <1>1
  <2>2. N(0) \in Nat /\ N(0) < N(i) BY <2>1, NewCounted
  <2> QED BY <2>2, <1>3
<1>6. \A i \in 1..n : \A k \in 1..n : k < i /\ list[i].id = None => N(k) < N(i)
  <2> SUFFICES ASSUME NEW i \in 1..n, NEW k \in 1..n, k < i, list[i].id = None PROVE N(k) < N(i) OBVIOUS
  <2>1. i \in 0..n /\ k \in 0..i BY <1>1
  <2> QED BY <2>1, NewCounted
<1>7. saved = [i \in 1..n |->
                IF list[i].id # None THEN list[i] ELSE [list[i] EXCEPT !.id = lastId + N(i)]]
  BY <1>1 DEF Numbered, NewIn
<1>8. PICK g \in [1..n -> Nat] : \A i \in 1..n : g[i] = N(i)
  <2>1. [i \in 1..n |-> N(i)] \in [1..n -> Nat] BY <1>3
  <2> QED BY <2>1
<1> HIDE DEF N, saved
<1>9. \A i \in 1..n :
        /\ list[i].id # None => saved[i] = list[i] /\ list[i].id \in 1..lastId
        /\ list[i].id = None => saved[i] = [id |-> lastId + g[i], says |-> list[i].says, needs |-> list[i].needs]
  <2> SUFFICES ASSUME NEW i \in 1..n
               PROVE  /\ list[i].id # None => saved[i] = list[i] /\ list[i].id \in 1..lastId
                      /\ list[i].id = None => saved[i] = [id |-> lastId + g[i], says |-> list[i].says, needs |-> list[i].needs]
    OBVIOUS
  <2>1. list[i] \in Draft BY <1>1
  <2>2. \A x : [list[i] EXCEPT !.id = x] = [id |-> x, says |-> list[i].says, needs |-> list[i].needs]
    BY <2>1 DEF Draft
  <2>3. saved[i] = IF list[i].id # None THEN list[i] ELSE [list[i] EXCEPT !.id = lastId + g[i]]
    BY <1>7, <1>8
  <2> QED BY <2>1, <2>2, <2>3 DEF Draft
<1>10. \A i \in 1..n : /\ list[i].id = None => lastId + g[i] \in 1..last /\ g[i] > 0
                       /\ list[i].id # None => list[i].id \in 1..last
  <2> SUFFICES ASSUME NEW i \in 1..n
               PROVE  /\ list[i].id = None => lastId + g[i] \in 1..last /\ g[i] > 0
                      /\ list[i].id # None => list[i].id \in 1..last
    OBVIOUS
  <2>1. g[i] \in Nat /\ g[i] <= N(n) /\ (list[i].id = None => g[i] > 0) BY <1>3, <1>5, <1>8
  <2>2. list[i].id # None => list[i].id \in 1..lastId BY <1>9
  <2>3. N(n) \in Nat /\ last = lastId + N(n) BY <1>2, <1>4
  <2> HIDE DEF N
  <2>4. lastId + g[i] \in 0..last BY <2>1, <2>3
  <2>5. list[i].id = None => lastId + g[i] \in 1..last BY <2>1, <2>4
  <2>6. list[i].id # None => list[i].id \in 1..last BY <2>2, <2>3
  <2> QED BY <2>1, <2>5, <2>6
<1>15. \A i \in 1..n : saved[i] \in [id : 1..last, says : Meaning, needs : BOOLEAN]
  <2> SUFFICES ASSUME NEW i \in 1..n PROVE saved[i] \in [id : 1..last, says : Meaning, needs : BOOLEAN]
    OBVIOUS
  <2>1. list[i] \in Draft BY <1>1
  <2>2. list[i].says \in Meaning /\ list[i].needs \in BOOLEAN BY <2>1 DEF Draft
  <2>3. CASE list[i].id = None
    <3>1. PICK x \in 1..last : x = lastId + g[i] BY <1>10, <2>3
    <3>2. saved[i] = [id |-> x, says |-> list[i].says, needs |-> list[i].needs] BY <1>9, <2>3, <3>1
    <3> QED BY <2>2, <3>2
  <2>4. CASE list[i].id # None
    <3>1. list[i].id \in 1..last /\ saved[i] = list[i] BY <1>9, <1>10, <2>4
    <3> QED BY <2>1, <3>1 DEF Draft
  <2> QED BY <2>3, <2>4
<1>11. DOMAIN saved = 1..n /\ saved \in Seq([id : 1..last, says : Meaning, needs : BOOLEAN])
  <2> DEFINE Q == [id : 1..last, says : Meaning, needs : BOOLEAN]
  <2>1. saved \in [1..n -> Q] BY <1>7, <1>15
  <2> HIDE DEF Q
  <2>2. saved \in Seq(Q) BY <1>1, <2>1, SeqDef
  <2> QED BY <2>1, <2>2 DEF Q
<1>16. \A i \in 1..n : saved[i].id = IF list[i].id = None THEN lastId + g[i] ELSE list[i].id
  <2> SUFFICES ASSUME NEW i \in 1..n
               PROVE  saved[i].id = IF list[i].id = None THEN lastId + g[i] ELSE list[i].id
    OBVIOUS
  <2>1. CASE list[i].id = None
    <3>1. saved[i] = [id |-> lastId + g[i], says |-> list[i].says, needs |-> list[i].needs]
      BY <1>9, <2>1
    <3>2. saved[i].id = lastId + g[i] BY <3>1
    <3> QED BY <2>1, <3>2
  <2>2. CASE list[i].id # None BY <1>9, <2>2
  <2> QED BY <2>1, <2>2
<1>12. DistinctIds(saved)
  <2> SUFFICES ASSUME NEW i \in 1..n, NEW j \in 1..n, saved[i].id = saved[j].id PROVE i = j
    BY <1>11 DEF DistinctIds
  <2>1. g[i] \in Nat /\ g[j] \in Nat BY <1>8
  <2>2. CASE list[i].id # None /\ list[j].id # None
    BY <1>1, <1>16, <2>2 DEF DistinctIds
  <2>3. CASE list[i].id = None /\ list[j].id = None
    <3>1. g[i] = g[j] BY <1>16, <2>1, <2>3
    <3>2. ~(i < j) /\ ~(j < i) BY <1>6, <1>8, <2>1, <2>3, <3>1
    <3> QED BY <1>1, <3>2
  <2>4. CASE list[i].id = None /\ list[j].id # None
    <3>1. list[j].id \in 1..lastId /\ g[i] > 0 BY <1>9, <1>10, <2>4
    <3>2. list[j].id = lastId + g[i] BY <1>16, <2>4
    <3> QED BY <2>1, <3>1, <3>2
  <2>5. CASE list[i].id # None /\ list[j].id = None
    <3>1. list[i].id \in 1..lastId /\ g[j] > 0 BY <1>9, <1>10, <2>5
    <3>2. list[i].id = lastId + g[j] BY <1>16, <2>5
    <3> QED BY <2>1, <3>1, <3>2
  <2> QED BY <2>2, <2>3, <2>4, <2>5
<1>13. last \in Nat /\ last >= lastId BY <1>2, <1>4
<1>14. \A i \in DOMAIN list :
         IF list[i].id # None THEN saved[i] = list[i] ELSE saved[i].id > lastId
  <2> SUFFICES ASSUME NEW i \in 1..n, list[i].id = None PROVE saved[i].id > lastId BY <1>1, <1>9
  <2> QED BY <1>8, <1>10, <1>16
<1> QED BY <1>1, <1>11, <1>12, <1>13, <1>14 DEF saved

\* The list on the screen gets ids of the saved one.
LEMMA MergedIn ==
  ASSUME NEW S, NEW T, NEW list \in Seq([id : S, says : Meaning, needs : BOOLEAN]),
         NEW saved \in Seq([id : T, says : Meaning, needs : BOOLEAN]), T \subseteq S
  PROVE  Merged(list, saved) \in Seq([id : S, says : Meaning, needs : BOOLEAN])
<1> DEFINE D == [id : S, says : Meaning, needs : BOOLEAN]
           Q == [id : T, says : Meaning, needs : BOOLEAN]
<1>1. Len(list) \in Nat /\ DOMAIN list = 1..Len(list) /\ \A i \in DOMAIN list : list[i] \in D
  BY Elements
<1>2. \A i \in DOMAIN saved : saved[i] \in Q BY Elements
<1>3. \A i \in DOMAIN list : i \in DOMAIN saved => [list[i] EXCEPT !.id = saved[i].id] \in D
  BY <1>1, <1>2
<1>4. Merged(list, saved) \in [1..Len(list) -> D] BY <1>1, <1>3 DEF Merged
<1> HIDE DEF D
<1>5. Merged(list, saved) \in Seq(D) BY <1>1, <1>4, SeqDef
<1> QED BY <1>5 DEF D

-----------------------------------------------------------------------------
(* Shapes.                                                                 *)

LEMMA Growing ==
  ASSUME lastId \in Nat, lastId' \in Nat, lastId' >= lastId
  PROVE  /\ Question \subseteq Question'
         /\ Seq(Draft) \subseteq Seq(Draft')
         /\ Answers \subseteq Answers'
<1>1. 1..lastId \subseteq 1..lastId' OBVIOUS
<1>2. Draft \subseteq Draft' BY <1>1 DEF Draft
<1>3. Seq(Draft) \subseteq Seq(Draft')
  <2> SUFFICES ASSUME NEW s \in Seq(Draft) PROVE s \in Seq(Draft') OBVIOUS
  <2> QED BY <1>2, SeqMonotonic
<1>4. Answers \subseteq Answers' BY <1>1 DEF Answers
<1> QED BY <1>1, <1>3, <1>4 DEF Question

LEMMA QuestionsAreDrafts ==
  ASSUME NEW list \in Seq(Question)
  PROVE  list \in Seq(Draft)
<1>1. Question \subseteq Draft BY DEF Question, Draft
<1> QED BY <1>1, SeqMonotonic

\* A save that the database accepts, and one that it does not.
LEMMA SaveRunsFacts ==
  ASSUME FormShape, ScreenShape, NEW a \in Admin, SaveRuns(a)
  PROVE  /\ page[a].pc = "saving" /\ page[a].list \in Seq(Draft) /\ DistinctIds(page[a].list)
         /\ \A c \in Admin \ {a} : page'[c] = page[c]
         /\ \/ /\ Accepts(a)
               /\ form' = [form EXCEPT !.list = Numbered(page[a].list), !.rev = @ + 1]
               /\ lastId' = lastId + Cardinality({i \in DOMAIN page[a].list : page[a].list[i].id = None})
               /\ \/ page'[a] = [page[a] EXCEPT !.pc = "shown"]
                  \/ \E list \in Moved(page[a].list) :
                       page'[a] = [pc |-> "shown", rev |-> form.rev + 1,
                                   list |-> Merged(list, Numbered(page[a].list)),
                                   base |-> Numbered(page[a].list)]
            \/ /\ UNCHANGED <<form, lastId>>
               /\ page'[a] = [page[a] EXCEPT !.pc = "shown"]
<1>1. page \in [Admin -> Page] /\ page[a].list \in Seq(Draft) BY DEF ScreenShape, Page
<1>2. page[a].pc = "saving" BY DEF SaveRuns
<1>3. DistinctIds(page[a].list) BY <1>2 DEF ScreenShape
<1> DEFINE saved == Numbered(page[a].list)
           fail == [page EXCEPT ![a].pc = "shown"]
<1>4. DOMAIN saved = DOMAIN page[a].list BY DEF Numbered
<1>5. fail[a] = [page[a] EXCEPT !.pc = "shown"] /\ \A c \in Admin \ {a} : fail[c] = page[c] BY <1>1
<1>6. CASE Accepts(a)
  <2>1. /\ form' = [form EXCEPT !.list = saved, !.rev = @ + 1]
        /\ lastId' = lastId + Cardinality({i \in DOMAIN saved : page[a].list[i].id = None})
        /\ \/ page' = fail
           \/ \E list \in Moved(page[a].list) :
                page' = [page EXCEPT ![a] = [Opened(form.rev + 1, saved) EXCEPT !.list = Merged(list, saved)]]
    BY <1>6, Zenon DEF SaveRuns
  <2>2. CASE page' = fail BY <1>2, <1>1, <1>3, <1>4, <1>5, <1>6, <2>1, <2>2
  <2>3. ASSUME NEW list \in Moved(page[a].list),
               page' = [page EXCEPT ![a] = [Opened(form.rev + 1, saved) EXCEPT !.list = Merged(list, saved)]]
        PROVE  /\ \A c \in Admin \ {a} : page'[c] = page[c]
               /\ page'[a] = [pc |-> "shown", rev |-> form.rev + 1, list |-> Merged(list, saved), base |-> saved]
    <3>1. [Opened(form.rev + 1, saved) EXCEPT !.list = Merged(list, saved)] =
            [pc |-> "shown", rev |-> form.rev + 1, list |-> Merged(list, saved), base |-> saved]
      BY DEF Opened
    <3> QED BY <1>1, <2>3, <3>1
  <2> HIDE DEF saved, fail
  <2> QED BY <1>1, <1>2, <1>3, <1>4, <1>6, <2>1, <2>2, <2>3 DEF saved
<1>7. CASE ~Accepts(a)
  <2>1. page' = fail /\ UNCHANGED <<form, lastId>> BY <1>7, Zenon DEF SaveRuns
  <2> QED BY <1>1, <1>2, <1>3, <1>5, <2>1
<1> QED BY <1>6, <1>7

LEMMA FormSteps ==
  AppNext => \/ UNCHANGED <<form, lastId>>
             \/ \E a \in Admin : SaveRuns(a)
             \/ Publish
             \/ DeleteForm
<1> SUFFICES ASSUME AppNext, ~Publish, ~DeleteForm, \A a \in Admin : ~SaveRuns(a)
             PROVE  UNCHANGED <<form, lastId>>
  OBVIOUS
<1>1. ASSUME NEW p \in Call, Apply(p) \/ Granted(p) \/ Blocked(p) \/ Lose(p) \/ Verify(p)
                             \/ OtherRequest(p) \/ Reserving(p)
      PROVE  UNCHANGED <<form, lastId>>
  BY <1>1, Zenon DEF Apply, Granted, Blocked, Lose, Verify, OtherRequest, Reserving, formVars
<1>2. ASSUME NEW b \in batch, AssertRevision(b) \/ Insert(b) \/ Store(b) \/ Fail(b)
      PROVE  UNCHANGED <<form, lastId>>
  BY <1>2, Zenon DEF AssertRevision, Insert, Store, Fail
<1>3. ASSUME NEW a \in Admin, OpenPage(a) \/ LoadPage(a) \/ Save(a) \/ Begin(a) \/ Decide(a) \/ Erase(a)
      PROVE  UNCHANGED <<form, lastId>>
  BY <1>3, Zenon DEF OpenPage, LoadPage, Save, Begin, Decide, Erase
<1>4. CASE Around BY <1>4, Zenon DEF Around, formVars
<1> QED BY <1>1, <1>2, <1>3, <1>4 DEF AppNext

LEMMA FormShapeStep ==
  ASSUME FormShape, ScreenShape, AppNext
  PROVE  FormShape' /\ lastId' \in Nat /\ lastId' >= lastId
<1>1. CASE UNCHANGED <<form, lastId>> BY <1>1 DEF FormShape, Question, DistinctIds
<1>2. CASE Publish
  <2>1. PICK open \in BOOLEAN : form' = [form EXCEPT !.open = open] BY <1>2 DEF Publish
  <2>2. lastId' = lastId BY <1>2 DEF Publish
  <2>3. form'.list = form.list /\ form' \in [there : BOOLEAN, open : BOOLEAN, rev : Nat, list : Seq(Question)]
    BY <2>1 DEF FormShape
  <2> QED BY <2>2, <2>3 DEF FormShape, Question, DistinctIds
<1>3. CASE DeleteForm
  <2>1. form' = [form EXCEPT !.there = FALSE, !.list = <<>>] /\ lastId' = lastId BY <1>3 DEF DeleteForm
  <2>2. <<>> \in Seq(Question) BY EmptySeq
  <2>3. form'.list = <<>> /\ form' \in [there : BOOLEAN, open : BOOLEAN, rev : Nat, list : Seq(Question)]
    BY <2>1, <2>2 DEF FormShape
  <2>4. DistinctIds(form'.list) BY <2>3 DEF DistinctIds
  <2> QED BY <2>1, <2>3, <2>4 DEF FormShape, Question, DistinctIds
<1>4. ASSUME NEW a \in Admin, SaveRuns(a) PROVE FormShape' /\ lastId' \in Nat /\ lastId' >= lastId
  <2>1. page[a].list \in Seq(Draft) /\ DistinctIds(page[a].list) /\ lastId \in Nat /\ form.rev \in Nat
    BY <1>4, SaveRunsFacts DEF FormShape
  <2>2. CASE /\ form' = [form EXCEPT !.list = Numbered(page[a].list), !.rev = @ + 1]
             /\ lastId' = lastId + Cardinality({i \in DOMAIN page[a].list : page[a].list[i].id = None})
    <3>1. /\ lastId' \in Nat /\ lastId' >= lastId
          /\ Numbered(page[a].list) \in Seq([id : 1..lastId', says : Meaning, needs : BOOLEAN])
          /\ DistinctIds(Numbered(page[a].list))
      BY <2>1, <2>2, NumberedQuestions
    <3>2. Numbered(page[a].list) \in Seq(Question') BY <3>1 DEF Question
    <3>3. form'.list = Numbered(page[a].list) /\ form' \in [there : BOOLEAN, open : BOOLEAN, rev : Nat, list : Seq(Question')]
      <4>1. form' = [there |-> form.there, open |-> form.open, rev |-> form.rev + 1,
                     list |-> Numbered(page[a].list)]
        BY <2>2 DEF FormShape
      <4>2. form.there \in BOOLEAN /\ form.open \in BOOLEAN /\ form.rev + 1 \in Nat BY <2>1 DEF FormShape
      <4> QED BY <3>2, <4>1, <4>2
    <3>4. DistinctIds(form'.list) BY <3>1, <3>3
    <3>5. (DistinctIds(form.list))' BY <3>4 DEF DistinctIds
    <3> QED BY <3>1, <3>3, <3>5 DEF FormShape
  <2>3. CASE UNCHANGED <<form, lastId>> BY <2>3 DEF FormShape, Question, DistinctIds
  <2> QED BY <1>4, <2>2, <2>3, SaveRunsFacts
<1> QED BY <1>1, <1>2, <1>3, <1>4, FormSteps

\* What the steps of a batch do to it, to its request and to what is told.
LEMMA EndsFacts ==
  ASSUME TableShape, NEW b \in batch, NEW how, Ends(b, how)
  PROVE  /\ batch' = batch \ {b}
         /\ app' \in [Call -> Request]
         /\ \A p \in Call : \/ app'[p] = app[p]
                            \/ app[p].pc = "batch" /\ app'[p].pc \in {"idle", "verify"}
         /\ \/ UNCHANGED outcome
            \/ how # "failed" /\ outcome' = outcome \union {[id |-> b.id, how |-> how]}
<1> DEFINE p == b.id[1]
<1>1. p \in Call BY DEF TableShape, Batch, Id
<1>2. batch' = batch \ {b} BY DEF Ends
<1>3. app[p] \in Request /\ app \in [Call -> Request] BY <1>1 DEF TableShape
<1>4. [app[p] EXCEPT !.pc = "verify"] \in Request /\ NoApp \in Request
  BY <1>3 DEF Request, NoApp
<1>5. [app[p] EXCEPT !.pc = "verify"].pc = "verify" /\ NoApp.pc = "idle" BY <1>3 DEF Request, NoApp
<1>6. CASE app[p].pc = "batch" /\ This(p) = b.id
  <2>1. \/ app' = [app EXCEPT ![p] = [app[p] EXCEPT !.pc = "verify"]]
        \/ app' = [app EXCEPT ![p] = NoApp]
    BY <1>6 DEF Ends
  <2>2. app' \in [Call -> Request] BY <1>1, <1>3, <1>4, <2>1
  <2>3. \A q \in Call \ {p} : app'[q] = app[q] BY <1>3, <2>1
  <2>4. app'[p].pc \in {"idle", "verify"} BY <1>1, <1>3, <1>5, <2>1
  <2>5. UNCHANGED outcome \/ (how # "failed" /\ outcome' = outcome \union {[id |-> b.id, how |-> how]})
    BY <1>6 DEF Ends, Told
  <2> QED BY <1>2, <1>6, <2>2, <2>3, <2>4, <2>5
<1>7. CASE ~(app[p].pc = "batch" /\ This(p) = b.id)
  <2>1. UNCHANGED <<app, outcome>> BY <1>7 DEF Ends
  <2> QED BY <1>2, <1>3, <2>1
<1> QED BY <1>6, <1>7

LEMMA MovesFacts ==
  ASSUME TableShape, NEW b \in batch, NEW pc \in {"asserted", "inserted"}, Moves(b, pc)
  PROVE  /\ \E c \in Batch :
              /\ batch' = (batch \ {b}) \union {c}
              /\ c.id = b.id /\ c.email = b.email /\ c.rev = b.rev /\ c.answers = b.answers /\ c.pc = pc
         /\ UNCHANGED <<app, outcome>>
<1>1. b \in Batch BY DEF TableShape
<1>2. [b EXCEPT !.pc = pc] \in Batch BY <1>1 DEF Batch
<1>3. LET c == [b EXCEPT !.pc = pc] IN
        c.id = b.id /\ c.email = b.email /\ c.rev = b.rev /\ c.answers = b.answers /\ c.pc = pc
  BY <1>1 DEF Batch
<1> QED BY <1>2, <1>3 DEF Moves

LEMMA BatchMoves ==
  ASSUME NEW b \in batch, AssertRevision(b) \/ Insert(b) \/ Store(b) \/ Fail(b)
  PROVE  \/ \E how : Ends(b, how)
         \/ \E pc \in {"asserted", "inserted"} : Moves(b, pc)
BY Zenon DEF AssertRevision, Insert, Store, Fail

LEMMA SubsSteps ==
  AppNext => \/ UNCHANGED subs
             \/ \E b \in batch : Store(b)
             \/ \E a \in Admin : Decide(a) \/ Erase(a)
             \/ DeleteForm
<1> SUFFICES ASSUME AppNext, \A b \in batch : ~Store(b), \A a \in Admin : ~(Decide(a) \/ Erase(a)), ~DeleteForm
             PROVE  UNCHANGED subs
  OBVIOUS
<1>1. ASSUME NEW p \in Call, Apply(p) \/ Granted(p) \/ Blocked(p) \/ Lose(p) \/ Verify(p)
                             \/ OtherRequest(p) \/ Reserving(p)
      PROVE  UNCHANGED subs
  BY <1>1, Zenon DEF Apply, Granted, Blocked, Lose, Verify, OtherRequest, Reserving, formVars
<1>2. ASSUME NEW b \in batch, AssertRevision(b) \/ Insert(b) \/ Fail(b) PROVE UNCHANGED subs
  BY <1>2, Zenon DEF AssertRevision, Insert, Fail
<1>3. ASSUME NEW a \in Admin, OpenPage(a) \/ LoadPage(a) \/ Save(a) \/ SaveRuns(a) \/ Begin(a)
      PROVE  UNCHANGED subs
  BY <1>3, Zenon DEF OpenPage, LoadPage, Save, SaveRuns, Begin
<1>4. CASE Around \/ Publish BY <1>4, Zenon DEF Around, Publish, formVars
<1> QED BY <1>1, <1>2, <1>3, <1>4 DEF AppNext

LEMMA BatchSteps ==
  AppNext => \/ UNCHANGED <<batch, app>>
             \/ UNCHANGED batch /\ \E p \in Call : Apply(p) \/ Blocked(p) \/ Lose(p) \/ Verify(p)
             \/ \E p \in Call : Granted(p)
             \/ \E b \in batch : AssertRevision(b) \/ Insert(b) \/ Store(b) \/ Fail(b)
<1>1. ASSUME NEW p \in Call, Apply(p) \/ Blocked(p) \/ Lose(p) \/ Verify(p)
      PROVE  UNCHANGED batch
  BY <1>1, Zenon DEF Apply, Blocked, Lose, Verify
<1>2. ASSUME NEW p \in Call, OtherRequest(p) \/ Reserving(p) PROVE UNCHANGED <<batch, app>>
  BY <1>2, Zenon DEF OtherRequest, Reserving, formVars
<1>3. ASSUME NEW a \in Admin,
             OpenPage(a) \/ LoadPage(a) \/ Save(a) \/ SaveRuns(a) \/ Begin(a) \/ Decide(a) \/ Erase(a)
      PROVE  UNCHANGED <<batch, app>>
  BY <1>3, Zenon DEF OpenPage, LoadPage, Save, SaveRuns, Begin, Decide, Erase
<1>4. CASE Around \/ Publish \/ DeleteForm BY <1>4, Zenon DEF Around, Publish, DeleteForm, formVars
<1> QED BY <1>1, <1>2, <1>3, <1>4 DEF AppNext

\* A request that asks to apply has a list of answers to questions of the form.
LEMMA ApplyFacts ==
  ASSUME FormShape, TableShape, NEW p \in Call, Apply(p)
  PROVE  /\ form.there /\ form.open
         /\ \A q \in Call \ {p} : app'[q] = app[q]
         /\ \E e \in Email, S \in SUBSET Questions :
              /\ Valid(S)
              /\ Answered(form.list, S) \in Answers
              /\ app' = [app EXCEPT ![p] = [pc |-> "reserve", email |-> e, rev |-> form.rev,
                                            answers |-> Answered(form.list, S)]]
              /\ app'[p] = [pc |-> "reserve", email |-> e, rev |-> form.rev,
                            answers |-> Answered(form.list, S)]
<1>1. PICK e \in Email, S \in SUBSET Questions :
        /\ Valid(S)
        /\ app' = [app EXCEPT ![p] = [pc |-> "reserve", email |-> e, rev |-> form.rev,
                                      answers |-> Answered(form.list, S)]]
  BY Zenon DEF Apply
<1>2. app \in [Call -> Request] BY DEF TableShape
<1>3. Answered(form.list, S) \in Answers
  <2> DEFINE I == {q.id : q \in S}
  <2>1. \A q \in Questions : q \in Question BY Elements DEF FormShape, Questions
  <2>2. I \subseteq 1..lastId BY <2>1 DEF Question
  <2>3. \A i \in I : Asks(form.list, i).says \in Meaning
    <3> SUFFICES ASSUME NEW q \in S PROVE Asks(form.list, q.id).says \in Meaning OBVIOUS
    <3>1. q \in ToSet(form.list) BY DEF Questions
    <3>2. Asks(form.list, q.id) \in ToSet(form.list) BY <3>1 DEF Asks
    <3> QED BY <2>1, <3>2 DEF Questions, Question
  <2>4. Answered(form.list, S) \in [I -> Meaning] BY <2>3 DEF Answered
  <2> QED BY <2>2, <2>4 DEF Answers
<1> QED BY <1>1, <1>2, <1>3 DEF Apply

LEMMA TableShapeStep ==
  ASSUME Base, FormShape, TableShape, ScreenShape, AppNext
  PROVE  TableShape'
<1>1. Answers \subseteq Answers' BY FormShapeStep, Growing DEF FormShape
<1>2. subs' \subseteq Application
  <2>1. ASSUME NEW b \in batch, Store(b) PROVE subs' \subseteq Application
    <3>1. b \in Batch BY DEF TableShape
    <3>2. [id |-> b.id, email |-> b.email, answers |-> b.answers, status |-> "PENDING"] \in Application
      BY <3>1 DEF Batch, Application, Status
    <3> QED BY <2>1, <3>2 DEF Store, TableShape
  <2>2. ASSUME NEW a \in Admin, Decide(a) PROVE subs' \subseteq Application
    <3>1. desk[a].pc = "decide" /\ desk[a].new \in Status BY <2>2 DEF Decide, ScreenShape
    <3>2. \A s \in subs : [s EXCEPT !.status = desk[a].new] \in Application
      BY <3>1 DEF TableShape, Application
    <3>3. \/ \E s \in subs : subs' = (subs \ {s}) \union {[s EXCEPT !.status = desk[a].new]}
          \/ UNCHANGED subs
      BY <2>2, Zenon DEF Decide
    <3> QED BY <3>2, <3>3 DEF TableShape
  <2>3. ASSUME NEW a \in Admin, Erase(a) PROVE subs' \subseteq Application
    BY <2>3 DEF Erase, TableShape
  <2>4. CASE DeleteForm BY <2>4 DEF DeleteForm
  <2> QED BY <2>1, <2>2, <2>3, <2>4, SubsSteps DEF TableShape
<1>3. /\ batch' \subseteq Batch
      /\ app' \in [Call -> Request]
      /\ \A p \in Call : app'[p].pc = "reserve" => app'[p].email \in Email /\ app'[p].answers \in Answers
  <2>0. /\ batch \subseteq Batch /\ app \in [Call -> Request]
        /\ \A p \in Call : app[p].pc = "reserve" => app[p].email \in Email /\ app[p].answers \in Answers
    BY DEF TableShape
  <2>1. CASE UNCHANGED <<batch, app>> BY <2>0, <2>1
  <2>2. ASSUME NEW p \in Call, Apply(p), UNCHANGED batch PROVE <1>3
    <3>1. form.rev \in Nat BY DEF FormShape
    <3>2. PICK e \in Email, S \in SUBSET Questions :
            /\ Answered(form.list, S) \in Answers
            /\ app' = [app EXCEPT ![p] = [pc |-> "reserve", email |-> e, rev |-> form.rev,
                                          answers |-> Answered(form.list, S)]]
            /\ app'[p] = [pc |-> "reserve", email |-> e, rev |-> form.rev,
                          answers |-> Answered(form.list, S)]
      BY <2>2, ApplyFacts
    <3>3. app'[p] \in Request /\ app'[p].email = e /\ app'[p].answers \in Answers BY <3>1, <3>2 DEF Request
    <3>4. app' \in [Call -> Request] BY <2>0, <3>2, <3>3
    <3>5. \A q \in Call \ {p} : app'[q] = app[q] BY <2>0, <3>2
    <3> QED BY <2>0, <2>2, <3>3, <3>4, <3>5
  <2>3. ASSUME NEW p \in Call, Blocked(p) \/ Lose(p) \/ Verify(p), UNCHANGED batch PROVE <1>3
    <3>1. app' = [app EXCEPT ![p] = NoApp] \/ app' = [app EXCEPT ![p].pc = "verify"]
      BY <2>3, Zenon DEF Blocked, Lose, Verify
    <3>2. NoApp \in Request /\ [app[p] EXCEPT !.pc = "verify"] \in Request BY <2>0 DEF NoApp, Request
    <3>3. NoApp.pc = "idle" /\ [app[p] EXCEPT !.pc = "verify"].pc = "verify" BY <2>0 DEF NoApp, Request
    <3>4. app' \in [Call -> Request] BY <2>0, <3>1, <3>2
    <3>5. app'[p].pc \in {"idle", "verify"} BY <2>0, <3>1, <3>3
    <3>6. \A q \in Call \ {p} : app'[q] = app[q] BY <2>0, <3>1
    <3> QED BY <2>0, <2>3, <3>4, <3>5, <3>6
  <2>4. ASSUME NEW p \in Call, Granted(p) PROVE <1>3
    <3> DEFINE b == [id |-> This(p), email |-> app[p].email, rev |-> app[p].rev,
                     answers |-> app[p].answers, pc |-> "begun"]
    <3>1. app[p].pc = "reserve" /\ app[p] \in Request BY <2>0, <2>4 DEF Granted
    <3>2. app[p].email \in Email /\ app[p].answers \in Answers /\ app[p].rev \in Nat BY <2>0, <3>1 DEF Request
    <3>3. This(p) \in Id
      <4>1. p \in Call /\ made[p] \in Nat BY DEF Base, TypeOK
      <4> QED BY <4>1 DEF This, Id
    <3>4. b \in Batch BY <3>2, <3>3 DEF Batch
    <3>5. batch' = batch \union {b} /\ app' = [app EXCEPT ![p].pc = "batch"] BY <2>4 DEF Granted
    <3>6. [app[p] EXCEPT !.pc = "batch"] \in Request /\ [app[p] EXCEPT !.pc = "batch"].pc = "batch"
      BY <3>1 DEF Request
    <3>7. app' \in [Call -> Request] /\ app'[p].pc = "batch" /\ \A q \in Call \ {p} : app'[q] = app[q]
      BY <2>0, <3>5, <3>6
    <3> QED BY <2>0, <3>4, <3>5, <3>7
  <2>5. ASSUME NEW b \in batch, AssertRevision(b) \/ Insert(b) \/ Store(b) \/ Fail(b) PROVE <1>3
    <3>1. ASSUME NEW how, Ends(b, how) PROVE <1>3 BY <2>0, <3>1, EndsFacts
    <3>2. ASSUME NEW pc \in {"asserted", "inserted"}, Moves(b, pc) PROVE <1>3 BY <2>0, <3>2, MovesFacts
    <3> QED BY <2>5, <3>1, <3>2, BatchMoves
  <2> QED BY <2>1, <2>2, <2>3, <2>4, <2>5, BatchSteps
<1>4. Application \subseteq Application' /\ Batch \subseteq Batch' /\ Request \subseteq Request'
  BY <1>1 DEF Application, Batch, Request, Id
<1>5. app' \in [Call -> Request'] BY <1>3, <1>4
<1> QED BY <1>1, <1>2, <1>3, <1>4, <1>5 DEF TableShape

LEMMA ScreenSteps ==
  AppNext => /\ \/ UNCHANGED page
                \/ \E a \in Admin : OpenPage(a) \/ LoadPage(a) \/ Save(a) \/ SaveRuns(a)
             /\ \/ UNCHANGED desk
                \/ \E a \in Admin : Begin(a) \/ Decide(a) \/ Erase(a)
<1>1. ASSUME NEW p \in Call, Apply(p) \/ Granted(p) \/ Blocked(p) \/ Lose(p) \/ Verify(p)
                             \/ OtherRequest(p) \/ Reserving(p)
      PROVE  UNCHANGED <<page, desk>>
  BY <1>1, Zenon DEF Apply, Granted, Blocked, Lose, Verify, OtherRequest, Reserving, formVars, review
<1>2. ASSUME NEW b \in batch, AssertRevision(b) \/ Insert(b) \/ Store(b) \/ Fail(b)
      PROVE  UNCHANGED <<page, desk>>
  BY <1>2, Zenon DEF AssertRevision, Insert, Store, Fail, review
<1>3. ASSUME NEW a \in Admin, OpenPage(a) \/ LoadPage(a) \/ Save(a) \/ SaveRuns(a)
      PROVE  UNCHANGED desk
  BY <1>3, Zenon DEF OpenPage, LoadPage, Save, SaveRuns, review
<1>4. ASSUME NEW a \in Admin, Begin(a) \/ Decide(a) \/ Erase(a) PROVE UNCHANGED page
  BY <1>4, Zenon DEF Begin, Decide, Erase
<1>5. CASE Around \/ Publish \/ DeleteForm
  BY <1>5, Zenon DEF Around, Publish, DeleteForm, formVars, review
<1> QED BY <1>1, <1>2, <1>3, <1>4, <1>5 DEF AppNext

\* What the editor's page becomes.
LEMMA PageFacts ==
  ASSUME FormShape, ScreenShape, NEW a \in Admin, OpenPage(a) \/ LoadPage(a) \/ Save(a)
  PROVE  /\ UNCHANGED <<form, lastId>>
         /\ \A c \in Admin \ {a} : page'[c] = page[c]
         /\ \/ page'[a] = [pc |-> "loading", rev |-> form.rev, list |-> <<>>, base |-> <<>>]
            \/ page'[a] = [pc |-> "shown", rev |-> page[a].rev, list |-> form.list, base |-> form.list]
            \/ /\ page[a].pc = "shown"
               /\ \E list \in Seq(Draft) :
                    /\ DistinctIds(list)
                    /\ page'[a] = [pc |-> "saving", rev |-> page[a].rev, list |-> list, base |-> page[a].base]
<1>1. page[a] \in Page /\ page \in [Admin -> Page] BY DEF ScreenShape
<1>2. UNCHANGED <<form, lastId>> BY Zenon DEF OpenPage, LoadPage, Save
<1>3. CASE OpenPage(a)
  <2>1. page' = [page EXCEPT ![a] = [pc |-> "loading", rev |-> form.rev, list |-> <<>>, base |-> <<>>]]
    BY <1>3 DEF OpenPage
  <2> QED BY <1>1, <1>2, <2>1
<1>4. CASE LoadPage(a)
  <2>1. page' = [page EXCEPT ![a] = Opened(page[a].rev, form.list)] BY <1>4 DEF LoadPage
  <2> QED BY <1>1, <1>2, <2>1 DEF Opened
<1>5. CASE Save(a)
  <2>1. page[a].pc = "shown" BY <1>5 DEF Save
  <2>2. PICK list \in Edits(page[a].list) :
          DistinctIds(list) /\ page' = [page EXCEPT ![a].pc = "saving", ![a].list = list]
    BY <1>5 DEF Save
  <2>3. list \in Seq(Draft) BY <1>1, <2>2, EditsIn DEF Page
  <2>4. page'[a] = [page[a] EXCEPT !.pc = "saving", !.list = list] /\ \A c \in Admin \ {a} : page'[c] = page[c]
    BY <1>1, <2>2
  <2>5. [page[a] EXCEPT !.pc = "saving", !.list = list] =
          [pc |-> "saving", rev |-> page[a].rev, list |-> list, base |-> page[a].base]
    <3>1. PICK y : y = [page[a] EXCEPT !.pc = "saving"] OBVIOUS
    <3>2. y = [pc |-> "saving", rev |-> page[a].rev, list |-> page[a].list, base |-> page[a].base]
      BY <1>1, <3>1 DEF Page
    <3>3. [y EXCEPT !.list = list] = [pc |-> y.pc, rev |-> y.rev, list |-> list, base |-> y.base]
      BY <1>1, <3>2
    <3>4. [page[a] EXCEPT !.pc = "saving", !.list = list] = [y EXCEPT !.list = list] BY <3>1
    <3> QED BY <3>2, <3>3, <3>4
  <2> QED BY <1>2, <2>1, <2>2, <2>3, <2>4, <2>5
<1> QED BY <1>3, <1>4, <1>5

LEMMA PageDomain ==
  ASSUME ScreenShape, NEW a \in Admin, OpenPage(a) \/ LoadPage(a) \/ Save(a) \/ SaveRuns(a)
  PROVE  page' = [c \in Admin |-> page'[c]]
<1>1. page \in [Admin -> Page] BY DEF ScreenShape
<1>2. CASE SaveRuns(a)
  <2>1. \E x : page' = [page EXCEPT ![a] = x]
    <3>1. CASE page' = [page EXCEPT ![a].pc = "shown"] BY <3>1
    <3>2. CASE page' # [page EXCEPT ![a].pc = "shown"] BY <1>2, <3>2, Zenon DEF SaveRuns
    <3> QED BY <3>1, <3>2
  <2> QED BY <1>1, <2>1
<1>3. CASE OpenPage(a) \/ LoadPage(a) \/ Save(a)
  <2>1. \E x : page' = [page EXCEPT ![a] = x] BY <1>3 DEF OpenPage, LoadPage, Save
  <2> QED BY <1>1, <2>1
<1> QED BY <1>2, <1>3

LEMMA ScreenShapeStep ==
  ASSUME FormShape, TableShape, ScreenShape, AppNext
  PROVE  ScreenShape'
<1>1. Seq(Draft) \subseteq Seq(Draft') /\ Question \subseteq Question' /\ lastId' \in Nat
  BY FormShapeStep, Growing DEF FormShape
<1>2. Page \subseteq Page' BY <1>1 DEF Page
<1>3. page \in [Admin -> Page] /\ \A a \in Admin : page[a].pc = "saving" => DistinctIds(page[a].list)
  BY DEF ScreenShape
<1>4. \A S : <<>> \in Seq(S) BY EmptySeq
<1>5. /\ page' \in [Admin -> Page']
      /\ \A a \in Admin : page'[a].pc = "saving" => DistinctIds(page'[a].list)
  <2>1. CASE UNCHANGED page BY <1>2, <1>3, <2>1
  <2>2. ASSUME NEW a \in Admin, OpenPage(a) \/ LoadPage(a) \/ Save(a) \/ SaveRuns(a),
               page'[a] \in Page', page'[a].pc = "saving" => DistinctIds(page'[a].list),
               \A c \in Admin \ {a} : page'[c] = page[c]
        PROVE  <1>5
    <3>1. page' = [c \in Admin |-> page'[c]] BY <2>2, PageDomain
    <3>2. \A c \in Admin : page'[c] \in Page' BY <1>2, <1>3, <2>2
    <3>3. page' \in [Admin -> Page'] BY <3>1, <3>2
    <3> QED BY <1>3, <2>2, <3>3
  <2>3. ASSUME NEW a \in Admin, OpenPage(a) \/ LoadPage(a) \/ Save(a) PROVE <1>5
    <3>1. form.list \in Seq(Draft) /\ form.rev \in Nat BY QuestionsAreDrafts DEF FormShape
    <3>2. page[a] \in Page BY <1>3
    <3>3. page'[a] \in Page /\ (page'[a].pc = "saving" => DistinctIds(page'[a].list))
      <4>1. CASE page'[a] = [pc |-> "loading", rev |-> form.rev, list |-> <<>>, base |-> <<>>]
        BY <1>4, <3>1, <4>1 DEF Page
      <4>2. CASE page'[a] = [pc |-> "shown", rev |-> page[a].rev, list |-> form.list, base |-> form.list]
        BY <3>1, <3>2, <4>2 DEF Page
      <4>3. ASSUME NEW list \in Seq(Draft), DistinctIds(list),
                   page'[a] = [pc |-> "saving", rev |-> page[a].rev, list |-> list, base |-> page[a].base]
            PROVE  page'[a] \in Page /\ (page'[a].pc = "saving" => DistinctIds(page'[a].list))
        BY <3>2, <4>3 DEF Page
      <4> QED BY <2>3, <4>1, <4>2, <4>3, PageFacts
    <3> QED BY <1>2, <2>2, <2>3, <3>3, PageFacts
  <2>4. ASSUME NEW a \in Admin, SaveRuns(a) PROVE <1>5
    <3> DEFINE list == page[a].list
               saved == Numbered(list)
    <3>1. list \in Seq(Draft) /\ DistinctIds(list) /\ form.rev + 1 \in Nat /\ page[a] \in Page
      <4>1. list \in Seq(Draft) /\ DistinctIds(list) BY <2>4, SaveRunsFacts
      <4>2. form.rev + 1 \in Nat BY DEF FormShape
      <4> QED BY <1>3, <4>1, <4>2
    <3>2. CASE page'[a] = [page[a] EXCEPT !.pc = "shown"]
      <4>1. page'[a] \in Page /\ page'[a].pc = "shown" BY <3>1, <3>2 DEF Page
      <4> QED BY <1>2, <2>2, <2>4, <4>1, SaveRunsFacts
    <3>3. ASSUME lastId' = lastId + Cardinality({i \in DOMAIN list : list[i].id = None}),
                 NEW new \in Moved(list),
                 page'[a] = [pc |-> "shown", rev |-> form.rev + 1, list |-> Merged(new, saved), base |-> saved]
          PROVE  <1>5
      <4>1. saved \in Seq([id : 1..lastId', says : Meaning, needs : BOOLEAN])
        BY <3>1, <3>3, NumberedQuestions DEF FormShape
      <4>2. new \in Seq(Draft') BY <1>1, <3>1, <3>3, MovedIn
      <4>3. Merged(new, saved) \in Seq(Draft')
        <5>1. 1..lastId' \subseteq (1..lastId') \union {None} OBVIOUS
        <5> HIDE DEF saved
        <5> QED BY <4>1, <4>2, <5>1, MergedIn DEF Draft
      <4>4. saved \in Seq(Draft')
        <5>1. [id : 1..lastId', says : Meaning, needs : BOOLEAN] \subseteq Draft' BY DEF Draft
        <5> HIDE DEF saved
        <5> QED BY <4>1, <5>1, SeqMonotonic
      <4> HIDE DEF saved
      <4>5. page'[a] \in Page' /\ page'[a].pc = "shown" BY <3>1, <3>3, <4>3, <4>4 DEF Page
      <4> QED BY <2>2, <2>4, <4>5, SaveRunsFacts
    <3> QED BY <2>4, <3>2, <3>3, SaveRunsFacts
  <2> QED BY <2>1, <2>3, <2>4, ScreenSteps
<1>6. /\ desk' \in [Admin -> Task]
      /\ \A a \in Admin : desk'[a].pc = "decide" => desk'[a].new \in Status
  <2>0. /\ desk \in [Admin -> Task]
        /\ \A a \in Admin : desk[a].pc = "decide" => desk[a].new \in Status
    BY DEF ScreenShape
  <2>1. CASE UNCHANGED desk BY <2>0, <2>1
  <2>2. ASSUME NEW a \in Admin, Begin(a) PROVE <1>6
    <3>1. PICK s \in subs, new \in Status, pc \in {"decide", "erase"} :
            desk' = [desk EXCEPT ![a] = [pc |-> pc, id |-> s.id, old |-> s.status, new |-> new]]
      BY <2>2 DEF Begin
    <3>2. s.id \in Id /\ s.status \in Status BY DEF TableShape, Application
    <3>3. [pc |-> pc, id |-> s.id, old |-> s.status, new |-> new] \in Task BY <3>2 DEF Task
    <3> QED BY <2>0, <3>1, <3>3
  <2>3. ASSUME NEW a \in Admin, Decide(a) \/ Erase(a) PROVE <1>6
    <3>1. desk' = [desk EXCEPT ![a] = NoTask] BY <2>3, Zenon DEF Decide, Erase
    <3>2. NoTask \in Task /\ NoTask.pc = "idle" BY DEF NoTask, Task
    <3> QED BY <2>0, <3>1, <3>2
  <2> QED BY <2>1, <2>2, <2>3, ScreenSteps
<1>7. (\A a \in Admin : page[a].pc = "saving" => DistinctIds(page[a].list))'
  BY <1>5 DEF DistinctIds
<1>8. Task' = Task BY DEF Task, Id, Status
<1> QED BY <1>5, <1>6, <1>7, <1>8 DEF ScreenShape

-----------------------------------------------------------------------------
(* Ids.                                                                    *)

\* A call begins, goes on or ends.
LEMMA CallFacts ==
  ASSUME TypeOK, NEW p \in Call
  PROVE  /\ Start(p) =>
              /\ call[p].pc = "idle" /\ call'[p].pc # "idle" /\ made'[p] = made[p] + 1
              /\ \A q \in Call \ {p} : call'[q] = call[q] /\ made'[q] = made[q]
         /\ Lock(p) \/ ReadClock(p) \/ Count(p) =>
              /\ call[p].pc # "idle" /\ call'[p].pc # "idle" /\ made' = made
              /\ \A q \in Call \ {p} : call'[q] = call[q]
         /\ Refuse(p) \/ Allow(p) \/ Break(p) =>
              /\ call[p].pc # "idle" /\ call'[p].pc = "idle" /\ made' = made
              /\ \A q \in Call \ {p} : call'[q] = call[q]
<1>0. call \in [Call -> CallState] /\ made \in [Call -> Nat] /\ call[p] \in CallState BY DEF TypeOK
<1>1. ASSUME Start(p)
      PROVE  /\ call[p].pc = "idle" /\ call'[p].pc # "idle" /\ made'[p] = made[p] + 1
             /\ \A q \in Call \ {p} : call'[q] = call[q] /\ made'[q] = made[q]
  <2>1. PICK axes \in Asked :
          call' = [call EXCEPT ![p] = [Idle EXCEPT !.pc = "locking", !.axes = axes, !.left = axes]]
    BY <1>1 DEF Start
  <2>2. [Idle EXCEPT !.pc = "locking", !.axes = axes, !.left = axes].pc = "locking" BY DEF Idle
  <2>3. made' = [made EXCEPT ![p] = @ + 1] /\ call[p].pc = "idle" BY <1>1 DEF Start
  <2> QED BY <1>0, <2>1, <2>2, <2>3
<1>2. ASSUME Lock(p) \/ ReadClock(p) \/ Count(p)
      PROVE  /\ call[p].pc # "idle" /\ call'[p].pc # "idle" /\ made' = made
             /\ \A q \in Call \ {p} : call'[q] = call[q]
  <2>1. call[p].pc \in {"locking", "counting"} /\ made' = made BY <1>2 DEF Lock, ReadClock, Count
  <2>2. CASE Lock(p)
    <3>1. PICK a : call' = [call EXCEPT ![p].left = @ \ {a}] BY <2>2 DEF Lock
    <3> QED BY <1>0, <2>1, <3>1 DEF CallState
  <2>3. CASE ReadClock(p) BY <1>0, <2>1, <2>3 DEF ReadClock, CallState
  <2>4. CASE Count(p)
    <3>1. PICK a : \/ call' = [call EXCEPT ![p].left = @ \ {a}]
                   \/ \E r : call' = [call EXCEPT ![p].left = @ \ {a}, ![p].retry = r]
      BY <2>4 DEF Count
    <3> QED BY <1>0, <2>1, <3>1 DEF CallState
  <2> QED BY <1>2, <2>1, <2>2, <2>3, <2>4
<1>3. ASSUME Refuse(p) \/ Allow(p) \/ Break(p)
      PROVE  /\ call[p].pc # "idle" /\ call'[p].pc = "idle" /\ made' = made
             /\ \A q \in Call \ {p} : call'[q] = call[q]
  <2>1. Ended(p) /\ call[p].pc # "idle" /\ made' = made BY <1>3 DEF Refuse, Allow, Break
  <2> QED BY <1>0, <2>1 DEF Ended, Idle
<1> QED BY <1>1, <1>2, <1>3

\* Who changes the calls and their requests.
LEMMA CallSteps ==
  AppNext => \/ UNCHANGED <<call, made, app>>
             \/ \E p \in Call : Apply(p) \/ Granted(p) \/ Blocked(p)
             \/ \E p \in Call : OtherRequest(p) \/ Reserving(p)
             \/ UNCHANGED <<call, made>> /\ \E p \in Call : Lose(p) \/ Verify(p)
             \/ /\ UNCHANGED <<call, made>>
                /\ \E b \in batch : AssertRevision(b) \/ Insert(b) \/ Store(b) \/ Fail(b)
<1>1. ASSUME NEW p \in Call, Lose(p) \/ Verify(p) PROVE UNCHANGED <<call, made>>
  BY <1>1, Zenon DEF Lose, Verify, vars
<1>2. ASSUME NEW b \in batch, AssertRevision(b) \/ Insert(b) \/ Store(b) \/ Fail(b)
      PROVE  UNCHANGED <<call, made>>
  BY <1>2, Zenon DEF AssertRevision, Insert, Store, Fail, vars
<1>3. ASSUME NEW a \in Admin,
             OpenPage(a) \/ LoadPage(a) \/ Save(a) \/ SaveRuns(a) \/ Begin(a) \/ Decide(a) \/ Erase(a)
      PROVE  UNCHANGED <<call, made, app>>
  BY <1>3, Zenon DEF OpenPage, LoadPage, Save, SaveRuns, Begin, Decide, Erase, vars
<1>4. CASE Publish \/ DeleteForm BY <1>4, Zenon DEF Publish, DeleteForm, vars
<1>5. CASE Around BY <1>5, Zenon DEF Around, Forgive, Cleanup, Tick, formVars
<1> QED BY <1>1, <1>2, <1>3, <1>4, <1>5 DEF AppNext

\* A reservation that has ended is over.
LEMMA StillGiven ==
  ASSUME TypeOK, [AppNext]_allVars, NEW id \in Id, Given(id)
  PROVE  Given(id)'
<1> DEFINE p == id[1]
<1>0. p \in Call /\ id[2] \in Nat /\ made[p] \in Nat BY DEF Id, TypeOK
<1>1. \/ made'[p] = made[p] /\ (call'[p].pc # "idle" => call[p].pc # "idle")
      \/ made'[p] = made[p] + 1 /\ call[p].pc = "idle"
  <2>1. ASSUME NEW q \in Call, \/ Start(q) \/ Lock(q) \/ ReadClock(q) \/ Count(q)
                               \/ Refuse(q) \/ Allow(q) \/ Break(q)
        PROVE  <1>1
    <3>1. CASE q = p BY <2>1, <3>1, CallFacts
    <3>2. CASE q # p BY <1>0, <2>1, <3>2, CallFacts
    <3> QED BY <3>1, <3>2
  <2>2. CASE Forgive \/ Cleanup \/ Tick \/ Freed \/ UNCHANGED vars
    BY <2>2 DEF Forgive, Cleanup, Tick, Freed, vars
  <2> QED BY <2>1, <2>2, RateStep DEF AnyNext, Next
<1>2. CASE made'[p] = made[p] /\ (call'[p].pc # "idle" => call[p].pc # "idle")
  BY <1>2 DEF Given
<1>3. CASE made'[p] = made[p] + 1 /\ call[p].pc = "idle"
  <2>1. id[2] < made'[p] BY <1>0, <1>3 DEF Given
  <2> QED BY <1>0, <1>3, <2>1 DEF Given
<1> QED BY <1>1, <1>2, <1>3

LEMMA RequestPhase ==
  ASSUME TypeOK, TableShape, Numbering, AppNext, NEW p \in Call
  PROVE  /\ app'[p].pc = "reserve" => call'[p].pc # "idle"
         /\ app'[p].pc \in {"batch", "verify"} => call'[p].pc = "idle"
<1>0. /\ app[p].pc = "reserve" => call[p].pc # "idle"
      /\ app[p].pc \in {"batch", "verify"} => call[p].pc = "idle"
      /\ app \in [Call -> Request]
  BY DEF Numbering, TableShape
<1>1. ASSUME NEW q \in Call, Apply(q) \/ Granted(q) \/ Blocked(q)
      PROVE  /\ app'[p].pc = "reserve" => call'[p].pc # "idle"
             /\ app'[p].pc \in {"batch", "verify"} => call'[p].pc = "idle"
  <2>1. \/ \E x : x.pc = "reserve" /\ app' = [app EXCEPT ![q] = x]
        \/ app' = [app EXCEPT ![q].pc = "batch"]
        \/ app' = [app EXCEPT ![q] = NoApp]
    <3>1. CASE Apply(q)
      <4>1. PICK e, S : app' = [app EXCEPT ![q] = [pc |-> "reserve", email |-> e, rev |-> form.rev,
                                                   answers |-> Answered(form.list, S)]]
        BY <3>1, Zenon DEF Apply
      <4>2. [pc |-> "reserve", email |-> e, rev |-> form.rev, answers |-> Answered(form.list, S)].pc = "reserve"
        OBVIOUS
      <4> QED BY <4>1, <4>2
    <3>2. CASE Granted(q) \/ Blocked(q) BY <3>2, Zenon DEF Granted, Blocked
    <3> QED BY <1>1, <3>1, <3>2
  <2>2. CASE p # q
    <3>1. app'[p] = app[p] BY <1>0, <2>1, <2>2
    <3>2. call'[p] = call[p] BY <1>1, <2>2, CallFacts DEF Apply, Granted, Blocked
    <3> QED BY <1>0, <3>1, <3>2
  <2>3. CASE p = q
    <3>1. CASE Apply(q)
      <4>1. call'[p].pc # "idle" BY <2>3, <3>1, CallFacts DEF Apply
      <4>2. app'[p].pc = "reserve"
        <5>1. PICK e, S : app' = [app EXCEPT ![q] = [pc |-> "reserve", email |-> e, rev |-> form.rev,
                                                     answers |-> Answered(form.list, S)]]
          BY <3>1, Zenon DEF Apply
        <5> QED BY <1>0, <2>3, <5>1
      <4> QED BY <4>1, <4>2
    <3>2. CASE Granted(q)
      <4>1. call'[p].pc = "idle" BY <2>3, <3>2, CallFacts DEF Granted
      <4>2. app'[p].pc = "batch" BY <1>0, <2>3, <3>2 DEF Granted, Request
      <4> QED BY <4>1, <4>2
    <3>3. CASE Blocked(q)
      <4>1. app'[p].pc = "idle" BY <1>0, <2>3, <3>3 DEF Blocked, NoApp
      <4> QED BY <4>1
    <3> QED BY <1>1, <3>1, <3>2, <3>3
  <2> QED BY <2>2, <2>3
<1>2. ASSUME NEW q \in Call, OtherRequest(q)
      PROVE  /\ app'[p].pc = "reserve" => call'[p].pc # "idle"
             /\ app'[p].pc \in {"batch", "verify"} => call'[p].pc = "idle"
  <2>1. app' = app /\ app[q].pc = "idle" BY <1>2, Zenon DEF OtherRequest, formVars
  <2>2. p # q => call'[p] = call[p] BY <1>2, CallFacts DEF OtherRequest
  <2> QED BY <1>0, <2>1, <2>2
<1>3. ASSUME NEW q \in Call, Reserving(q)
      PROVE  /\ app'[p].pc = "reserve" => call'[p].pc # "idle"
             /\ app'[p].pc \in {"batch", "verify"} => call'[p].pc = "idle"
  <2>1. app' = app BY <1>3, Zenon DEF Reserving, formVars
  <2>2. p # q => call'[p] = call[p] BY <1>3, CallFacts DEF Reserving
  <2>3. call[q].pc # "idle" /\ call'[q].pc # "idle" BY <1>3, CallFacts DEF Reserving
  <2> QED BY <1>0, <2>1, <2>2, <2>3
<1>4. ASSUME NEW q \in Call, Lose(q) \/ Verify(q), UNCHANGED <<call, made>>
      PROVE  /\ app'[p].pc = "reserve" => call'[p].pc # "idle"
             /\ app'[p].pc \in {"batch", "verify"} => call'[p].pc = "idle"
  <2>1. \/ app[q].pc = "batch" /\ app' = [app EXCEPT ![q].pc = "verify"]
        \/ app' = [app EXCEPT ![q] = NoApp]
    BY <1>4, Zenon DEF Lose, Verify
  <2> QED BY <1>0, <1>4, <2>1 DEF NoApp, Request
<1>5. ASSUME NEW b \in batch, AssertRevision(b) \/ Insert(b) \/ Store(b) \/ Fail(b),
             UNCHANGED <<call, made>>
      PROVE  /\ app'[p].pc = "reserve" => call'[p].pc # "idle"
             /\ app'[p].pc \in {"batch", "verify"} => call'[p].pc = "idle"
  <2>1. app'[p] = app[p] \/ (app[p].pc = "batch" /\ app'[p].pc \in {"idle", "verify"})
    BY <1>5, BatchMoves, EndsFacts, MovesFacts
  <2> QED BY <1>0, <1>5, <2>1
<1>6. CASE UNCHANGED <<call, made, app>> BY <1>0, <1>6
<1> QED BY <1>1, <1>2, <1>3, <1>4, <1>5, <1>6, CallSteps

records == <<subs, attached, stored, erased>>

\* Who changes the tables and the batches.
LEMMA TableSteps ==
  AppNext => \/ UNCHANGED <<records, batch, outcome>>
             \/ UNCHANGED <<records, batch>> /\ \E p \in Call : Verify(p)
             \/ UNCHANGED <<records, outcome>> /\ \E p \in Call : Granted(p)
             \/ \E b \in batch : \/ UNCHANGED records /\ (AssertRevision(b) \/ Insert(b) \/ Fail(b))
                                 \/ UNCHANGED erased /\ Store(b)
             \/ UNCHANGED <<attached, stored, erased, batch, outcome>> /\ \E a \in Admin : Decide(a)
             \/ UNCHANGED <<stored, batch, outcome>> /\ \E a \in Admin : Erase(a)
<1>1. ASSUME NEW p \in Call, Apply(p) \/ Blocked(p) \/ Lose(p) PROVE UNCHANGED <<records, batch, outcome>>
  BY <1>1, Zenon DEF Apply, Blocked, Lose, records, results, review
<1>2. ASSUME NEW p \in Call, Verify(p) PROVE UNCHANGED <<records, batch>>
  BY <1>2, Zenon DEF Verify, records, review
<1>3. ASSUME NEW p \in Call, Granted(p) PROVE UNCHANGED <<records, outcome>>
  BY <1>3, Zenon DEF Granted, records, results, review
<1>4. ASSUME NEW p \in Call, OtherRequest(p) \/ Reserving(p) PROVE UNCHANGED <<records, batch, outcome>>
  BY <1>4, Zenon DEF OtherRequest, Reserving, formVars, records, results, review
<1>5. ASSUME NEW b \in batch, AssertRevision(b) \/ Insert(b) \/ Fail(b) PROVE UNCHANGED records
  BY <1>5, Zenon DEF AssertRevision, Insert, Fail, records, review
<1>6. ASSUME NEW b \in batch, Store(b) PROVE UNCHANGED erased
  BY <1>6, Zenon DEF Store, review
<1>7. ASSUME NEW a \in Admin, OpenPage(a) \/ LoadPage(a) \/ Save(a) \/ SaveRuns(a) \/ Begin(a)
      PROVE  UNCHANGED <<records, batch, outcome>>
  BY <1>7, Zenon DEF OpenPage, LoadPage, Save, SaveRuns, Begin, records, results, review
<1>8. ASSUME NEW a \in Admin, Decide(a) PROVE UNCHANGED <<attached, stored, erased, batch, outcome>>
  BY <1>8, Zenon DEF Decide, results
<1>9. ASSUME NEW a \in Admin, Erase(a) PROVE UNCHANGED <<stored, batch, outcome>>
  BY <1>9, Zenon DEF Erase, results
<1>10. CASE Publish \/ Around
  BY <1>10, Zenon DEF Publish, Around, formVars, records, results, review
<1>11. CASE DeleteForm
  <2>1. subs' = subs BY <1>11 DEF DeleteForm, Deletable
  <2> QED BY <1>11, <2>1, Zenon DEF DeleteForm, records, results, review
<1> QED BY <1>1, <1>2, <1>3, <1>4, <1>5, <1>6, <1>7, <1>8, <1>9, <1>10, <1>11, Zenon DEF AppNext

LEMMA GrantedFacts ==
  ASSUME TypeOK, TableShape, NEW p \in Call, Granted(p)
  PROVE  /\ call[p].pc # "idle" /\ call'[p].pc = "idle" /\ made' = made
         /\ app[p].pc = "reserve"
         /\ \E c : /\ batch' = batch \union {c}
                   /\ c.id = This(p) /\ c.pc = "begun"
                   /\ c.rev = app[p].rev /\ c.answers = app[p].answers
<1>1. call[p].pc # "idle" /\ call'[p].pc = "idle" /\ made' = made BY CallFacts DEF Granted
<1>2. PICK c : c = [id |-> This(p), email |-> app[p].email, rev |-> app[p].rev,
                    answers |-> app[p].answers, pc |-> "begun"]
  OBVIOUS
<1>3. batch' = batch \union {c} BY <1>2 DEF Granted
<1>4. c.id = This(p) /\ c.pc = "begun" /\ c.rev = app[p].rev /\ c.answers = app[p].answers BY <1>2
<1> QED BY <1>1, <1>3, <1>4 DEF Granted

LEMMA StoreFacts ==
  ASSUME TableShape, NEW b \in batch, Store(b)
  PROVE  /\ b.pc = "inserted" /\ DOMAIN b.answers \subseteq Ids(form.list)
         /\ attached' = attached \union {b.id}
         /\ stored' = stored \union {b.id}
         /\ Ends(b, "ok")
         /\ \E t : /\ subs' = subs \union {t}
                   /\ t.id = b.id /\ t.email = b.email /\ t.answers = b.answers
<1>1. PICK t : t = [id |-> b.id, email |-> b.email, answers |-> b.answers, status |-> "PENDING"] OBVIOUS
<1>2. subs' = subs \union {t} /\ t.id = b.id /\ t.email = b.email /\ t.answers = b.answers
  BY <1>1 DEF Store
<1> QED BY <1>2, Zenon DEF Store, Attached

LEMMA DecideFacts ==
  ASSUME TableShape, NEW a \in Admin, Decide(a)
  PROVE  \/ UNCHANGED subs
         \/ \E s \in subs : \E t : /\ subs' = (subs \ {s}) \union {t}
                               /\ t.id = s.id /\ t.email = s.email /\ t.answers = s.answers
<1>1. ASSUME NEW s \in subs, subs' = (subs \ {s}) \union {[s EXCEPT !.status = desk[a].new]}
      PROVE  \E t : /\ subs' = (subs \ {s}) \union {t}
                    /\ t.id = s.id /\ t.email = s.email /\ t.answers = s.answers
  <2>1. PICK t : t = [s EXCEPT !.status = desk[a].new] OBVIOUS
  <2>2. t.id = s.id /\ t.email = s.email /\ t.answers = s.answers BY <2>1 DEF TableShape, Application
  <2> QED BY <1>1, <2>1, <2>2
<1>2. \/ UNCHANGED subs
      \/ \E s \in subs : subs' = (subs \ {s}) \union {[s EXCEPT !.status = desk[a].new]}
  BY Zenon DEF Decide
<1> QED BY <1>1, <1>2

LEMMA EraseFacts ==
  ASSUME NEW a \in Admin, Erase(a)
  PROVE  \/ UNCHANGED <<subs, erased, attached, events>>
         \/ \E s \in subs : /\ subs' = subs \ {s}
                            /\ erased' = erased \union {s.id}
                            /\ attached' = attached \ {s.id}
                            /\ s.id \in attached => events' = {e \in events : e.id # s.id}
<1>1. CASE UNCHANGED <<subs, erased, attached, events, standing>> BY <1>1
<1>2. ASSUME NEW s \in subs, subs' = subs \ {s}, erased' = erased \union {s.id},
             attached' = attached \ {s.id},
             IF s.id \in attached THEN Released(s.id) ELSE UNCHANGED <<events, standing>>
      PROVE  s.id \in attached => events' = {e \in events : e.id # s.id}
  BY <1>2 DEF Released
<1> QED BY <1>1, <1>2 DEF Erase

\* New events have the id of a call that is under way.
LEMMA EventIds ==
  ASSUME Base, [AppNext]_allVars, NEW e \in events'
  PROVE  e \in events \/ \E p \in Call : call[p].pc # "idle" /\ e.id = This(p)
<1>1. CASE UNCHANGED vars BY <1>1 DEF vars
<1>2. CASE AnyNext
  <2>1. CASE events' \subseteq events BY <2>1
  <2>2. ASSUME NEW p \in Call, Records(p) PROVE e \in events \/ (call[p].pc # "idle" /\ e.id = This(p))
    BY <2>2 DEF Records, Recorded, This
  <2> QED BY <1>2, <2>1, <2>2, EventsStep
<1> QED BY <1>1, <1>2, RateStep

\* The id of a call that is under way is new.
LEMMA NewId ==
  ASSUME TypeOK, NEW p \in Call, call[p].pc # "idle", NEW id \in Id, Given(id)
  PROVE  id # This(p)
BY DEF Given, This, TypeOK, Id

LEMMA NumberingStep ==
  ASSUME Base, TableShape, Numbering, AppNext
  PROVE  Numbering'
<1> USE DEF Base
<1>1. \A id \in Id : Given(id) => Given(id)' BY StillGiven
<1>2. \A b \in batch : b.id \in Id /\ Given(b.id) BY DEF TableShape, Batch, Numbering
<1>3. \A b \in batch' : Given(b.id)'
  <2>1. ASSUME NEW p \in Call, Granted(p) PROVE \A b \in batch' : Given(b.id)'
    <3>1. PICK c : batch' = batch \union {c} /\ c.id = This(p) BY <2>1, GrantedFacts
    <3>2. call'[p].pc = "idle" /\ made' = made /\ made[p] \in Nat BY <2>1, GrantedFacts DEF TypeOK
    <3>3. Given(c.id)' BY <3>1, <3>2 DEF Given, This
    <3> QED BY <1>1, <1>2, <3>1, <3>3
  <2>2. ASSUME NEW b \in batch, AssertRevision(b) \/ Insert(b) \/ Store(b) \/ Fail(b)
        PROVE  \A c \in batch' : Given(c.id)'
    <3>1. ASSUME NEW how, Ends(b, how) PROVE \A c \in batch' : Given(c.id)'
      BY <1>1, <1>2, <3>1 DEF Ends
    <3>2. ASSUME NEW pc \in {"asserted", "inserted"}, Moves(b, pc) PROVE \A c \in batch' : Given(c.id)'
      BY <1>1, <1>2, <3>2, MovesFacts
    <3> QED BY <2>2, <3>1, <3>2, BatchMoves
  <2>3. CASE UNCHANGED batch BY <1>1, <1>2, <2>3
  <2> QED BY <2>1, <2>2, <2>3, BatchSteps
<1>4. \A id \in stored' : id \in Id /\ Given(id)'
  <2>1. CASE UNCHANGED stored BY <1>1, <2>1 DEF Numbering
  <2>2. ASSUME NEW b \in batch, Store(b) PROVE \A id \in stored' : id \in Id /\ Given(id)'
    BY <1>1, <1>2, <2>2, StoreFacts DEF Numbering
  <2> QED BY <2>1, <2>2, TableSteps DEF records
<1>5. \A o \in outcome' : o.id \in Id /\ Given(o.id)'
  <2>1. CASE UNCHANGED outcome BY <1>1, <2>1 DEF Numbering
  <2>2. ASSUME NEW p \in Call, Verify(p) PROVE \A o \in outcome' : o.id \in Id /\ Given(o.id)'
    <3>1. PICK how : outcome' = outcome \union {[id |-> This(p), how |-> how]} BY <2>2, Zenon DEF Verify, Told
    <3>2. call[p].pc = "idle" /\ made[p] \in Nat BY <2>2 DEF Verify, Numbering, TypeOK
    <3>3. This(p) \in Id /\ Given(This(p)) BY <3>2 DEF This, Given, Id
    <3> QED BY <1>1, <3>1, <3>3 DEF Numbering
  <2>3. ASSUME NEW b \in batch, AssertRevision(b) \/ Insert(b) \/ Store(b) \/ Fail(b)
        PROVE  \A o \in outcome' : o.id \in Id /\ Given(o.id)'
    <3>1. UNCHANGED outcome \/ \E how : outcome' = outcome \union {[id |-> b.id, how |-> how]}
      BY <2>3, BatchMoves, EndsFacts, MovesFacts
    <3> QED BY <1>1, <1>2, <3>1 DEF Numbering
  <2> QED BY <2>1, <2>2, <2>3, TableSteps
<1>6. \A p \in Call :
       /\ app'[p].pc = "reserve" => call'[p].pc # "idle"
       /\ app'[p].pc \in {"batch", "verify"} => call'[p].pc = "idle"
  BY RequestPhase
<1> QED BY <1>3, <1>4, <1>5, <1>6 DEF Numbering

-----------------------------------------------------------------------------
(* Where an application is, and what is said of it.                        *)

\* A batch that moves on keeps its id.
LEMMA BatchIds ==
  ASSUME TableShape, NEW b \in batch, AssertRevision(b) \/ Insert(b) \/ Store(b) \/ Fail(b)
  PROVE  \/ batch' = batch \ {b}
         \/ \E c : batch' = (batch \ {b}) \union {c} /\ c.id = b.id
BY BatchMoves, EndsFacts, MovesFacts

LEMMA PlacedStep ==
  ASSUME Base, TableShape, Numbering, Placed, AppNext
  PROVE  Placed'
<1> USE DEF Base
<1>1. \A b \in batch : b.id \in Id /\ Given(b.id) BY DEF TableShape, Batch, Numbering
<1>2. \A id \in stored : id \in Id /\ Given(id) BY DEF Numbering
<1>3. (\A b, c \in batch : b.id = c.id => b = c)'
  <2>1. ASSUME NEW p \in Call, Granted(p) PROVE <1>3
    <3>1. PICK c : batch' = batch \union {c} /\ c.id = This(p) BY <2>1, GrantedFacts
    <3>2. \A b \in batch : b.id # c.id BY <1>1, <2>1, <3>1, NewId, GrantedFacts
    <3> QED BY <3>1, <3>2 DEF Placed
  <2>2. ASSUME NEW b \in batch, AssertRevision(b) \/ Insert(b) \/ Store(b) \/ Fail(b) PROVE <1>3
    BY <2>2, BatchIds DEF Placed
  <2>3. CASE UNCHANGED batch BY <2>3 DEF Placed
  <2> QED BY <2>1, <2>2, <2>3, BatchSteps
<1>4. (\A b \in batch : b.id \notin stored)'
  <2>1. ASSUME NEW p \in Call, Granted(p), UNCHANGED records PROVE <1>4
    <3>1. PICK c : batch' = batch \union {c} /\ c.id = This(p) BY <2>1, GrantedFacts
    <3>2. c.id \notin stored BY <1>2, <2>1, <3>1, NewId, GrantedFacts
    <3> QED BY <2>1, <3>1, <3>2 DEF Placed, records
  <2>2. ASSUME NEW b \in batch, AssertRevision(b) \/ Insert(b) \/ Fail(b), UNCHANGED records PROVE <1>4
    BY <2>2, BatchIds DEF Placed, records
  <2>3. ASSUME NEW b \in batch, Store(b) PROVE <1>4
    <3>1. batch' = batch \ {b} /\ stored' = stored \union {b.id} BY <2>3, StoreFacts, EndsFacts
    <3> QED BY <3>1 DEF Placed
  <2>4. CASE UNCHANGED <<batch, stored>> BY <2>4 DEF Placed
  <2> QED BY <2>1, <2>2, <2>3, <2>4, TableSteps DEF records
<1>5. \A s \in subs : s.id \in stored /\ s.id \notin erased
  BY DEF Placed, StoredKept, ErasedWholly
<1>6. \A e \in events' : e \in events \/ e.id \notin stored
  <2> SUFFICES ASSUME NEW e \in events', e.id \in stored PROVE e \in events OBVIOUS
  <2>1. e \in events \/ \E p \in Call : call[p].pc # "idle" /\ e.id = This(p) BY EventIds
  <2> QED BY <1>2, <2>1, NewId
<1>7. /\ (\A s, t \in subs : s.id = t.id => s = t)'
      /\ (\A s \in subs : s.id \in attached)'
      /\ (attached \subseteq stored)'
      /\ StoredKept'
      /\ (\A id \in erased : \A s \in subs : s.id # id)'
  <2>1. CASE UNCHANGED records BY <2>1 DEF records, Placed, StoredKept, ErasedWholly
  <2>2. ASSUME NEW b \in batch, Store(b), UNCHANGED erased PROVE <1>7
    <3>1. PICK t : subs' = subs \union {t} /\ t.id = b.id BY <2>2, StoreFacts
    <3>2. attached' = attached \union {b.id} /\ stored' = stored \union {b.id} BY <2>2, StoreFacts
    <3>3. b.id \notin stored BY DEF Placed
    <3>4. b.id \notin erased BY <3>3 DEF Placed, StoredKept
    <3>5. StoredKept' BY <2>2, <3>1, <3>2 DEF Placed, StoredKept
    <3> QED BY <1>5, <2>2, <3>1, <3>2, <3>3, <3>4, <3>5 DEF Placed
  <2>3. ASSUME NEW a \in Admin, Decide(a), UNCHANGED <<attached, stored, erased>> PROVE <1>7
    <3>1. CASE UNCHANGED subs BY <2>3, <3>1 DEF Placed, StoredKept, ErasedWholly
    <3>2. ASSUME NEW s \in subs, NEW t, subs' = (subs \ {s}) \union {t}, t.id = s.id PROVE <1>7
      <4>1. {u.id : u \in subs'} = {u.id : u \in subs} BY <3>2
      <4>2. StoredKept' BY <2>3, <4>1 DEF Placed, StoredKept
      <4> QED BY <1>5, <2>3, <3>2, <4>2 DEF Placed
    <3> QED BY <2>3, <3>1, <3>2, DecideFacts
  <2>4. ASSUME NEW a \in Admin, Erase(a), UNCHANGED stored PROVE <1>7
    <3>1. CASE UNCHANGED <<subs, erased, attached>> BY <2>4, <3>1 DEF Placed, StoredKept, ErasedWholly
    <3>2. ASSUME NEW s \in subs, subs' = subs \ {s}, erased' = erased \union {s.id},
                 attached' = attached \ {s.id}
          PROVE  <1>7
      <4>1. \A t \in subs \ {s} : t.id # s.id BY DEF Placed
      <4>2. StoredKept' BY <2>4, <3>2 DEF Placed, StoredKept
      <4> QED BY <1>5, <2>4, <3>2, <4>1, <4>2 DEF Placed
    <3> QED BY <2>4, <3>1, <3>2, EraseFacts
  <2> QED BY <2>1, <2>2, <2>3, <2>4, TableSteps DEF records
<1>8. \A id \in erased' : \A e \in events' : e.id # id
  <2>1. CASE UNCHANGED erased
    <3>1. erased \subseteq stored BY DEF Placed, StoredKept
    <3> QED BY <1>6, <2>1, <3>1 DEF Placed, ErasedWholly
  <2>2. ASSUME NEW a \in Admin, Erase(a) PROVE <1>8
    <3>1. CASE UNCHANGED <<erased, events>> BY <3>1 DEF Placed, ErasedWholly
    <3>2. ASSUME NEW s \in subs, erased' = erased \union {s.id},
                 s.id \in attached => events' = {e \in events : e.id # s.id}
          PROVE  <1>8
      BY <3>2 DEF Placed, ErasedWholly
    <3> QED BY <2>2, <3>1, <3>2, EraseFacts
  <2> QED BY <2>1, <2>2, TableSteps DEF records
<1> QED BY <1>3, <1>4, <1>7, <1>8 DEF Placed, ErasedWholly

LEMMA SettledStep ==
  ASSUME Base, TableShape, Numbering, Placed, Settled, AppNext
  PROVE  Settled'
<1> USE DEF Base
<1> DEFINE Sound(o) == /\ o.how = "ok" => o.id \in stored
                       /\ o.how \in {"changed", "duplicate"} =>
                            o.id \notin stored /\ \A b \in batch : b.id # o.id
<1>0. Settled <=> \A o \in outcome : Sound(o) BY DEF Settled, ToldTruly
<1>00. Settled' <=> \A o \in outcome' : Sound(o)' BY DEF Settled, ToldTruly
<1>1. CASE UNCHANGED <<records, batch, outcome>> BY <1>1 DEF Settled, ToldTruly, records
<1>2. ASSUME NEW p \in Call, Verify(p), UNCHANGED <<records, batch>> PROVE Settled'
  <2>1. \/ Seen(p) /\ outcome' = outcome \union {[id |-> This(p), how |-> "ok"]}
        \/ outcome' = outcome \union {[id |-> This(p), how |-> "error"]}
    BY <1>2, Zenon DEF Verify, Told
  <2>2. Seen(p) => This(p) \in stored BY DEF Seen, Placed
  <2> QED BY <1>0, <1>00, <1>2, <2>1, <2>2 DEF records
<1>3. ASSUME NEW p \in Call, Granted(p), UNCHANGED <<records, outcome>> PROVE Settled'
  <2>1. PICK c : batch' = batch \union {c} /\ c.id = This(p) BY <1>3, GrantedFacts
  <2>2. \A o \in outcome : o.id # c.id BY <1>3, <2>1, NewId, GrantedFacts DEF Numbering
  <2> QED BY <1>0, <1>00, <1>3, <2>1, <2>2 DEF records
<1>4. ASSUME NEW b \in batch, AssertRevision(b) \/ Insert(b) \/ Fail(b), UNCHANGED records PROVE Settled'
  <2>1. \A c \in batch' : \E d \in batch : d.id = c.id BY <1>4, BatchIds
  <2>2. \A o \in outcome : Sound(o)' BY <1>0, <1>4, <2>1 DEF records
  <2>3. \A how : Ends(b, how) => b.id \notin stored' /\ \A c \in batch' : c.id # b.id
    BY <1>4 DEF Ends, Placed, records
  <2>4. \/ UNCHANGED outcome
        \/ outcome' = outcome \union {[id |-> b.id, how |-> "changed"]} /\ Ends(b, "changed")
        \/ outcome' = outcome \union {[id |-> b.id, how |-> "duplicate"]} /\ Ends(b, "duplicate")
    <3>1. \/ \E pc \in {"asserted", "inserted"} : Moves(b, pc)
          \/ Ends(b, "changed") \/ Ends(b, "duplicate") \/ Ends(b, "failed")
      BY <1>4, Zenon DEF AssertRevision, Insert, Fail
    <3> QED BY <3>1, EndsFacts, MovesFacts
  <2> QED BY <1>00, <2>2, <2>3, <2>4
<1>5. ASSUME NEW b \in batch, Store(b) PROVE Settled'
  <2>1. stored' = stored \union {b.id} /\ Ends(b, "ok") BY <1>5, StoreFacts
  <2>2. batch' = batch \ {b} BY <2>1, EndsFacts
  <2>3. outcome' = outcome \/ outcome' = outcome \union {[id |-> b.id, how |-> "ok"]} BY <2>1, EndsFacts
  <2>4. \A o \in outcome : Sound(o)' BY <1>0, <2>1, <2>2
  <2> QED BY <1>00, <2>1, <2>3, <2>4
<1>6. CASE UNCHANGED <<stored, batch, outcome>> BY <1>6 DEF Settled, ToldTruly
<1> QED BY <1>1, <1>2, <1>3, <1>4, <1>5, <1>6, TableSteps

LEMMA UniqueStep ==
  ASSUME Base, TableShape, Unique, AppNext
  PROVE  Unique'
<1> USE DEF Base
<1>1. CASE UNCHANGED <<subs, batch>> BY <1>1 DEF Unique, OncePerEmail
<1>2. ASSUME NEW p \in Call, Granted(p), UNCHANGED subs PROVE Unique'
  <2>1. PICK c : batch' = batch \union {c} /\ c.pc = "begun" BY <1>2, GrantedFacts
  <2> QED BY <1>2, <2>1 DEF Unique, OncePerEmail
<1>3. ASSUME NEW b \in batch, AssertRevision(b) \/ Insert(b) \/ Fail(b), UNCHANGED subs PROVE Unique'
  <2>1. CASE batch' = batch \ {b} BY <1>3, <2>1 DEF Unique, OncePerEmail
  <2>2. ASSUME AssertRevision(b), Moves(b, "asserted") PROVE Unique'
    <3>1. PICK c : batch' = (batch \ {b}) \union {c} /\ c.pc = "asserted" BY <2>2, MovesFacts
    <3> QED BY <1>3, <3>1 DEF Unique, OncePerEmail
  <2>3. ASSUME Insert(b), Moves(b, "inserted"), \A s \in subs : s.email # b.email PROVE Unique'
    <3>1. PICK c : batch' = (batch \ {b}) \union {c} /\ c.email = b.email BY <2>3, MovesFacts
    <3>2. \A d \in batch : d.email = b.email => d.pc # "inserted" BY <2>3 DEF Insert
    <3> QED BY <1>3, <2>3, <3>1, <3>2 DEF Unique, OncePerEmail
  <2>4. \/ \E how : Ends(b, how)
        \/ AssertRevision(b) /\ Moves(b, "asserted")
        \/ Insert(b) /\ Moves(b, "inserted") /\ \A s \in subs : s.email # b.email
    BY <1>3, Zenon DEF AssertRevision, Insert, Fail
  <2> QED BY <2>1, <2>2, <2>3, <2>4, EndsFacts
<1>4. ASSUME NEW b \in batch, Store(b) PROVE Unique'
  <2>1. PICK t : subs' = subs \union {t} /\ t.email = b.email BY <1>4, StoreFacts
  <2>2. batch' = batch \ {b} /\ b.pc = "inserted" BY <1>4, StoreFacts, EndsFacts
  <2> QED BY <2>1, <2>2 DEF Unique, OncePerEmail
<1>5. ASSUME NEW a \in Admin, Decide(a), UNCHANGED batch PROVE Unique'
  <2>1. CASE UNCHANGED subs BY <1>1, <1>5, <2>1
  <2>2. ASSUME NEW s \in subs, NEW t, subs' = (subs \ {s}) \union {t}, t.email = s.email PROVE Unique'
    BY <1>5, <2>2 DEF Unique, OncePerEmail
  <2> QED BY <1>5, <2>1, <2>2, DecideFacts
<1>6. ASSUME NEW a \in Admin, Erase(a), UNCHANGED batch PROVE Unique'
  <2>1. subs' \subseteq subs BY <1>6, EraseFacts
  <2> QED BY <1>6, <2>1 DEF Unique, OncePerEmail
<1> QED BY <1>1, <1>2, <1>3, <1>4, <1>5, <1>6, TableSteps DEF records

LEMMA AuditStep ==
  ASSUME AuditTrue, AppNext
  PROVE  AuditTrue'
<1>1. CASE UNCHANGED <<audit, taken>> BY <1>1 DEF AuditTrue
<1>2. ASSUME NEW a \in Admin, Decide(a) PROVE AuditTrue'
  BY <1>2 DEF Decide, AuditTrue, OldStatus
<1>3. UNCHANGED <<audit, taken>> \/ \E a \in Admin : Decide(a)
  <2>1. ASSUME NEW p \in Call, Apply(p) \/ Granted(p) \/ Blocked(p) \/ Lose(p) \/ Verify(p)
                               \/ OtherRequest(p) \/ Reserving(p)
        PROVE  UNCHANGED <<audit, taken>>
    BY <2>1, Zenon DEF Apply, Granted, Blocked, Lose, Verify, OtherRequest, Reserving, formVars, review
  <2>2. ASSUME NEW b \in batch, AssertRevision(b) \/ Insert(b) \/ Store(b) \/ Fail(b)
        PROVE  UNCHANGED <<audit, taken>>
    BY <2>2, Zenon DEF AssertRevision, Insert, Store, Fail, review
  <2>3. ASSUME NEW a \in Admin, OpenPage(a) \/ LoadPage(a) \/ Save(a) \/ SaveRuns(a) \/ Begin(a) \/ Erase(a)
        PROVE  UNCHANGED <<audit, taken>>
    BY <2>3, Zenon DEF OpenPage, LoadPage, Save, SaveRuns, Begin, Erase, review
  <2>4. CASE Around \/ Publish \/ DeleteForm
    BY <2>4, Zenon DEF Around, Publish, DeleteForm, formVars, review
  <2> QED BY <2>1, <2>2, <2>3, <2>4 DEF AppNext
<1> QED BY <1>1, <1>2, <1>3

-----------------------------------------------------------------------------
(* What answers and editors know of the form.                              *)

LEMMA AsksAt ==
  ASSUME NEW S, NEW list \in Seq(S), DistinctIds(list), NEW k \in DOMAIN list, list[k].id # None
  PROVE  list[k].id \in Ids(list) /\ Asks(list, list[k].id) = list[k]
<1>1. list[k] \in ToSet(list) /\ \A q \in ToSet(list) : \E i \in DOMAIN list : q = list[i] BY Elements
<1>2. list[k].id \in Ids(list) BY <1>1 DEF Ids
<1>3. \A q \in ToSet(list) : q.id = list[k].id => q = list[k] BY <1>1 DEF DistinctIds
<1> QED BY <1>1, <1>2, <1>3 DEF Asks

LEMMA IdAt ==
  ASSUME NEW S, NEW list \in Seq(S), NEW i \in Ids(list)
  PROVE  i # None /\ \E k \in DOMAIN list : list[k].id = i
BY Elements DEF Ids

\* A save that preserves the answered questions preserves their answers' sense.
LEMMA SaveKeepsMeaning ==
  ASSUME FormShape, NEW list \in Seq(Draft), DistinctIds(list), Preserved(list), MeaningKept,
         NEW s \in subs, NEW i \in DOMAIN s.answers
  PROVE  i \in Ids(Numbered(list)) /\ Asks(Numbered(list), i).says = s.answers[i]
<1> DEFINE saved == Numbered(list)
           last == lastId + Cardinality({k \in DOMAIN list : list[k].id = None})
<1>1. i \in Ids(form.list) /\ Asks(form.list, i).says = s.answers[i] BY DEF MeaningKept
<1>2. i \in AnsweredIds BY DEF AnsweredIds
<1>3. i \in Ids(list) /\ Asks(list, i).says = s.answers[i] BY <1>1, <1>2 DEF Preserved
<1>4. PICK k \in DOMAIN list : list[k].id = i /\ i # None BY <1>3, IdAt
<1>5. Asks(list, i) = list[k] BY <1>4, AsksAt
<1>6. /\ DOMAIN saved = DOMAIN list
      /\ saved \in Seq([id : 1..last, says : Meaning, needs : BOOLEAN])
      /\ DistinctIds(saved)
      /\ saved[k] = list[k]
  BY <1>4, NumberedQuestions DEF FormShape
<1>7. i \in Ids(saved) /\ Asks(saved, i) = saved[k]
  <2> HIDE DEF saved, last
  <2> QED BY <1>4, <1>6, AsksAt
<1> QED BY <1>3, <1>5, <1>6, <1>7

\* A valid application fits the list it was judged by.
LEMMA ValidFits ==
  ASSUME FormShape, NEW S \in SUBSET Questions, Valid(S)
  PROVE  Fits(Answered(form.list, S), form.list)
<1>1. \A q \in Questions : q \in ToSet(form.list) /\ q \in Question BY Elements DEF FormShape, Questions
<1>2. \A q \in Questions : q.id \in Ids(form.list)
  <2>1. \A q \in Questions : q.id \in Nat BY <1>1 DEF Question, FormShape
  <2> QED BY <1>1, <2>1, FormAssumption DEF Ids
<1>3. DOMAIN Answered(form.list, S) = {q.id : q \in S} BY DEF Answered
<1>4. \A i \in DOMAIN Answered(form.list, S) :
        i \in Ids(form.list) /\ Asks(form.list, i).says = Answered(form.list, S)[i]
  BY <1>2 DEF Answered
<1>5. \A q \in ToSet(form.list) : q.needs => q.id \in DOMAIN Answered(form.list, S)
  BY <1>3 DEF Valid, Questions
<1> QED BY <1>4, <1>5 DEF Fits

JudgedRequests == \A p \in Call : app[p].pc = "reserve" => Judged(app[p].rev, app[p].answers)

JudgedBatches ==
  \A b \in batch :
    /\ Judged(b.rev, b.answers)
    /\ b.pc # "begun" => form.there /\ form.open /\ b.rev = form.rev

\* As long as the form stays as it is.
LEMMA MeantUnderSameForm ==
  ASSUME Base, FormShape, TableShape, Meant, AppNext, UNCHANGED form
  PROVE  Meant'
<1> USE DEF Base
<1>0. MeaningKept /\ JudgedRequests /\ JudgedBatches BY DEF Meant, JudgedRequests, JudgedBatches
<1>1. MeaningKept'
  <2>1. CASE subs' \subseteq subs BY <1>0, <2>1 DEF MeaningKept
  <2>2. ASSUME NEW b \in batch, Store(b) PROVE MeaningKept'
    <3>1. PICK t : subs' = subs \union {t} /\ t.answers = b.answers BY <2>2, StoreFacts
    <3>2. b.pc = "inserted" BY <2>2, StoreFacts
    <3>3. Fits(b.answers, form.list) BY <1>0, <3>2 DEF JudgedBatches, Judged
    <3> QED BY <1>0, <3>1, <3>3 DEF MeaningKept, Fits
  <2>3. ASSUME NEW a \in Admin, Decide(a) PROVE MeaningKept'
    BY <1>0, <2>3, DecideFacts DEF MeaningKept
  <2>4. ASSUME NEW a \in Admin, Erase(a) PROVE subs' \subseteq subs BY <2>4, EraseFacts
  <2>5. CASE DeleteForm BY <2>5 DEF DeleteForm, MeaningKept
  <2> QED BY <2>1, <2>2, <2>3, <2>4, <2>5, SubsSteps
<1>2. \A rev, answers : Judged(rev, answers) => Judged(rev, answers)' BY DEF Judged
<1>3. JudgedRequests'
  <2> SUFFICES ASSUME NEW p \in Call, app'[p].pc = "reserve" PROVE Judged(app'[p].rev, app'[p].answers)
    BY <1>2 DEF JudgedRequests
  <2>1. CASE app'[p] = app[p] BY <1>0, <2>1 DEF JudgedRequests
  <2>2. CASE Apply(p)
    <3>1. PICK e \in Email, S \in SUBSET Questions :
            /\ Valid(S)
            /\ app'[p] = [pc |-> "reserve", email |-> e, rev |-> form.rev,
                          answers |-> Answered(form.list, S)]
      BY <2>2, ApplyFacts
    <3>2. app'[p].rev = form.rev /\ app'[p].answers = Answered(form.list, S) BY <3>1
    <3>3. form.rev \in Nat BY DEF FormShape
    <3> QED BY <3>1, <3>2, <3>3, ValidFits DEF Judged
  <2>3. app'[p] = app[p] \/ Apply(p)
    <3>1. ASSUME NEW q \in Call, Apply(q) PROVE p = q \/ app'[p] = app[p] BY <3>1, ApplyFacts
    <3>2. ASSUME NEW q \in Call, Granted(q) \/ Blocked(q) \/ Lose(q) \/ Verify(q) PROVE app'[p] = app[p]
      <4>1. \/ app' = [app EXCEPT ![q].pc = "batch"] \/ app' = [app EXCEPT ![q].pc = "verify"]
            \/ app' = [app EXCEPT ![q] = NoApp]
        BY <3>2, Zenon DEF Granted, Blocked, Lose, Verify
      <4> QED BY <4>1 DEF NoApp, TableShape, Request
    <3>3. ASSUME NEW b \in batch, AssertRevision(b) \/ Insert(b) \/ Store(b) \/ Fail(b) PROVE app'[p] = app[p]
      <4>1. app'[p] = app[p] \/ app'[p].pc \in {"idle", "verify"} BY <3>3, BatchMoves, EndsFacts, MovesFacts
      <4> QED BY <4>1
    <3> QED BY <3>1, <3>2, <3>3, BatchSteps
  <2> QED BY <2>1, <2>2, <2>3
<1>4. JudgedBatches'
  <2> SUFFICES ASSUME NEW c \in batch'
               PROVE  /\ Judged(c.rev, c.answers)
                      /\ c.pc # "begun" => form.there /\ form.open /\ c.rev = form.rev
    BY <1>2 DEF JudgedBatches
  <2>1. CASE c \in batch BY <1>0, <2>1 DEF JudgedBatches
  <2>2. ASSUME NEW p \in Call, Granted(p), c \notin batch
        PROVE  c.pc = "begun" /\ Judged(c.rev, c.answers)
    <3>1. app[p].pc = "reserve" BY <2>2, GrantedFacts
    <3>2. c.pc = "begun" /\ c.rev = app[p].rev /\ c.answers = app[p].answers BY <2>2, GrantedFacts
    <3> QED BY <1>0, <3>1, <3>2 DEF JudgedRequests
  <2>3. ASSUME NEW b \in batch, AssertRevision(b) \/ Insert(b) \/ Store(b) \/ Fail(b), c \notin batch
        PROVE  /\ Judged(c.rev, c.answers)
               /\ c.pc # "begun" => form.there /\ form.open /\ c.rev = form.rev
    <3>1. \/ AssertRevision(b) /\ Current(b) /\ Moves(b, "asserted")
          \/ Insert(b) /\ Moves(b, "inserted")
          \/ \E how : Ends(b, how)
      BY <2>3, Zenon DEF AssertRevision, Insert, Store, Fail
    <3>2. c.rev = b.rev /\ c.answers = b.answers BY <2>3, <3>1, EndsFacts, MovesFacts
    <3>3. (AssertRevision(b) /\ Current(b)) \/ Insert(b) BY <2>3, <3>1, EndsFacts
    <3>4. form.there /\ form.open /\ b.rev = form.rev BY <1>0, <3>3 DEF Current, Insert, JudgedBatches
    <3> QED BY <1>0, <3>2, <3>4 DEF JudgedBatches
  <2> QED BY <2>1, <2>2, <2>3, BatchSteps
<1> QED BY <1>1, <1>3, <1>4 DEF Meant, JudgedRequests, JudgedBatches

LEMMA MeantStep ==
  ASSUME Base, FormShape, TableShape, ScreenShape, Meant, AppNext
  PROVE  Meant'
<1>1. CASE UNCHANGED form BY <1>1, MeantUnderSameForm
<1>2. CASE Publish
  <2>1. UNCHANGED <<subs, batch, app>> /\ \A b \in batch : b.pc = "begun" BY <1>2, Zenon DEF Publish, Unshared
  <2>2. /\ form'.there = form.there /\ form'.rev = form.rev /\ form'.list = form.list
    BY <1>2 DEF Publish, FormShape
  <2>3. \A rev, answers : Judged(rev, answers) => Judged(rev, answers)' BY <2>2 DEF Judged, Fits
  <2>4. MeaningKept' BY <2>1, <2>2 DEF Meant, MeaningKept
  <2> QED BY <2>1, <2>3, <2>4 DEF Meant
<1>3. CASE DeleteForm
  <2>1. UNCHANGED <<batch, app>> /\ (\A b \in batch : b.pc = "begun") /\ subs' = {}
    BY <1>3, Zenon DEF DeleteForm, Unshared
  <2>2. /\ ~form'.there /\ form'.rev = form.rev BY <1>3 DEF DeleteForm, FormShape
  <2>3. \A rev, answers : Judged(rev, answers) => Judged(rev, answers)' BY <2>2 DEF Judged
  <2>4. MeaningKept' BY <2>1 DEF MeaningKept
  <2> QED BY <2>1, <2>3, <2>4 DEF Meant
<1>4. ASSUME NEW a \in Admin, SaveRuns(a) PROVE Meant'
  <2>1. UNCHANGED <<subs, batch, app>> /\ \A b \in batch : b.pc = "begun" BY <1>4, Zenon DEF SaveRuns, Unshared
  <2>2. CASE /\ Accepts(a)
             /\ form' = [form EXCEPT !.list = Numbered(page[a].list), !.rev = @ + 1]
    <3>1. form.rev \in Nat /\ form'.rev = form.rev + 1 /\ form'.list = Numbered(page[a].list)
      BY <2>2 DEF FormShape
    <3>2. ASSUME NEW rev, rev \in Nat, NEW answers, Judged(rev, answers) PROVE Judged(rev, answers)'
      <4>1. rev <= form.rev BY <3>2 DEF Judged
      <4>2. rev <= form'.rev /\ rev # form'.rev BY <3>1, <3>2, <4>1
      <4> QED BY <4>2 DEF Judged
    <3>3. page[a].list \in Seq(Draft) /\ DistinctIds(page[a].list) BY <1>4, SaveRunsFacts
    <3>4. Preserved(page[a].list) /\ MeaningKept BY <2>2 DEF Accepts, Meant
    <3>5. MeaningKept'
      <4> SUFFICES ASSUME NEW s \in subs, NEW i \in DOMAIN s.answers
                   PROVE  i \in Ids(form'.list) /\ Asks(form'.list, i).says = s.answers[i]
        BY <2>1 DEF MeaningKept
      <4> QED BY <3>1, <3>3, <3>4, SaveKeepsMeaning
    <3>6. /\ \A b \in batch : b.rev \in Nat
          /\ \A p \in Call : app[p].rev \in Nat
      BY DEF TableShape, Batch, Request
    <3> QED BY <2>1, <3>2, <3>5, <3>6 DEF Meant
  <2> QED BY <1>1, <1>4, <2>2, SaveRunsFacts
<1> QED BY <1>1, <1>2, <1>3, <1>4, FormSteps

LEMMA EditsKnownStep ==
  ASSUME FormShape, TableShape, ScreenShape, EditsKnown, AppNext
  PROVE  EditsKnown'
<1>0. form.rev \in Nat /\ \A a \in Admin : page[a].rev \in Nat BY DEF FormShape, ScreenShape, Page
<1>1. CASE UNCHANGED <<form, page>> BY <1>1 DEF EditsKnown
<1>2. CASE Publish \/ DeleteForm
  <2>1. UNCHANGED page BY <1>2, Zenon DEF Publish, DeleteForm
  <2>2. form'.rev = form.rev /\ (form'.there => form.there /\ form'.list = form.list)
    <3>1. CASE Publish BY <3>1 DEF Publish, FormShape
    <3>2. CASE DeleteForm BY <3>2 DEF DeleteForm, FormShape
    <3> QED BY <1>2, <3>1, <3>2
  <2> QED BY <2>1, <2>2 DEF EditsKnown
<1>3. ASSUME NEW a \in Admin, OpenPage(a) \/ LoadPage(a) \/ Save(a) PROVE EditsKnown'
  <2>1. UNCHANGED form /\ \A c \in Admin \ {a} : page'[c] = page[c] BY <1>3, PageFacts
  <2>2. /\ page'[a].rev <= form.rev
        /\ form.there /\ page'[a].rev = form.rev /\ page'[a].pc # "loading" => page'[a].base = form.list
    <3>1. CASE page'[a] = [pc |-> "loading", rev |-> form.rev, list |-> <<>>, base |-> <<>>] BY <1>0, <3>1
    <3>2. CASE page'[a] = [pc |-> "shown", rev |-> page[a].rev, list |-> form.list, base |-> form.list]
      BY <3>2 DEF EditsKnown
    <3>3. ASSUME NEW list, page[a].pc = "shown",
                 page'[a] = [pc |-> "saving", rev |-> page[a].rev, list |-> list, base |-> page[a].base]
          PROVE  <2>2
      BY <3>3 DEF EditsKnown
    <3> QED BY <1>3, <3>1, <3>2, <3>3, PageFacts
  <2> QED BY <2>1, <2>2 DEF EditsKnown
<1>4. ASSUME NEW a \in Admin, SaveRuns(a) PROVE EditsKnown'
  <2>1. \A c \in Admin \ {a} : page'[c] = page[c] BY <1>4, SaveRunsFacts
  <2>2. page[a].pc = "saving" BY <1>4, SaveRunsFacts
  <2>3. ASSUME page'[a] = [page[a] EXCEPT !.pc = "shown"]
        PROVE  page'[a].pc = "shown" /\ page'[a].rev = page[a].rev /\ page'[a].base = page[a].base
    BY <2>3 DEF ScreenShape, Page
  <2>4. CASE UNCHANGED form /\ page'[a] = [page[a] EXCEPT !.pc = "shown"]
    <3>1. page'[a].rev = page[a].rev /\ page'[a].base = page[a].base BY <2>3, <2>4
    <3>2. form' = form BY <2>4
    <3> QED BY <2>1, <2>2, <3>1, <3>2 DEF EditsKnown
  <2>5. CASE /\ form' = [form EXCEPT !.list = Numbered(page[a].list), !.rev = @ + 1]
             /\ \/ page'[a] = [page[a] EXCEPT !.pc = "shown"]
                \/ \E list : page'[a] = [pc |-> "shown", rev |-> form.rev + 1, list |-> list,
                                         base |-> Numbered(page[a].list)]
    <3>1. form'.rev = form.rev + 1 /\ form'.list = Numbered(page[a].list) BY <2>5 DEF FormShape
    <3>2. \A c \in Admin : page[c].rev <= form'.rev /\ page[c].rev # form'.rev
      <4>1. \A c \in Admin : page[c].rev <= form.rev BY DEF EditsKnown
      <4> QED BY <1>0, <3>1, <4>1
    <3>3. CASE page'[a] = [page[a] EXCEPT !.pc = "shown"]
      <4>1. page'[a].rev = page[a].rev BY <2>3, <3>3
      <4> QED BY <2>1, <3>2, <4>1 DEF EditsKnown
    <3>4. ASSUME NEW list, page'[a] = [pc |-> "shown", rev |-> form.rev + 1, list |-> list,
                                       base |-> Numbered(page[a].list)]
          PROVE  EditsKnown'
      <4>1. page'[a].rev = form'.rev /\ page'[a].base = form'.list BY <3>1, <3>4
      <4>2. form'.rev <= form'.rev BY <1>0, <3>1
      <4> QED BY <2>1, <3>2, <4>1, <4>2 DEF EditsKnown
    <3> QED BY <2>5, <3>3, <3>4
  <2> QED BY <1>4, <2>4, <2>5, SaveRunsFacts
<1>5. UNCHANGED page /\ ~(Publish \/ DeleteForm) /\ (\A a \in Admin : ~SaveRuns(a)) => UNCHANGED form
  BY FormSteps
<1>6. (\E a \in Admin : OpenPage(a) \/ LoadPage(a) \/ Save(a)) \/ (\E a \in Admin : SaveRuns(a)) \/ UNCHANGED page
  BY ScreenSteps
<1> QED BY <1>1, <1>2, <1>3, <1>4, <1>5, <1>6

-----------------------------------------------------------------------------
(* Results.                                                                *)

LEMMA InitFInv == AppInit => FInv
<1> SUFFICES ASSUME AppInit PROVE FInv OBVIOUS
<1> USE DEF AppInit, FormInit
<1> DEFINE first == [id |-> 1, says |-> CHOOSE m \in Meaning : TRUE, needs |-> TRUE]
<1>1. (CHOOSE m \in Meaning : TRUE) \in Meaning
  <2>1. PICK m \in Meaning : TRUE BY FormAssumption
  <2> QED BY <2>1
<1>2. lastId = 1 /\ 1..lastId = {1} OBVIOUS
<1>3. first \in Question BY <1>1, <1>2 DEF Question
<1>4. FirstQuestions = <<first>> BY DEF FirstQuestions
<1>5. FirstQuestions \in Seq(Question) /\ DOMAIN FirstQuestions = {1}
  <2> HIDE DEF first
  <2>1. <<first>> \in Seq(Question) BY <1>3
  <2>2. Len(<<first>>) = 1 /\ DOMAIN <<first>> = 1..Len(<<first>>) BY <2>1, LenProperties
  <2>3. 1..1 = {1} OBVIOUS
  <2> QED BY <1>4, <2>1, <2>2, <2>3
<1>6. FormShape
  <2>1. DistinctIds(FirstQuestions) BY <1>5 DEF DistinctIds
  <2>2. /\ form = [there |-> TRUE, open |-> TRUE, rev |-> 1, list |-> FirstQuestions]
        /\ form.list = FirstQuestions
    OBVIOUS
  <2>3. form \in [there : BOOLEAN, open : BOOLEAN, rev : Nat, list : Seq(Question)] BY <1>5, <2>2
  <2> QED BY <1>2, <2>1, <2>2, <2>3 DEF FormShape
<1>7. TableShape
  <2>1. NoApp \in Request /\ NoApp.pc = "idle" BY DEF NoApp, Request
  <2> QED BY <2>1 DEF TableShape
<1>8. ScreenShape
  <2>1. FirstQuestions \in Seq(Draft) BY <1>5, QuestionsAreDrafts
  <2>2. Opened(1, FirstQuestions) \in Page /\ Opened(1, FirstQuestions).pc = "shown" BY <2>1 DEF Opened, Page
  <2>3. NoTask \in Task /\ NoTask.pc = "idle" BY DEF NoTask, Task
  <2> QED BY <2>2, <2>3 DEF ScreenShape
<1>9. Numbering BY DEF Numbering, NoApp
<1>10. Placed BY DEF Placed, StoredKept, ErasedWholly
<1>11. Settled /\ Unique /\ AuditTrue BY DEF Settled, ToldTruly, Unique, OncePerEmail, AuditTrue
<1>12. Meant BY DEF Meant, MeaningKept, NoApp
<1>13. EditsKnown
  <2>1. \A a \in Admin : page[a].rev = 1 /\ page[a].base = FirstQuestions BY DEF Opened
  <2>2. form.rev = 1 /\ form.list = FirstQuestions OBVIOUS
  <2> QED BY <2>1, <2>2 DEF EditsKnown
<1> QED BY <1>6, <1>7, <1>8, <1>9, <1>10, <1>11, <1>12, <1>13 DEF FInv

LEMMA StepFInv == IInv /\ FInv /\ [AppNext]_allVars => FInv'
<1> SUFFICES ASSUME IInv, FInv, [AppNext]_allVars PROVE FInv' OBVIOUS
<1>1. CASE UNCHANGED allVars
  <2> USE <1>1 DEF allVars, vars, review, results, FInv
  <2>1. FormShape' BY DEF FormShape, Question, DistinctIds
  <2>2. TableShape' BY DEF TableShape, Application, Batch, Request, Answers
  <2>3. ScreenShape' BY DEF ScreenShape, Page, Task, Draft, DistinctIds
  <2>4. Numbering' BY DEF Numbering, Given
  <2>5. Placed' BY DEF Placed, StoredKept, ErasedWholly
  <2>6. Settled' /\ Unique' /\ AuditTrue' BY DEF Settled, ToldTruly, Unique, OncePerEmail, AuditTrue
  <2>7. Meant' BY DEF Meant, MeaningKept, Judged, Fits
  <2>8. EditsKnown' BY DEF EditsKnown
  <2> QED BY <2>1, <2>2, <2>3, <2>4, <2>5, <2>6, <2>7, <2>8
<1>2. CASE AppNext
  BY <1>2, FormShapeStep, TableShapeStep, ScreenShapeStep, NumberingStep, PlacedStep, SettledStep,
     UniqueStep, MeantStep, EditsKnownStep, AuditStep
  DEF FInv, IInv
<1> QED BY <1>1, <1>2

LEMMA FInvSound == FInv => FormSound
<1> SUFFICES ASSUME FInv PROVE FormSound OBVIOUS
<1>1. FormTypeOK
  <2>1. \A s \in subs : s.id \in Id /\ s.email \in Email /\ s.answers \in Answers /\ s.status \in Status
    BY DEF FInv, TableShape, Application
  <2>2. \A b \in batch : b.id \in Id /\ b.answers \in Answers /\ b.pc \in {"begun", "asserted", "inserted"}
    BY DEF FInv, TableShape, Batch
  <2>3. \A p \in Call : app[p].pc \in {"idle", "reserve", "batch", "verify"}
    BY DEF FInv, TableShape, Request
  <2>4. \A a \in Admin : /\ page[a].pc \in {"loading", "shown", "saving"}
                         /\ desk[a].pc \in {"idle", "decide", "erase"}
    BY DEF FInv, ScreenShape, Page, Task
  <2>5. attached \subseteq stored BY DEF FInv, Placed
  <2> QED BY <2>1, <2>2, <2>3, <2>4, <2>5 DEF FormTypeOK, FInv, FormShape
<1> QED BY <1>1 DEF FormSound, FInv, Meant, Unique, Settled, Placed

\* What AcceptedAsOpen and EditsBuild say of a step.
OpenStep ==
  \A s \in subs' : s.id \notin stored =>
    /\ form.open
    /\ \A q \in Questions : q.needs => q.id \in DOMAIN s.answers

BuildStep ==
  form'.there /\ form'.list # form.list =>
    \E a \in Admin : page[a].pc = "saving" /\ page'[a].pc = "shown" /\ page[a].base = form.list

\* Only the commit of a batch adds an application, and until then its form is
\* locked as the assertion found it.
LEMMA StepOpen == FInv /\ [AppNext]_allVars => OpenStep
<1> SUFFICES ASSUME FInv, [AppNext]_allVars, NEW s \in subs', s.id \notin stored
             PROVE  form.open /\ \A q \in Questions : q.needs => q.id \in DOMAIN s.answers
  BY DEF OpenStep
<1> USE DEF FInv
<1>1. \A t \in subs : t.id \in stored BY DEF Placed
<1>2. CASE subs' \subseteq subs BY <1>1, <1>2
<1>3. ASSUME NEW b \in batch, Store(b)
      PROVE  form.open /\ \A q \in Questions : q.needs => q.id \in DOMAIN s.answers
  <2>1. b.pc = "inserted" /\ s.answers = b.answers BY <1>1, <1>3, StoreFacts
  <2>2. form.open /\ Fits(b.answers, form.list) BY <2>1 DEF Meant, Judged
  <2> QED BY <2>1, <2>2 DEF Fits, Questions
<1>4. ASSUME NEW a \in Admin, Decide(a) PROVE FALSE
  BY <1>1, <1>4, DecideFacts
<1>5. ASSUME NEW a \in Admin, Erase(a) PROVE subs' \subseteq subs BY <1>5, EraseFacts
<1>6. CASE DeleteForm BY <1>6 DEF DeleteForm
<1>7. CASE UNCHANGED allVars BY <1>2, <1>7 DEF allVars
<1> QED BY <1>2, <1>3, <1>4, <1>5, <1>6, <1>7, SubsSteps

\* The list changes only by a save that has the form's revision.
LEMMA StepBuild == FInv /\ [AppNext]_allVars => BuildStep
<1> SUFFICES ASSUME FInv, [AppNext]_allVars, form'.there, form'.list # form.list
             PROVE  \E a \in Admin : page[a].pc = "saving" /\ page'[a].pc = "shown" /\ page[a].base = form.list
  BY DEF BuildStep
<1> USE DEF FInv
<1>1. ~Publish BY DEF Publish, FormShape
<1>2. ~DeleteForm BY DEF DeleteForm, FormShape
<1>3. ~UNCHANGED allVars BY DEF allVars
<1>4. PICK a \in Admin : SaveRuns(a) BY <1>1, <1>2, <1>3, FormSteps
<1>5. page[a].pc = "saving" /\ Accepts(a) BY <1>4, SaveRunsFacts
<1>6. page[a].base = form.list BY <1>5 DEF Accepts, Fresh, EditsKnown
<1>7. page[a] \in Page BY DEF ScreenShape
<1>8. FormShape /\ ScreenShape OBVIOUS
<1> HIDE DEF FInv
<1>9. page'[a].pc = "shown"
  <2>1. \/ page'[a] = [page[a] EXCEPT !.pc = "shown"]
        \/ \E list : page'[a] = [pc |-> "shown", rev |-> form.rev + 1, list |-> list,
                                 base |-> Numbered(page[a].list)]
    BY <1>4, <1>8, SaveRunsFacts
  <2>2. CASE page'[a] = [page[a] EXCEPT !.pc = "shown"] BY <1>7, <2>2 DEF Page
  <2>3. CASE \E list : page'[a] = [pc |-> "shown", rev |-> form.rev + 1, list |-> list,
                                   base |-> Numbered(page[a].list)]
    <3>1. PICK list : page'[a] = [pc |-> "shown", rev |-> form.rev + 1, list |-> list,
                                  base |-> Numbered(page[a].list)]
      BY <2>3
    <3> QED BY <3>1
  <2> QED BY <2>1, <2>2, <2>3
<1> QED BY <1>5, <1>6, <1>9

\* The rate limits hold with applications and other requests on top of them,
\* and when a deleted application takes its reservations with it
\* (submitApplicationForm, deleteApplicationSubmission).
THEOREM FormLimitsHold == AppSpec => []WindowsSound
<1>1. AppInit => IInv BY InitIInv DEF AppInit
<1>2. IInv /\ [AppNext]_allVars => IInv' BY RateStep, StepIInv
<1> QED BY <1>1, <1>2, IInvWindows, PTL DEF AppSpec

\* And an applicant who waits as long as it was told is refused only if
\* somebody came in between.
THEOREM FormWaitsAreHonest == AppSpec => RetryHonest
<1>1. AppInit => IInv BY InitIInv DEF AppInit
<1>2. IInv /\ [AppNext]_allVars => IInv' BY RateStep, StepIInv
<1>3. IInv /\ [AppNext]_allVars => [HonestStep]_vars BY RateStep, StepHonest
<1> QED BY <1>1, <1>2, <1>3, PTL DEF AppSpec, RetryHonest, HonestStep

\* For any number of applicants, administrators, addresses, questions and
\* saves: answers keep their meaning, an address applies once, applicants are
\* told the truth, a deleted application is gone with its traces, and the log
\* of decisions is true (features/applications/actions).
THEOREM FormIsSound == AppSpec => []FormSound
<1>1. AppInit => IInv /\ FInv BY InitIInv, InitFInv DEF AppInit
<1>2. IInv /\ FInv /\ [AppNext]_allVars => IInv' /\ FInv' BY RateStep, StepIInv, StepFInv
<1>3. FInv => FormSound BY FInvSound
<1> QED BY <1>1, <1>2, <1>3, PTL DEF AppSpec

\* Applications and saves take effect on the form their sender was judged by:
\* what assert_application_question_revision and the revision of
\* save_application_form_questions are for.
THEOREM FormIsAsShown == AppSpec => AsShown
<1>1. AppInit => IInv /\ FInv BY InitIInv, InitFInv DEF AppInit
<1>2. IInv /\ FInv /\ [AppNext]_allVars => IInv' /\ FInv' BY RateStep, StepIInv, StepFInv
<1>3. FInv /\ [AppNext]_allVars => OpenStep BY StepOpen
<1>4. FInv /\ [AppNext]_allVars => BuildStep BY StepBuild
<1>5. AppSpec => AcceptedAsOpen
  BY <1>1, <1>2, <1>3, PTL DEF AppSpec, AcceptedAsOpen, OpenStep
<1>6. AppSpec => EditsBuild
  BY <1>1, <1>2, <1>4, PTL DEF AppSpec, EditsBuild, BuildStep
<1> QED BY <1>5, <1>6 DEF AsShown

=============================================================================
