------------------------------ MODULE RateLimit ------------------------------
(***************************************************************************)
(* Sliding-window rate limits kept in PostgreSQL.                          *)
(*                                                                         *)
(* reserve_rate_limit (scripts/sql/rate-limit-reservations.sql) takes one  *)
(* advisory lock per axis of the call in hash order, reads the clock,      *)
(* counts the axis' events and either refuses with a number of seconds to  *)
(* wait or records one event per axis.  Every SELECT of it has a snapshot  *)
(* of its own, so a step of the model is one statement.                    *)
(* src/lib/rate-limit.ts turns any failure into a refusal, deletes the     *)
(* reservation of a successful login, and a daily job deletes old events.  *)
(***************************************************************************)
EXTENDS Integers, FiniteSets

CONSTANTS
  Call,       \* concurrent requests of the server
  Axis,       \* pairs of scope and hashed key
  Rank,       \* the order of the axes' lock keys
  Limit,      \* [Axis -> Nat]: attempts allowed in a window
  Window,     \* [Axis -> Nat]: length of the window, in seconds
  Asked,      \* the sets of axes the callers reserve together
  Forgivable, \* those of Asked whose reservation a caller may delete later
  Retention,  \* age, in ticks, below which the daily job keeps an event
  Sec,        \* ticks of the clock per second
  MaxNow,     \* bound on the clock
  MaxCalls,   \* bound on the calls of a request
  None

ASSUME RateAssumption ==
  /\ Asked \subseteq (SUBSET Axis) \ {{}}
  /\ Forgivable \subseteq Asked
  /\ Rank \in [Axis -> Nat]
  /\ \A a, b \in Axis : Rank[a] = Rank[b] => a = b
  /\ Limit \in [Axis -> Nat \ {0}]
  /\ Window \in [Axis -> Nat \ {0}]
  /\ Sec \in Nat \ {0}
  /\ MaxNow \in Nat
  /\ MaxCalls \in Nat
  /\ Retention \in Nat
  /\ \A a \in Axis : Window[a] * Sec <= Retention
  /\ None \notin Call

VARIABLES
  now,      \* the database's clock
  events,   \* rate_limit_events: [id, axis, at]
  standing, \* attempts let through and not forgiven: [id, axes, at]
  locks,    \* [Axis -> Call or None]: advisory locks held to the commit
  call,     \* the state of each request's transaction
  told,     \* the last refusal each request was given: [axes, at, until]
  made      \* calls each request has begun

vars == <<now, events, standing, locks, call, told, made>>

Id == Call \X Nat
Idle == [pc |-> "idle", axes |-> {}, left |-> {}, at |-> 0, retry |-> 0]
Untold == [axes |-> {}, at |-> 0, until |-> 0]

Init ==
  /\ now = 0
  /\ events = {}
  /\ standing = {}
  /\ locks = [a \in Axis |-> None]
  /\ call = [p \in Call |-> Idle]
  /\ told = [p \in Call |-> Untold]
  /\ made = [p \in Call |-> 0]

-----------------------------------------------------------------------------
\* One call of reserve_rate_limit.

Start(p) ==
  /\ call[p].pc = "idle"
  /\ made[p] < MaxCalls
  /\ made' = [made EXCEPT ![p] = @ + 1]
  /\ \E axes \in Asked :
       call' = [call EXCEPT ![p] = [Idle EXCEPT !.pc = "locking", !.axes = axes, !.left = axes]]
  /\ UNCHANGED <<now, events, standing, locks, told>>

\* Mutant: axes are locked in the order they come.
IsNext_Unsorted(p, a) == a \in call[p].left

\* SELECT DISTINCT ... ORDER BY lock_key: the next lock is the least one left.
IsNext(p, a) == \A b \in call[p].left : Rank[a] <= Rank[b]

\* Mutant: the lock of an axis is not waited for.
Lock_NoWait(p) ==
  /\ call[p].pc = "locking"
  /\ \E a \in call[p].left :
       /\ IsNext(p, a)
       /\ locks' = [locks EXCEPT ![a] = p]
       /\ call' = [call EXCEPT ![p].left = @ \ {a}]
  /\ UNCHANGED <<now, events, standing, told, made>>

Lock(p) ==
  /\ call[p].pc = "locking"
  /\ \E a \in call[p].left :
       /\ IsNext(p, a)
       /\ locks[a] = None
       /\ locks' = [locks EXCEPT ![a] = p]
       /\ call' = [call EXCEPT ![p].left = @ \ {a}]
  /\ UNCHANGED <<now, events, standing, told, made>>

ReadClock(p) ==
  /\ call[p].pc = "locking"
  /\ call[p].left = {}
  /\ call' = [call EXCEPT ![p].pc = "counting", ![p].left = call[p].axes, ![p].at = now]
  /\ UNCHANGED <<now, events, standing, locks, told, made>>

InWindow(a, at) == {e \in events : e.axis = a /\ e.at > at - Window[a] * Sec}

\* Mutant: the wait is rounded down.
CeilSec_Floor(ticks) == ticks \div Sec

\* GREATEST(v_retry, 1, ceil(oldest + window - now)), in seconds.
CeilSec(ticks) == (ticks + Sec - 1) \div Sec
Wait(a, at, oldest) == CeilSec(oldest + Window[a] * Sec - at)

\* Mutant: the wait is that of the axis counted last.
AtLeast_Last(x, y) == y

AtLeast(x, y) == IF x >= y THEN x ELSE y

Count(p) ==
  /\ call[p].pc = "counting"
  /\ \E a \in call[p].left :
       LET seen == InWindow(a, call[p].at) IN
       /\ \/ /\ Cardinality(seen) >= Limit[a]
             /\ \E e \in seen :
                  /\ \A f \in seen : e.at <= f.at
                  /\ call' = [call EXCEPT
                       ![p].left = @ \ {a},
                       ![p].retry = AtLeast(@, AtLeast(1, Wait(a, call[p].at, e.at)))]
          \/ /\ Cardinality(seen) < Limit[a]
             /\ call' = [call EXCEPT ![p].left = @ \ {a}]
  /\ UNCHANGED <<now, events, standing, locks, told, made>>

\* The transaction ends and its advisory locks with it.
Ended(p) ==
  /\ locks' = [a \in Axis |-> IF locks[a] = p THEN None ELSE locks[a]]
  /\ call' = [call EXCEPT ![p] = Idle]

Refuse(p) ==
  /\ call[p].pc = "counting"
  /\ call[p].left = {}
  /\ call[p].retry > 0
  /\ told' = [told EXCEPT ![p] = [axes |-> call[p].axes, at |-> call[p].at,
                                  until |-> call[p].at + call[p].retry * Sec]]
  /\ Ended(p)
  /\ UNCHANGED <<now, events, standing, made>>

\* Mutant: the event is dated at the start of its window.
Recorded_WindowStart(p) ==
  [id : {<<p, made[p]>>}, axis : call[p].axes, at : {call[p].at - Sec}]

Recorded(p) ==
  [id : {<<p, made[p]>>}, axis : call[p].axes, at : {call[p].at}]

Allow(p) ==
  /\ call[p].pc = "counting"
  /\ call[p].left = {}
  /\ call[p].retry = 0
  /\ events' = events \union Recorded(p)
  /\ standing' = standing \union
       {[id |-> <<p, made[p]>>, axes |-> call[p].axes, at |-> call[p].at]}
  /\ Ended(p)
  /\ UNCHANGED <<now, told, made>>

\* The adapter's catch: the statement fails, or commits and its answer is
\* lost; both are blocked = true for the caller.
Break(p) ==
  /\ call[p].pc # "idle"
  /\ \/ UNCHANGED events
     \/ /\ call[p].pc = "counting"
        /\ call[p].left = {}
        /\ call[p].retry = 0
        /\ events' = events \union Recorded(p)
  /\ Ended(p)
  /\ UNCHANGED <<now, standing, told, made>>

-----------------------------------------------------------------------------
\* Everything else that touches the table.

\* The rows of one reservation go, without an advisory lock: its login
\* succeeded, or the application it was attached to was deleted.
Released(id) ==
  /\ standing' = {s \in standing : s.id # id}
  /\ events' = {e \in events : e.id # id}

Forgive ==
  \E s \in standing :
    /\ s.axes \in Forgivable
    /\ Released(s.id)
    /\ UNCHANGED <<now, locks, call, told, made>>

\* Mutant: the job keeps less than the longest window.
Cutoff_Short(t) == t - Sec

\* The daily job: the cutoff is read some time before the DELETE runs.
Cutoff(t) == t - Retention

Cleanup ==
  /\ \E t \in 0..now : events' = {e \in events : ~(e.at < Cutoff(t))}
  /\ UNCHANGED <<now, standing, locks, call, told, made>>

Tick ==
  /\ now < MaxNow
  /\ now' = now + 1
  /\ UNCHANGED <<events, standing, locks, call, told, made>>

Step(p) == Lock(p) \/ ReadClock(p) \/ Count(p) \/ Refuse(p) \/ Allow(p)

Next ==
  \/ \E p \in Call : Start(p) \/ Lock(p) \/ ReadClock(p) \/ Count(p)
                       \/ Refuse(p) \/ Allow(p) \/ Break(p)
  \/ Forgive
  \/ Cleanup
  \/ Tick

Spec == Init /\ [][Next]_vars

\* The database runs every statement of a transaction that is not blocked.
FairSpec == Spec /\ \A p \in Call : WF_vars(Step(p))

-----------------------------------------------------------------------------
\* Properties.

EventRecord == [id : Id, axis : Axis, at : Nat]
Attempt == [id : Id, axes : Asked, at : Nat]
CallState == [pc : {"idle", "locking", "counting"}, axes : SUBSET Axis,
              left : SUBSET Axis, at : Nat, retry : Nat]

\* The shape of the table, the locks and every transaction
\* (scripts/sql/rate-limit-reservations.sql).
TypeOK ==
  /\ now \in Nat
  /\ events \subseteq EventRecord
  /\ standing \subseteq Attempt
  /\ locks \in [Axis -> Call \union {None}]
  /\ call \in [Call -> CallState]
  /\ told \in [Call -> [axes : SUBSET Axis, at : Nat, until : Nat]]
  /\ made \in [Call -> Nat]

\* Whatever calls overlap, whatever is cleaned up and whatever answers are
\* lost: in the window that ends now, an axis never has more attempts that
\* were let through and not forgiven than its limit.  This is what the
\* advisory locks, the clock read after them and the retention are for.
WindowBound ==
  \A a \in Axis :
    Cardinality({s \in standing : a \in s.axes /\ s.at > now - Window[a] * Sec}) <= Limit[a]

\* The table and its windows.
WindowsSound == TypeOK /\ WindowBound

\* The announced wait is honest: a request that waited as long as it was told
\* and asks for the same axes is refused only if somebody reserved one of
\* them after it was refused (retry_after_sec is rounded up, and taken over
\* all the axes that refuse).
RetryHonest ==
  [][\A p \in Call :
       /\ call[p].retry = 0 /\ call'[p].retry > 0
       /\ call[p].axes = told[p].axes
       /\ call[p].at >= told[p].until
       => \E e \in events : e.axis \in call[p].axes /\ e.at >= told[p].at]_vars

\* Calls with overlapping axes never wait for one another in a circle: every
\* call that has begun is answered.
EveryCallAnswered == \A p \in Call : call[p].pc # "idle" ~> call[p].pc = "idle"
=============================================================================
