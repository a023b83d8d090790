-------------------------- MODULE MobileAuth_proofs --------------------------
(***************************************************************************)
(* Proofs about the session manager of the mobile app.  A generation works *)
(* with one login, the queue holds the operations in the order of their    *)
(* generations, and whatever is not of the current one has a deletion of   *)
(* the current one behind it: that is what keeps late answers and late     *)
(* writes out, and what the inductive invariant IInv says, together with   *)
(* what the device's tokens are to the server's newest.                    *)
(***************************************************************************)
EXTENDS MobileAuth, SequenceTheorems, TLAPS

-----------------------------------------------------------------------------
(* The inductive invariant.                                                *)

Active(g) == refresh[g].pc # "none"
Ops == DOMAIN queue

\* Generations: what is not of the current one is over or on its way out.
Ages ==
  /\ app.gen = life.gens =>
       app.stored = None /\ login[app.gen] = "none" /\ app.shown = "signedOut"
  /\ \A g \in Gen : g > app.gen => login[g] = "none" /\ ~Active(g)
  /\ \A k \in Call : call[k].gen <= app.gen
  /\ leaving.gen <= app.gen

AtBoot ==
  reading =>
    /\ app = Boot /\ queue = <<>> /\ call = NoCalls /\ leaving = NotLeaving
    /\ \A g \in Gen : login[g] = "none" /\ ~Active(g)

\* What the fields of the manager say about each other.
Fields ==
  /\ app.shown \in Login => app.stored # None
  /\ app.tokens # None =>
       app.stored # None /\ app.tokens[1] = app.stored[1] /\ app.tokens[2] <= app.stored[2]
  /\ app.gen = 0 => app.shown # "signedOut"
  /\ \A g \in Gen : login[g] # "none" => g > 0
  /\ login[app.gen] \in {"erasing", "sent"} => app.stored = None
  /\ login[app.gen] = "saving" => app.tokens = None /\ (app.shown \in Login => app.error)
  /\ Active(app.gen) => app.stored # None

\* The operations and their order.
Operations ==
  /\ \A i \in Ops :
       LET op == queue[i] IN
       /\ op.gen <= app.gen
       /\ op.kind = "clear" => op.gen > 0 /\ op.token = None /\ op.by # "refresh"
       /\ op.kind = "write" => op.token # None /\ op.by # "clear"
       /\ op.by = "clear" => login[op.gen] = "none"
       /\ op.by = "login" /\ op.kind = "write" => op.token[2] = 1
       /\ op.by = "refresh" =>
            /\ op.token[1] = refresh[op.gen].token[1]
            /\ op.token[2] = refresh[op.gen].token[2] + 1
  /\ \A i, j \in Ops : i < j =>
       \/ queue[i].gen < queue[j].gen
       \/ /\ queue[i].gen = queue[j].gen
          /\ queue[i].by = "login" /\ queue[i].kind = "write" /\ queue[j].by = "refresh"
  /\ \A i \in Ops : queue[i].gen # app.gen =>
       queue[Len(queue)].gen = app.gen /\ queue[Len(queue)].kind = "clear"
  /\ \A i \in Ops : queue[i].gen = app.gen =>
       IF queue[i].kind = "clear" THEN app.stored = None
       ELSE app.stored # None /\ queue[i].token[1] = app.stored[1]
  /\ running => queue # <<>>

SignedOutIsErased ==
  app.gen > 0 /\ app.stored = None =>
    \/ disk = None \/ uncleared
    \/ \E i \in Ops : queue[i].kind = "clear" /\ queue[i].gen = app.gen

Flights ==
  \A g \in Gen : Active(g) =>
    LET f == refresh[g] IN
    /\ f.token # None
    /\ f.answer = "none" <=> f.pc = "sent"
    /\ f.pc = "saving" => f.answer = "rotated"
    /\ g = app.gen /\ f.pc # "saving" => f.token = app.stored
    /\ g = app.gen => f.token[1] = app.stored[1]
    /\ g = app.gen /\ app.tokens # None => f.token[2] >= app.tokens[2]

\* What a request or logoutAll() has been told.
Callers ==
  /\ \A k \in Call :
       call[k].gen = app.gen =>
         /\ call[k].woken = "ok" => app.tokens # None
         /\ call[k].pc = "sent" =>
              call[k].token # None /\ app.stored # None /\ call[k].token[1] = app.stored[1]
  /\ leaving.pc # "none" /\ leaving.gen = app.gen => app.stored # None
  /\ leaving.woken # "no" => leaving.pc = "opening" /\ refresh[leaving.gen].pc # "saving"
  /\ leaving.pc = "opening" /\ leaving.woken = "no" =>
       /\ leaving.gen = app.gen /\ app.shown \in Login
       /\ leaving.of = app.stored[1] /\ login[app.gen] # "saving"
  /\ leaving.woken = "ok" =>
       leaving.gen = app.gen /\ app.tokens # None /\ app.tokens[1] = leaving.of

\* The two halves of NobodyForgotten.
Waiters ==
  /\ \A k \in Call : call[k].pc \in {"opening", "renewing", "reopening"} =>
       call[k].woken # "no" \/ Active(call[k].gen)
  /\ leaving.pc = "opening" => leaving.woken # "no" \/ Active(leaving.gen)

Queued(g, by, kind) ==
  \E i \in Ops : queue[i].gen = g /\ queue[i].by = by /\ queue[i].kind = kind

Owing ==
  \A g \in Gen :
    /\ refresh[g].pc = "saving" <=> Queued(g, "refresh", "write")
    /\ login[g] = "erasing" <=> Queued(g, "login", "clear")
    /\ login[g] = "saving" <=> Queued(g, "login", "write")

\* The saved session follows the one in use.
Device ==
  /\ app.tokens # None =>
       /\ disk # None /\ disk[1] = app.tokens[1] /\ disk[2] >= app.tokens[2]
       /\ \A i \in Ops : queue[i].token # None => queue[i].token[2] >= app.tokens[2]
  /\ app.stored # None /\ queue = <<>> /\ app.stored[1] \notin lost => disk = app.stored
  /\ \A i \in Ops :
       queue[i].gen = app.gen /\ queue[i].by = "login" /\ queue[i].kind = "write"
         /\ refresh[app.gen].pc # "saving" => queue[i].token = app.stored

\* The newest generation that the answer of a flight speaks of.
Reached(f) == f.token[2] + IF f.answer = "rotated" THEN 1 ELSE 0

Unborn == \A s \in Login : family[s] = "none" => newest[s] = 0

\* Every token the device has was given by the server.
Issued(t) == t # None => newest[t[1]] >= t[2]
Given ==
  /\ Issued(disk) /\ Issued(app.stored)
  /\ \A i \in Ops : Issued(queue[i].token)
  /\ \A g \in Gen : Active(g) => newest[refresh[g].token[1]] >= Reached(refresh[g])
  /\ \A t \in stray : Issued(t) /\ t[1] \in lost
  /\ \A s \in lost : newest[s] >= 1

\* Two generations never work with the same login.
Apart ==
  /\ \A g, h \in Gen : Active(g) /\ Active(h) /\ refresh[g].token[1] = refresh[h].token[1] => g = h
  /\ \A g \in Gen : Active(g) /\ app.stored # None /\ refresh[g].token[1] = app.stored[1] =>
       g = app.gen
  /\ \A i \in Ops, g \in Gen : Active(g) /\ queue[i].kind = "write" =>
       (queue[i].gen = g <=> queue[i].token[1] = refresh[g].token[1])

\* What is newest at the server, as long as nothing of a login was lost.
Newest ==
  /\ \A g \in Gen : Active(g) /\ refresh[g].token[1] \notin lost =>
       newest[refresh[g].token[1]] = Reached(refresh[g])
  /\ app.stored # None /\ ~Active(app.gen) /\ app.stored[1] \notin lost =>
       newest[app.stored[1]] = app.stored[2]
  /\ \A i \in Ops :
       queue[i].kind = "write" /\ ~Active(queue[i].gen) /\ queue[i].token[1] \notin lost =>
         newest[queue[i].token[1]] = queue[i].token[2]
  /\ disk # None /\ disk[1] \notin lost
       /\ (\A g \in Gen : Active(g) => refresh[g].token[1] # disk[1])
       /\ (\A i \in Ops : queue[i].kind = "write" => queue[i].token[1] # disk[1]) =>
         newest[disk[1]] = disk[2]

IInv ==
  /\ TypeOK /\ Ages /\ AtBoot /\ Fields /\ Operations /\ Waiters /\ Owing
  /\ SignedOutIsErased /\ Flights /\ Callers /\ LogoutAllOwn
  /\ Device /\ Unborn /\ Given /\ Apart /\ Newest

-----------------------------------------------------------------------------
(* Types and sequences.                                                    *)

\* The types of the parts of the state.
LEMMA Types ==
  ASSUME TypeOK
  PROVE  /\ life.gens \in Nat \ {0} /\ Gen \subseteq Nat /\ 0 \in Gen
         /\ app.gen \in Gen /\ app.stored \in MaybeToken /\ app.tokens \in MaybeToken
         /\ app.shown \in Login \cup {"loading", "signedOut"}
         /\ app.error \in BOOLEAN /\ app.throttled \in BOOLEAN
         /\ \A g \in Gen : refresh[g] \in Flight /\ login[g] \in {"none", "erasing", "sent", "saving"}
         /\ \A k \in Call : call[k] \in Request
         /\ leaving \in Leaving
         /\ \A s \in Login : newest[s] \in Nat
         /\ \A i \in Ops : queue[i] \in Operation
         /\ Len(queue) \in Nat /\ Ops = 1 .. Len(queue)
<1> USE DEF TypeOK
<1>1. life.gens \in Nat \ {0} BY BoundAssumption
<1>2. \A s \in Login : newest[s] \in Nat BY BoundAssumption
<1>3. app \in App OBVIOUS
<1>4. /\ app.gen \in Gen /\ app.stored \in MaybeToken /\ app.tokens \in MaybeToken
      /\ app.shown \in Login \cup {"loading", "signedOut"}
      /\ app.error \in BOOLEAN /\ app.throttled \in BOOLEAN
  BY <1>3 DEF App
<1>5. Gen \subseteq Nat /\ 0 \in Gen BY <1>1 DEF Gen
<1>6. Len(queue) \in Nat /\ Ops = 1 .. Len(queue) /\ \A i \in Ops : queue[i] \in Operation
  BY DEF Ops
<1>7. \A g \in Gen : refresh[g] \in Flight /\ login[g] \in {"none", "erasing", "sent", "saving"}
  OBVIOUS
<1> QED BY <1>1, <1>2, <1>4, <1>5, <1>6, <1>7

\* Tokens are pairs of a login and a generation, and None is not one.
LEMMA Tokens ==
  /\ None \notin Token
  /\ \A t \in Token : t = <<t[1], t[2]>> /\ t[1] \in Login /\ t[2] \in Nat /\ t[2] >= 1
                      /\ t[2] <= MaxToken + 1 /\ MaxToken \in Nat
  /\ \A t \in MaybeToken : t # None <=> t \in Token
  /\ \A t, u \in Token : t[1] = u[1] /\ t[2] = u[2] => t = u
  /\ \A s \in Login, n \in 1 .. MaxToken + 1 :
       <<s, n>> \in Token /\ <<s, n>>[1] = s /\ <<s, n>>[2] = n
<1>1. None \notin Token BY NoneAssumption, BoundAssumption DEF Token
<1> QED BY <1>1, BoundAssumption DEF Token, MaybeToken

\* While a session is stored, the queue holds writes of its login only.
LEMMA OnlyOwnWrites ==
  ASSUME TypeOK, Operations, app.stored # None
  PROVE  \A i \in Ops : /\ queue[i].gen = app.gen /\ queue[i].kind = "write"
                         /\ queue[i].token[1] = app.stored[1]
<1> SUFFICES ASSUME NEW i \in Ops
             PROVE  queue[i].gen = app.gen /\ queue[i].kind = "write"
                    /\ queue[i].token[1] = app.stored[1]
  OBVIOUS
<1>1. Len(queue) \in Ops BY Types
<1>2. queue[i].gen = app.gen BY <1>1 DEF Operations
<1>3. queue[i] \in Operation BY Types
<1> QED BY <1>2, <1>3 DEF Operations, Operation

\* The types depend on the history explored, which never changes.
LEMMA SameTypes ==
  ASSUME life' = life
  PROVE  /\ Gen' = Gen /\ App' = App /\ Request' = Request /\ Leaving' = Leaving
         /\ Operation' = Operation
BY DEF Gen, App, Request, Leaving, Operation

\* The queue with one more operation.
LEMMA Appended ==
  ASSUME TypeOK, NEW e \in Operation, queue' = Append(queue, e)
  PROVE  /\ Len(queue') = Len(queue) + 1 /\ Ops' = Ops \cup {Len(queue) + 1}
         /\ Len(queue) + 1 \notin Ops /\ \A i \in Ops : i < Len(queue) + 1
         /\ queue'[Len(queue) + 1] = e
         /\ \A i \in Ops : queue'[i] = queue[i]
         /\ queue' \in Seq(Operation) /\ queue' # <<>>
<1>1. queue \in Seq(Operation) BY DEF TypeOK
<1> QED BY <1>1 DEF Ops

\* The queue without its first operation.
LEMMA Dropped ==
  ASSUME TypeOK, queue # <<>>, queue' = Tail(queue)
  PROVE  /\ Len(queue') = Len(queue) - 1 /\ queue' \in Seq(Operation)
         /\ 1 \in Ops /\ Head(queue) = queue[1] /\ queue[1] \in Operation
         /\ \A i \in Ops' : i + 1 \in Ops /\ i + 1 > 1 /\ queue'[i] = queue[i + 1]
         /\ \A i \in Ops : i # 1 => i - 1 \in Ops' /\ queue'[i - 1] = queue[i]
         /\ (queue' = <<>>) <=> (Len(queue) = 1)
<1>1. queue \in Seq(Operation) BY DEF TypeOK
<1>2. Len(queue) \in Nat /\ Len(queue) # 0 BY <1>1
<1>3. Len(queue') = Len(queue) - 1 /\ queue' \in Seq(Operation)
      /\ \A i \in 1 .. Len(queue) - 1 : queue'[i] = queue[i + 1]
  BY <1>1, <1>2
<1>4. Ops = 1 .. Len(queue) /\ Ops' = 1 .. Len(queue) - 1 BY <1>1, <1>3 DEF Ops
<1>5. Head(queue) = queue[1] /\ queue[1] \in Operation BY <1>1, <1>2
<1>6. (queue' = <<>>) <=> (Len(queue') = 0) BY <1>3, EmptySeq
<1> QED BY <1>2, <1>3, <1>4, <1>5, <1>6

\* TypeOK after a step, from the type of each variable.
LEMMA KeptTypes ==
  ASSUME life \in Lives, life' = life,
         family' \in [Login -> {"none", "open", "closed"}],
         newest' \in [Login -> 0 .. MaxToken + 1],
         app' \in App, reading' \in BOOLEAN,
         disk' \in MaybeToken, queue' \in Seq(Operation), running' \in BOOLEAN,
         login' \in [Gen -> {"none", "erasing", "sent", "saving"}],
         refresh' \in [Gen -> Flight],
         call' \in [Call -> Request], leaving' \in Leaving,
         stray' \subseteq Token, lost' \subseteq Login, uncleared' \in BOOLEAN
  PROVE  TypeOK'
BY SameTypes DEF TypeOK

\* A queue without a position is empty.
LEMMA NothingQueued ==
  ASSUME TypeOK, Ops = {}
  PROVE  queue = <<>>
<1>1. queue \in Seq(Operation) BY DEF TypeOK
<1>2. queue # <<>> => 1 \in Ops BY <1>1, EmptySeq DEF Ops
<1> QED BY <1>2

\* What is queued when one more operation is.
LEMMA AppendedQueued ==
  ASSUME TypeOK, NEW e \in Operation, queue' = Append(queue, e)
  PROVE  \A g, by, kind :
           Queued(g, by, kind)' <=>
             Queued(g, by, kind) \/ (e.gen = g /\ e.by = by /\ e.kind = kind)
BY Appended DEF Queued

-----------------------------------------------------------------------------
(* Requests: refresh(), the API client.                                    *)

\* Steps of the callers that at most start a refresh.
Quiet == UNCHANGED <<server, app, reading, login, store, stray, ghosts, life>>

\* Such a step keeps the invariant, if the callers are told the truth.
LEMMA JoinStep ==
  ASSUME IInv, Quiet, ~reading,
         call' \in [Call -> Request], leaving' \in Leaving,
         refresh' = refresh \/ (app.stored # None /\ refresh' = Joined),
         \A k \in Call : call'[k].gen <= app.gen, leaving'.gen <= app.gen,
         Callers', Waiters', LogoutAllOwn'
  PROVE  IInv'
<1> USE DEF Quiet, server, store, ghosts
<1> TypeOK BY DEF IInv
<1>0. app.gen \in Gen /\ app.stored \in MaybeToken BY Types
<1>1. \A g \in Gen :
        \/ refresh'[g] = refresh[g]
        \/ /\ g = app.gen /\ ~Active(g) /\ app.stored # None
           /\ refresh'[g] = [pc |-> "sent", token |-> app.stored, answer |-> "none"]
  BY <1>0 DEF Joined, Flying, Active, TypeOK
<1>2. refresh' \in [Gen -> Flight]
  <2>1. [pc |-> "sent", token |-> app.stored, answer |-> "none"] \in Flight BY <1>0 DEF Flight
  <2>2. refresh \in [Gen -> Flight] BY DEF TypeOK
  <2> QED BY <2>1, <2>2 DEF Joined
<1>3. TypeOK' BY <1>2, SameTypes DEF TypeOK
<1>4. Gen' = Gen /\ Ops' = Ops BY SameTypes DEF Ops
<1>15. app.stored # None => \A i \in Ops : queue[i].gen = app.gen /\ queue[i].kind = "write"
                                           /\ queue[i].token[1] = app.stored[1]
  BY OnlyOwnWrites DEF IInv
<1>16. Apart'
  <2>1. \A g, h \in Gen :
          refresh'[g].pc # "none" /\ refresh'[h].pc # "none"
            /\ refresh'[g].token[1] = refresh'[h].token[1] => g = h
    BY <1>1 DEF IInv, Apart, Active
  <2>2. \A i \in Ops, g \in Gen : refresh'[g].pc # "none" /\ queue[i].kind = "write" =>
          (queue[i].gen = g <=> queue[i].token[1] = refresh'[g].token[1])
    BY <1>1, <1>15 DEF IInv, Apart, Active
  <2> QED BY <1>1, <1>4, <2>1, <2>2 DEF IInv, Apart, Active
<1> USE Types, Tokens
<1>5. Ages' BY <1>1, <1>4 DEF IInv, Ages, Active
<1>6. AtBoot' BY DEF AtBoot
<1>7. Fields' BY <1>1, <1>4 DEF IInv, Fields, Active
<1>8. \A i \in Ops : queue[i].by = "refresh" => refresh'[queue[i].gen] = refresh[queue[i].gen]
  <2>1. \A i \in Ops : queue[i].gen \in Gen BY DEF Operation
  <2> QED BY <1>1, <2>1 DEF IInv, Operations, Owing, Active, Queued, Operation
<1>9. Operations' BY <1>4, <1>8 DEF IInv, Operations
<1>10. Owing' BY <1>1, <1>4 DEF IInv, Owing, Active, Queued
<1>11. SignedOutIsErased' BY <1>4 DEF IInv, SignedOutIsErased
<1>12. Flights' BY <1>1, <1>4 DEF IInv, Flights, Active, Fields
<1>13. Device' BY <1>1, <1>4 DEF IInv, Device, Active
<1>14a. Unborn' BY DEF IInv, Unborn
<1>14. Given' BY <1>1, <1>4 DEF IInv, Given, Issued, Active, Reached
<1>17. Newest' BY <1>1, <1>4, <1>15 DEF IInv, Newest, Active, Reached
<1> QED BY <1>3, <1>5, <1>6, <1>7, <1>9, <1>10, <1>11, <1>12, <1>13, <1>14a, <1>14, <1>16, <1>17 DEF IInv

\* The state of a request after a step of it.
Told(c) ==
  /\ c.gen <= app.gen
  /\ c.gen = app.gen =>
       /\ c.woken = "ok" => app.tokens # None
       /\ c.pc = "sent" =>
            c.token # None /\ app.stored # None /\ c.token[1] = app.stored[1]
  /\ c.pc \in {"opening", "renewing", "reopening"} =>
       c.woken # "no" \/ refresh'[c.gen].pc # "none"

\* Before the stored session is read nobody calls.
LEMMA Reading ==
  ASSUME IInv, reading
  PROVE  /\ app = Boot /\ leaving = NotLeaving
         /\ \A k \in Call : call[k] = NoCall
BY DEF IInv, AtBoot, NoCalls

\* Joining a refresh ends none.
LEMMA JoinedIsActive ==
  ASSUME IInv, refresh' = refresh \/ refresh' = Joined
  PROVE  /\ \A g \in Gen : Active(g) => Active(g)'
         /\ \A g \in Gen : refresh[g].pc # "saving" => refresh'[g].pc # "saving"
         /\ refresh' = Joined => refresh'[app.gen].pc # "none"
<1>1. app.gen \in Gen /\ refresh \in [Gen -> Flight] BY Types DEF IInv, TypeOK
<1> QED BY <1>1 DEF Joined, Flying, Active

\* A step of one request.
LEMMA CallStep ==
  ASSUME IInv, Quiet, UNCHANGED leaving, ~reading,
         NEW k \in Call, NEW c \in Request,
         call' = [call EXCEPT ![k] = c], Told(c),
         refresh' = refresh \/ (app.stored # None /\ refresh' = Joined)
  PROVE  IInv'
<1>1. TypeOK /\ call \in [Call -> Request] BY DEF IInv, TypeOK
<1>2. call' \in [Call -> Request] BY <1>1
<1>3. \A j \in Call : call'[j] = IF j = k THEN c ELSE call[j] BY <1>1
<1>4. \A j \in Call : call[j].gen \in Gen BY <1>1 DEF Request
<1>5. leaving' \in Leaving /\ leaving.gen \in Gen BY <1>1 DEF TypeOK, Leaving
<1>6. \A j \in Call : call'[j].gen <= app.gen BY <1>3 DEF IInv, Ages, Told
<1>7. leaving'.gen <= app.gen BY DEF IInv, Ages
<1>8. app' = app /\ login' = login BY DEF Quiet
<1>8a. \A g \in Gen : refresh[g].pc # "saving" => refresh'[g].pc # "saving" BY JoinedIsActive
<1>9. Callers' BY <1>3, <1>5, <1>8, <1>8a DEF IInv, Callers, Told
<1>10. \A g \in Gen : Active(g) => Active(g)' BY JoinedIsActive
<1>11. Waiters' BY <1>3, <1>4, <1>5, <1>10 DEF IInv, Waiters, Told, Active
<1>12. LogoutAllOwn' BY DEF IInv, LogoutAllOwn
<1> QED BY <1>2, <1>5, <1>6, <1>7, <1>9, <1>11, <1>12, JoinStep

\* A response, or none.
LEMMA CallAnswers ==
  ASSUME IInv, NEW k \in Call, CallAnswer(k) \/ CallFailure(k)
  PROVE  IInv'
<1>1. ~reading BY Reading DEF CallAnswer, CallFailure, NoCall
<1>2. PICK c \in Request :
        /\ call' = [call EXCEPT ![k] = c] /\ c.gen = 0
        /\ c.pc \in {"idle", "delivered"} /\ c.woken = "no"
  <2>1. NoCall \in Request /\ [NoCall EXCEPT !.pc = "delivered"] \in Request
    BY Types DEF IInv, NoCall, Request, MaybeToken
  <2>2. [NoCall EXCEPT !.pc = "delivered"].gen = 0 /\ [NoCall EXCEPT !.pc = "delivered"].woken = "no"
        /\ [NoCall EXCEPT !.pc = "delivered"].pc = "delivered"
    BY DEF NoCall
  <2>3. NoCall.pc = "idle" /\ NoCall.gen = 0 /\ NoCall.woken = "no" BY DEF NoCall
  <2> QED BY <2>1, <2>2, <2>3 DEF CallAnswer, CallFailure
<1>3. Told(c) BY <1>2, Types DEF IInv, Told, Gen
<1>4. Quiet /\ UNCHANGED <<leaving, refresh>> BY DEF CallAnswer, CallFailure, Quiet
<1> QED BY <1>1, <1>2, <1>3, <1>4, CallStep

\* A request starts.
LEMMA StartCalls ==
  ASSUME IInv, NEW k \in Call, NEW get \in BOOLEAN, NEW expiring \in BOOLEAN,
         StartCall(k, get, expiring)
  PROVE  IInv'
<1> DEFINE c == [NoCall EXCEPT !.gen = app.gen, !.get = get,
                      !.pc = IF Outdated(expiring) THEN "opening" ELSE "sent",
                      !.token = IF Outdated(expiring) THEN None ELSE app.tokens]
<1>1. /\ app.shown \in Login
      /\ call' = [call EXCEPT ![k] = c]
      /\ refresh' = IF Outdated(expiring) THEN Joined ELSE refresh
      /\ Quiet /\ UNCHANGED leaving
  BY DEF StartCall, Quiet
<1>2. /\ app.gen \in Gen /\ app.tokens \in MaybeToken /\ app.gen \in Nat
      /\ app.shown \notin {"loading", "signedOut"}
  BY <1>1, Types, NoneAssumption DEF IInv
<1>3. c.gen = app.gen /\ c.get = get /\ c.woken = "no" /\ c.again = FALSE
      /\ c.pc = (IF Outdated(expiring) THEN "opening" ELSE "sent")
      /\ c.token = (IF Outdated(expiring) THEN None ELSE app.tokens)
  BY DEF NoCall
<1>4. c \in Request
  <2>1. NoCall \in Request BY Types DEF IInv, NoCall, Request, MaybeToken
  <2> QED BY <1>2, <2>1 DEF Request, MaybeToken
<1>5. ~reading BY <1>1, <1>2, Reading DEF Boot
<1>6. app.stored # None BY <1>1 DEF IInv, Fields
<1>7. Told(c)
  <2>1. Outdated(expiring) => refresh'[app.gen].pc # "none" BY <1>1, JoinedIsActive DEF Active
  <2>2. ~Outdated(expiring) => app.tokens # None BY DEF Outdated
  <2>3. ~Outdated(expiring) => app.tokens[1] = app.stored[1] BY <2>2 DEF IInv, Fields
  <2> HIDE DEF c
  <2> QED BY <1>2, <1>3, <1>6, <2>1, <2>2, <2>3 DEF Told
<1> HIDE DEF c
<1> QED BY <1>1, <1>4, <1>5, <1>6, <1>7, CallStep

\* A request that is over needs to know nothing.
LEMMA IdleTold ==
  ASSUME IInv
  PROVE  NoCall \in Request /\ Told(NoCall)
BY Types DEF IInv, NoCall, Request, MaybeToken, Told, Gen

\* A GET asks for a token again.
LEMMA ReopenedCalls ==
  ASSUME IInv, NEW k \in Call, NEW expiring \in BOOLEAN, Quiet, UNCHANGED leaving, ~reading,
         call[k].gen = app.gen, app.stored # None, Reopened(k, expiring)
  PROVE  IInv'
<1>1. /\ call \in [Call -> Request] /\ call[k] \in Request
      /\ app.tokens \in MaybeToken /\ app.gen \in Gen /\ app.gen \in Nat
  BY Types DEF IInv, TypeOK
<1>2. CASE app.error \/ (Outdated(expiring) /\ Rejected)
  BY <1>2, IdleTold, CallStep DEF Reopened
<1>3. CASE ~(app.error \/ (Outdated(expiring) /\ Rejected)) /\ Outdated(expiring)
  <2>1. refresh' = Joined /\ call' = [call EXCEPT ![k].pc = "reopening", ![k].woken = "no"]
    BY <1>3 DEF Reopened
  <2>2. PICK c : c = [call[k] EXCEPT !.pc = "reopening", !.woken = "no"] OBVIOUS
  <2>3. c \in Request /\ c.pc = "reopening" /\ c.gen = app.gen /\ c.woken = "no"
    BY <1>1, <2>2 DEF Request
  <2>4. call' = [call EXCEPT ![k] = c] BY <1>1, <2>1, <2>2
  <2>5. refresh'[app.gen].pc # "none" BY <2>1, JoinedIsActive
  <2>6. Told(c) BY <1>1, <2>3, <2>5 DEF Told
  <2> QED BY <2>1, <2>3, <2>4, <2>6, CallStep
<1>4. CASE ~(app.error \/ (Outdated(expiring) /\ Rejected)) /\ ~Outdated(expiring)
  <2>1. /\ UNCHANGED refresh
        /\ call' = [call EXCEPT ![k].pc = "sent", ![k].again = TRUE,
                                ![k].token = app.tokens, ![k].woken = "no"]
    BY <1>4 DEF Reopened
  <2>2. PICK c : c = [call[k] EXCEPT !.pc = "sent", !.again = TRUE,
                                     !.token = app.tokens, !.woken = "no"] OBVIOUS
  <2>3. c \in Request /\ c.pc = "sent" /\ c.gen = app.gen /\ c.woken = "no"
        /\ c.token = app.tokens
    BY <1>1, <2>2 DEF Request
  <2>4. call' = [call EXCEPT ![k] = c] BY <1>1, <2>1, <2>2
  <2>5. app.tokens # None BY <1>4 DEF Outdated
  <2>6. Told(c) BY <1>1, <2>3, <2>5 DEF Told, IInv, Fields
  <2> QED BY <2>1, <2>3, <2>4, <2>6, CallStep
<1> QED BY <1>2, <1>3, <1>4

\* A request is told how its refresh ended.
LEMMA ResumeCalls ==
  ASSUME IInv, NEW k \in Call, ResumeCall(k)
  PROVE  IInv'
<1>1. /\ call \in [Call -> Request] /\ call[k] \in Request
      /\ app.tokens \in MaybeToken /\ app.gen \in Gen /\ app.gen \in Nat
  BY Types DEF IInv, TypeOK
<1>2. ~reading BY Reading DEF ResumeCall, NoCall
<1>3. Quiet /\ UNCHANGED leaving /\ call[k].woken # "no" BY DEF ResumeCall, Quiet
<1> DEFINE over == call[k].woken = "fail" \/ call[k].gen # app.gen
                     \/ (call[k].pc = "renewing" /\ ~call[k].get)
<1>4. CASE over
  BY <1>2, <1>3, <1>4, IdleTold, CallStep DEF ResumeCall
<1>5. CASE ~over
  <2>1. call[k].gen = app.gen /\ call[k].woken = "ok" BY <1>1, <1>3, <1>5 DEF Request
  <2>2. app.tokens # None BY <2>1 DEF IInv, Callers
  <2>3. app.stored # None /\ app.tokens[1] = app.stored[1] BY <2>2 DEF IInv, Fields
  <2>4. CASE call[k].pc = "renewing"
    <3>1. PICK expiring \in BOOLEAN : Reopened(k, expiring) BY <1>5, <2>4 DEF ResumeCall
    <3> QED BY <1>2, <1>3, <2>1, <2>3, <3>1, ReopenedCalls
  <2>5. CASE call[k].pc # "renewing"
    <3>1. /\ UNCHANGED refresh
          /\ call' = [call EXCEPT ![k].pc = "sent", ![k].token = app.tokens, ![k].woken = "no",
                                  ![k].again = (call[k].pc = "reopening")]
      BY <1>5, <2>5 DEF ResumeCall
    <3>2. PICK c : c = [call[k] EXCEPT !.pc = "sent", !.token = app.tokens, !.woken = "no",
                                       !.again = (call[k].pc = "reopening")] OBVIOUS
    <3>3. c \in Request /\ c.pc = "sent" /\ c.gen = app.gen /\ c.woken = "no"
          /\ c.token = app.tokens
      BY <1>1, <2>1, <3>2 DEF Request
    <3>4. call' = [call EXCEPT ![k] = c] BY <1>1, <3>1, <3>2
    <3>5. Told(c) BY <1>1, <2>2, <2>3, <3>3 DEF Told
    <3> QED BY <1>2, <1>3, <3>1, <3>3, <3>4, <3>5, CallStep
  <2> QED BY <2>4, <2>5
<1> QED BY <1>4, <1>5

\* The first 401 of a request.
LEMMA CallsUnauthorized ==
  ASSUME IInv, NEW k \in Call, CallUnauthorized(k)
  PROVE  IInv'
<1>1. /\ call \in [Call -> Request] /\ call[k] \in Request
      /\ app.tokens \in MaybeToken /\ app.gen \in Gen /\ app.gen \in Nat
  BY Types DEF IInv, TypeOK
<1>2. ~reading BY Reading DEF CallUnauthorized, NoCall
<1>3. Quiet /\ UNCHANGED leaving /\ call[k].pc = "sent" /\ call[k].gen = app.gen
  BY DEF CallUnauthorized, Quiet, SameGeneration
<1>4. app.stored # None BY <1>3 DEF IInv, Callers
<1>5. CASE app.tokens # call[k].token /\ call[k].get
  <2>1. PICK expiring \in BOOLEAN : Reopened(k, expiring) BY <1>5 DEF CallUnauthorized
  <2> QED BY <1>2, <1>3, <1>4, <2>1, ReopenedCalls
<1>6. CASE app.tokens # call[k].token /\ ~call[k].get
  BY <1>2, <1>3, <1>6, IdleTold, CallStep DEF CallUnauthorized
<1>7. CASE app.tokens = call[k].token
  <2>1. refresh' = Joined /\ call' = [call EXCEPT ![k].pc = "renewing"]
    BY <1>7 DEF CallUnauthorized
  <2>2. PICK c : c = [call[k] EXCEPT !.pc = "renewing"] OBVIOUS
  <2>3. c \in Request /\ c.pc = "renewing" /\ c.gen = app.gen /\ c.woken = call[k].woken
    BY <1>1, <1>3, <2>2 DEF Request
  <2>4. call' = [call EXCEPT ![k] = c] BY <1>1, <2>1, <2>2
  <2>5. refresh'[app.gen].pc # "none" BY <2>1, JoinedIsActive
  <2>6. Told(c) BY <1>1, <1>3, <2>3, <2>5 DEF Told, IInv, Callers
  <2> QED BY <1>2, <1>3, <1>4, <2>1, <2>3, <2>4, <2>6, CallStep
<1> QED BY <1>5, <1>6, <1>7

-----------------------------------------------------------------------------
(* A new generation: Clear, logout, logoutAll, login.                      *)

\* What is newest once an answer without a token has ended the flight of the
\* current generation.
LEMMA NothingRotated ==
  ASSUME IInv, refresh[app.gen].pc = "answered", refresh[app.gen].answer # "rotated"
  PROVE  /\ app.stored # None /\ refresh[app.gen].token = app.stored
         /\ app.stored[1] \notin lost => newest[app.stored[1]] = app.stored[2]
         /\ \A i \in Ops :
              queue[i].gen = app.gen /\ queue[i].kind = "write" /\ queue[i].token[1] \notin lost =>
                newest[queue[i].token[1]] = queue[i].token[2]
         /\ disk # None /\ disk[1] = app.stored[1] /\ disk[1] \notin lost
              /\ (\A i \in Ops : queue[i].kind = "write" => queue[i].token[1] # disk[1]) =>
                newest[disk[1]] = disk[2]
<1>t. TypeOK /\ app.gen \in Gen BY Types DEF IInv
<1>1. refresh[app.gen].token = app.stored /\ app.stored # None /\ Active(app.gen)
  BY <1>t DEF IInv, Flights, Fields, Active
<1>2. app.stored \in Token BY <1>t, <1>1, Types, Tokens
<1>3. app.stored[1] \notin lost => newest[app.stored[1]] = app.stored[2]
  BY <1>t, <1>1, <1>2, Tokens DEF IInv, Newest, Reached
<1>4. \A i \in Ops : queue[i].gen = app.gen /\ queue[i].kind = "write" => queue[i].token = app.stored
  <2>1. ~Queued(app.gen, "refresh", "write") BY <1>t DEF IInv, Owing
  <2>2. \A i \in Ops : queue[i].gen = app.gen /\ queue[i].kind = "write" => queue[i].by = "login"
    BY <1>t, <2>1, Types DEF IInv, Operations, Queued, Operation
  <2> QED BY <2>2 DEF IInv, Device
<1>5. ASSUME disk # None, disk[1] = app.stored[1], disk[1] \notin lost,
             \A i \in Ops : queue[i].kind = "write" => queue[i].token[1] # disk[1]
      PROVE  newest[disk[1]] = disk[2]
  <2>1. Ops = {} BY <1>t, <1>1, <1>5, OnlyOwnWrites DEF IInv
  <2>2. queue = <<>> BY <1>t, <2>1, NothingQueued
  <2> QED BY <1>1, <1>3, <1>5, <2>2 DEF IInv, Device
<1> QED BY <1>1, <1>3, <1>4, <1>5

\* Clear, and what login() does before its await.
NewGeneration(by) ==
  /\ app'.gen = app.gen + 1 /\ app'.stored = None /\ app'.tokens = None
  /\ app'.shown = "signedOut" /\ app' \in App
  /\ queue' = Append(queue, Erase(app.gen + 1, by))
  /\ login' = IF by = "login" THEN [login EXCEPT ![app.gen + 1] = "erasing"] ELSE login

\* A new generation begins, with an operation that erases the store.
LEMMA NewGenerationStep ==
  ASSUME IInv, NEW by \in {"clear", "login"}, NewGeneration(by),
         app.gen < life.gens, by = "login" => app.gen + 1 < life.gens, reading' = FALSE,
         UNCHANGED <<server, disk, running, stray, ghosts, life>>,
         \/ refresh' = refresh
         \/ /\ refresh[app.gen].pc = "answered" /\ refresh[app.gen].answer # "rotated"
            /\ refresh' = [refresh EXCEPT ![app.gen] = NoFlight],
         call' \in [Call -> Request], \A k \in Call : call'[k].gen = call[k].gen,
         leaving' \in Leaving, leaving'.gen <= app.gen,
         leaving'.pc = "opening" <=> leaving'.woken # "no",
         leaving'.woken # "ok", leaving'.woken # "no" => refresh'[leaving'.gen].pc # "saving",
         LogoutAllOwn', Waiters'
  PROVE  IInv'
<1> USE DEF server, ghosts
<1>t. TypeOK BY DEF IInv
<1>0. /\ app.gen \in Gen /\ app.gen \in Nat /\ life.gens \in Nat /\ app.gen + 1 \in Gen
      /\ refresh \in [Gen -> Flight]
  BY <1>t, Types DEF Gen, TypeOK
<1> DEFINE e == Erase(app.gen + 1, by)
<1>1. e \in Operation /\ e.kind = "clear" /\ e.by = by /\ e.gen = app.gen + 1
      /\ e.token = None
  BY <1>0 DEF Erase, Operation, MaybeToken
<1>2. /\ app'.gen = app.gen + 1 /\ app'.stored = None /\ app'.tokens = None
      /\ app'.shown = "signedOut" /\ app' \in App
  BY DEF NewGeneration
<1>3. queue' = Append(queue, e) BY DEF NewGeneration
<1>3l. /\ login' \in [Gen -> {"none", "erasing", "sent", "saving"}]
       /\ \A g \in Gen : login'[g] = IF by = "login" /\ g = app.gen + 1 THEN "erasing"
                                     ELSE login[g]
  BY <1>t, <1>0 DEF NewGeneration, TypeOK
<1> HIDE DEF e
<1>4. /\ Len(queue') = Len(queue) + 1 /\ Ops' = Ops \cup {Len(queue) + 1}
      /\ Len(queue) + 1 \notin Ops /\ \A i \in Ops : i < Len(queue) + 1
      /\ queue'[Len(queue) + 1] = e
      /\ \A i \in Ops : queue'[i] = queue[i]
      /\ queue' \in Seq(Operation) /\ queue' # <<>>
  BY <1>t, <1>1, <1>3, Appended
<1>5. \A g \in Gen :
        \/ refresh'[g] = refresh[g]
        \/ /\ g = app.gen /\ refresh[g].pc = "answered" /\ refresh[g].answer # "rotated"
           /\ refresh'[g] = NoFlight
  BY <1>0
<1>6. refresh' \in [Gen -> Flight]
  <2>1. NoFlight \in Flight BY DEF NoFlight, Flight, MaybeToken
  <2> QED BY <1>0, <2>1
<1>7. TypeOK'
  <2>1. app' \in App /\ queue' \in Seq(Operation) BY <1>2, <1>4
  <2>2. reading' \in BOOLEAN OBVIOUS
  <2> QED BY <1>t, <1>3l, <1>6, <2>1, <2>2, KeptTypes DEF TypeOK
<1>8. Gen' = Gen BY SameTypes
<1>9. AtBoot' BY DEF AtBoot
<1>10. ~Active(app.gen + 1) /\ login[app.gen + 1] = "none" BY <1>0 DEF IInv, Ages
<1>11. ~(refresh'[app.gen + 1].pc # "none") BY <1>0, <1>5, <1>10 DEF Active
<1>11a. Ages'
  <2>1. \A g \in Gen : g > app.gen + 1 => login'[g] = "none" /\ ~(refresh'[g].pc # "none")
    BY <1>3l, <1>t, Types, <1>0, <1>5 DEF IInv, Ages, Active, NoFlight
  <2>2. \A k \in Call : call'[k].gen <= app.gen + 1
    <3>1. \A k \in Call : call[k] \in Request /\ call[k].gen \in Nat BY <1>t, Types DEF Request
    <3> QED BY <1>0, <3>1 DEF IInv, Ages
  <2>3. leaving'.gen \in Gen BY DEF Leaving
  <2>4. leaving'.gen <= app.gen + 1 BY <1>0, <2>3 DEF Gen
  <2> QED BY <1>0, <1>2, <1>3l, <1>8, <1>10, <2>1, <2>2, <2>4 DEF Ages, Active
<1>12. Fields' BY <1>t, Types, <1>0, <1>2, <1>3l, <1>8, <1>10, <1>11, NoneAssumption DEF IInv, Fields, Active
<1>13. \A i \in Ops : queue[i].gen \in Gen /\ queue[i] \in Operation /\ queue[i].gen \in Nat
  BY <1>t, Types DEF Operation
<1>14. \A i \in Ops : queue[i].by = "refresh" => refresh'[queue[i].gen] = refresh[queue[i].gen]
  BY <1>5, <1>13 DEF IInv, Operations, Owing, Queued, Operation
<1>15. Operations'
  <2>1. \A i \in Ops' :
          LET op == queue'[i] IN
          /\ op.gen <= app.gen + 1
          /\ op.kind = "clear" => op.gen > 0 /\ op.token = None /\ op.by # "refresh"
          /\ op.kind = "write" => op.token # None /\ op.by # "clear"
          /\ op.by = "clear" => login'[op.gen] = "none"
          /\ op.by = "login" /\ op.kind = "write" => op.token[2] = 1
          /\ op.by = "refresh" =>
               /\ op.token[1] = refresh'[op.gen].token[1]
               /\ op.token[2] = refresh'[op.gen].token[2] + 1
    <3> SUFFICES ASSUME NEW i \in Ops'
                 PROVE  LET op == queue'[i] IN
                        /\ op.gen <= app.gen + 1
                        /\ op.kind = "clear" => op.gen > 0 /\ op.token = None /\ op.by # "refresh"
                        /\ op.kind = "write" => op.token # None /\ op.by # "clear"
                        /\ op.by = "clear" => login'[op.gen] = "none"
                        /\ op.by = "login" /\ op.kind = "write" => op.token[2] = 1
                        /\ op.by = "refresh" =>
                             /\ op.token[1] = refresh'[op.gen].token[1]
                             /\ op.token[2] = refresh'[op.gen].token[2] + 1
      OBVIOUS
    <3>1. CASE i = Len(queue) + 1 BY <1>0, <1>1, <1>3l, <1>4, <1>10, <3>1
    <3>2. CASE i \in Ops
      <4>1. queue'[i] = queue[i] /\ queue[i].gen \in Nat /\ queue[i].gen <= app.gen
            /\ queue[i].gen \in Gen
        BY <1>4, <1>13, <3>2 DEF IInv, Operations
      <4>2. login'[queue[i].gen] = login[queue[i].gen] BY <1>0, <1>3l, <4>1
      <4> QED BY <1>0, <1>14, <3>2, <4>1, <4>2 DEF IInv, Operations
    <3> QED BY <1>4, <3>1, <3>2
  <2>2. \A i \in Ops : queue[i].gen < app.gen + 1 BY <1>0, <1>13 DEF IInv, Operations
  <2>3. Len(queue) \in Nat BY <1>t, Types
  <2>4. \A i, j \in Ops' : i < j =>
          \/ queue'[i].gen < queue'[j].gen
          \/ /\ queue'[i].gen = queue'[j].gen
             /\ queue'[i].by = "login" /\ queue'[i].kind = "write" /\ queue'[j].by = "refresh"
    BY <1>t, <1>1, <1>4, <2>2, <2>3, Types DEF IInv, Operations
  <2>5. \A i \in Ops' : queue'[i].gen # app.gen + 1 =>
          queue'[Len(queue')].gen = app.gen + 1 /\ queue'[Len(queue')].kind = "clear"
    BY <1>1, <1>4
  <2>6. \A i \in Ops' : queue'[i].gen = app.gen + 1 => queue'[i].kind = "clear"
    BY <1>0, <1>1, <1>4, <1>13, <2>2
  <2> QED BY <1>2, <1>4, <2>1, <2>4, <2>5, <2>6 DEF Operations
<1>15g. \A i \in Ops : queue[i].gen < app.gen + 1 BY <1>0, <1>13 DEF IInv, Operations
<1>16. Owing'
  <2> SUFFICES ASSUME NEW g \in Gen
               PROVE  /\ refresh'[g].pc = "saving" <=> Queued(g, "refresh", "write")'
                      /\ login'[g] = "erasing" <=> Queued(g, "login", "clear")'
                      /\ login'[g] = "saving" <=> Queued(g, "login", "write")'
    BY <1>8 DEF Owing
  <2>1. \A b, kind :
          Queued(g, b, kind)' <=>
            Queued(g, b, kind) \/ (app.gen + 1 = g /\ by = b /\ kind = "clear")
    BY <1>t, <1>1, <1>3, AppendedQueued
  <2>2. /\ refresh'[g].pc = "saving" <=> refresh[g].pc = "saving"
        /\ login'[g] = (IF by = "login" /\ g = app.gen + 1 THEN "erasing" ELSE login[g])
    BY <1>3l, <1>5 DEF NoFlight
  <2>3. /\ refresh[g].pc = "saving" <=> Queued(g, "refresh", "write")
        /\ login[g] = "erasing" <=> Queued(g, "login", "clear")
        /\ login[g] = "saving" <=> Queued(g, "login", "write")
    BY DEF IInv, Owing
  <2> QED BY <1>10, <2>1, <2>2, <2>3
<1>17. SignedOutIsErased' BY <1>1, <1>2, <1>4 DEF SignedOutIsErased
<1>18. Flights' BY <1>2, <1>5, <1>8, <1>11 DEF IInv, Flights, Active, NoFlight
<1>19. Callers' BY <1>t, <1>0, <1>2, Types DEF IInv, Callers, Ages
<1>20. Device' BY <1>0, <1>1, <1>2, <1>4 DEF IInv, Device, Operations
<1>21a. Unborn' BY DEF IInv, Unborn
<1>21. Given' BY <1>1, <1>2, <1>4, <1>5, <1>8 DEF IInv, Given, Issued, Active, Reached, NoFlight
<1>22. Apart' BY <1>1, <1>2, <1>4, <1>5, <1>8 DEF IInv, Apart, Active, NoFlight
<1>23. Newest'
  <2>1. \A g \in Gen : (refresh'[g].pc # "none") /\ refresh'[g].token[1] \notin lost =>
          newest[refresh'[g].token[1]] = Reached(refresh'[g])
    BY <1>5 DEF IInv, Newest, Active, NoFlight
  <2>2. \A g \in Gen : Active(g) /\ ~(refresh'[g].pc # "none") =>
          g = app.gen /\ refresh[g].pc = "answered" /\ refresh[g].answer # "rotated"
    BY <1>5 DEF Active
  <2>3. ASSUME NEW i \in Ops, queue[i].kind = "write", ~(refresh'[queue[i].gen].pc # "none"),
               queue[i].token[1] \notin lost
        PROVE  newest[queue[i].token[1]] = queue[i].token[2]
    <3>1. CASE ~Active(queue[i].gen) BY <2>3, <3>1 DEF IInv, Newest
    <3>2. CASE Active(queue[i].gen)
      BY <1>13, <2>2, <2>3, <3>2, NothingRotated
    <3> QED BY <3>1, <3>2
  <2>4. ASSUME disk # None, disk[1] \notin lost,
               \A g \in Gen : (refresh'[g].pc # "none") => refresh'[g].token[1] # disk[1],
               \A i \in Ops : queue[i].kind = "write" => queue[i].token[1] # disk[1]
        PROVE  newest[disk[1]] = disk[2]
    <3>1. CASE \A g \in Gen : Active(g) => refresh[g].token[1] # disk[1]
      BY <2>4, <3>1 DEF IInv, Newest
    <3>2. CASE \E g \in Gen : Active(g) /\ refresh[g].token[1] = disk[1]
      <4>1. PICK g \in Gen : Active(g) /\ refresh[g].token[1] = disk[1] BY <3>2
      <4>2. ~(refresh'[g].pc # "none") BY <1>5, <2>4, <4>1 DEF NoFlight
      <4> QED BY <2>2, <2>4, <4>1, <4>2, NothingRotated
    <3> QED BY <3>1, <3>2
  <2> QED BY <1>1, <1>2, <1>4, <1>8, <2>1, <2>3, <2>4 DEF Newest, Active, Reached
<1> QED BY <1>7, <1>9, <1>11a, <1>12, <1>15, <1>16, <1>17, <1>18, <1>19, <1>20, <1>21a, <1>21, <1>22, <1>23 DEF IInv

\* Clear, with what a caller does about its flight.
LEMMA ClearStep ==
  ASSUME IInv, Clear, app.gen < life.gens, reading' = FALSE,
         UNCHANGED <<server, login, disk, running, stray, ghosts, life>>,
         \/ refresh' = refresh
         \/ /\ refresh[app.gen].pc = "answered" /\ refresh[app.gen].answer # "rotated"
            /\ refresh' = [refresh EXCEPT ![app.gen] = NoFlight],
         call' \in [Call -> Request], \A k \in Call : call'[k].gen = call[k].gen,
         leaving' \in Leaving, leaving'.gen <= app.gen,
         leaving'.pc = "opening" <=> leaving'.woken # "no",
         leaving'.woken # "ok", leaving'.woken # "no" => refresh'[leaving'.gen].pc # "saving",
         LogoutAllOwn', Waiters'
  PROVE  IInv'
<1>1. app.gen + 1 \in Gen BY Types DEF IInv, Gen
<1>2. NewGeneration("clear") BY <1>1 DEF Clear, Cleared, App, MaybeToken, NewGeneration
<1> QED BY <1>2, NewGenerationStep

\* The state of logoutAll() after a step of it.
Parting(l) ==
  /\ l.gen <= app.gen /\ l.woken = "no"
  /\ l.pc # "none" /\ l.gen = app.gen => app.stored # None
  /\ l.pc = "opening" =>
       /\ l.gen = app.gen /\ app.shown \in Login
       /\ l.of = app.stored[1] /\ login[app.gen] # "saving"
       /\ refresh'[app.gen].pc # "none"
  /\ l.pc = "sent" => l.token[1] = l.of

\* A step of logoutAll() keeps the invariant, if it is told the truth.
LEMMA LeaveStep ==
  ASSUME IInv, Quiet, UNCHANGED call, ~reading,
         leaving' \in Leaving, Parting(leaving'),
         refresh' = refresh \/ (app.stored # None /\ refresh' = Joined)
  PROVE  IInv'
<1>1. TypeOK BY DEF IInv
<1>2. call' \in [Call -> Request] BY <1>1 DEF TypeOK
<1>3. \A k \in Call : call'[k].gen <= app.gen BY DEF IInv, Ages
<1>4. app' = app /\ login' = login BY DEF Quiet
<1>5. Callers' BY <1>4 DEF IInv, Callers, Parting
<1>6. \A g \in Gen : Active(g) => refresh'[g].pc # "none" BY JoinedIsActive DEF Active
<1>7. \A k \in Call : call[k].gen \in Gen BY <1>1, Types DEF Request
<1>8. Waiters' BY <1>6, <1>7 DEF IInv, Waiters, Active, Parting
<1>9. LogoutAllOwn' BY DEF LogoutAllOwn, Parting
<1>10. leaving'.gen <= app.gen BY DEF Parting
<1> QED BY <1>2, <1>3, <1>5, <1>8, <1>9, <1>10, JoinStep

\* A session leaves room for the generation that signs it out.
LEMMA Unbounded ==
  ASSUME IInv, app.stored # None
  PROVE  app.gen < life.gens /\ app.stored \in Token /\ app.stored[1] \in Login
<1>1. app.gen \in 0 .. life.gens /\ life.gens \in Nat /\ app.stored \in MaybeToken
  BY Types DEF IInv, Gen
<1> QED BY <1>1, Tokens DEF IInv, Ages

\* What is shown as signed in is stored.
LEMMA ShownIsStored ==
  ASSUME IInv, app.shown \in Login
  PROVE  /\ app.stored # None /\ ~reading
         /\ app.gen < life.gens /\ app.stored \in Token /\ app.stored[1] \in Login
<1>1. app.stored # None BY DEF IInv, Fields
<1>2. ~reading BY <1>1, Reading DEF Boot
<1> QED BY <1>1, <1>2, Unbounded

\* logoutAll() when it is not running.
LEMMA NotLeavingAtAll ==
  ASSUME IInv
  PROVE  NotLeaving \in Leaving /\ Parting(NotLeaving) /\ NotLeaving.pc = "none"
         /\ NotLeaving.gen = 0 /\ NotLeaving.woken = "no" /\ NotLeaving.of = None
         /\ NotLeaving.token = None
BY Types DEF IInv, NotLeaving, Leaving, MaybeToken, Parting, Gen

\* The app comes to the foreground.
LEMMA Checks ==
  ASSUME IInv, NEW expiring \in BOOLEAN, Check(expiring)
  PROVE  IInv'
<1>1. ~reading BY Reading DEF Check, Boot
<1>2. Quiet /\ UNCHANGED <<call, leaving>> /\ app.stored # None /\ refresh' = Joined
  BY DEF Check, Quiet
<1>3. call' \in [Call -> Request] /\ leaving' \in Leaving BY <1>2 DEF IInv, TypeOK
<1>4. /\ \A k \in Call : call'[k].gen <= app.gen
      /\ leaving'.gen <= app.gen
  BY <1>2 DEF IInv, Ages
<1>5. app' = app /\ login' = login BY <1>2 DEF Quiet
<1>6. Callers' /\ LogoutAllOwn' BY <1>2, <1>5 DEF IInv, Settled, Check, Callers, LogoutAllOwn
<1>7. \A g \in Gen : Active(g) => refresh'[g].pc # "none" BY <1>2, JoinedIsActive DEF Active
<1>8. leaving.gen \in Gen /\ \A k \in Call : call[k].gen \in Gen
  BY Types DEF IInv, Request, Leaving
<1>9. Waiters' BY <1>2, <1>7, <1>8 DEF IInv, Waiters, Active
<1> QED BY <1>1, <1>2, <1>3, <1>4, <1>6, <1>9, JoinStep

\* Clear by a step that has no part in a refresh and leaves the requests alone.
LEMMA PlainClear ==
  ASSUME IInv, Clear, app.gen < life.gens, reading' = FALSE,
         UNCHANGED <<server, login, refresh, call, disk, running, stray, ghosts, life>>,
         leaving' \in Leaving, leaving'.gen <= app.gen,
         leaving'.pc # "opening", leaving'.woken = "no", LogoutAllOwn'
  PROVE  IInv'
<1>1. call' \in [Call -> Request] /\ \A k \in Call : call'[k].gen = call[k].gen
  BY DEF IInv, TypeOK
<1>2. Waiters' BY DEF IInv, Waiters, Active
<1> QED BY <1>1, <1>2, ClearStep

\* Signing out of this device.
LEMMA Logouts ==
  ASSUME IInv, Logout
  PROVE  IInv'
<1>1. /\ Clear /\ app.shown \in Login /\ leaving.woken = "no"
      /\ leaving.pc # "none" => leaving.gen # app.gen
      /\ UNCHANGED <<server, reading, login, refresh, call, leaving, disk, running, stray, ghosts, life>>
  BY DEF Logout, MayLogout, Settled
<1>2. ~reading /\ app.gen < life.gens BY <1>1, ShownIsStored
<1>3. reading' = FALSE BY <1>1, <1>2 DEF IInv, TypeOK
<1>4. leaving' \in Leaving /\ leaving'.gen <= app.gen /\ LogoutAllOwn'
  BY <1>1 DEF IInv, TypeOK, Ages, LogoutAllOwn
<1>5. leaving.pc # "opening" BY <1>1 DEF IInv, Callers
<1> QED BY <1>1, <1>2, <1>3, <1>4, <1>5, PlainClear

\* The token in use is of the stored login.
LEMMA TokensAreStored ==
  ASSUME IInv, app.tokens # None
  PROVE  app.tokens \in Token /\ app.stored # None /\ app.tokens[1] = app.stored[1]
BY Types, Tokens DEF IInv, Fields

\* logoutAll() sends its request.
LEMMA Dispatched ==
  ASSUME IInv, Quiet, UNCHANGED <<call, refresh>>, ~reading,
         NEW g \in Gen, g <= app.gen, NEW of \in Login, g = app.gen => app.stored # None,
         app.tokens # None, app.tokens[1] = of,
         Dispatch(g, of, app.tokens)
  PROVE  IInv'
<1>1. leaving' = [pc |-> "sent", gen |-> g, of |-> of, token |-> app.tokens, woken |-> "no"]
  BY DEF Dispatch
<1>2. leaving' \in Leaving BY <1>1, Types DEF IInv, Leaving
<1>3. Parting(leaving') BY <1>1 DEF Parting
<1> QED BY <1>2, <1>3, LeaveStep

\* logoutAll() starts.
LEMMA LogoutsAll ==
  ASSUME IInv, NEW expiring \in BOOLEAN, LogoutAll(expiring)
  PROVE  IInv'
<1>1. /\ Settled /\ MayLogout /\ leaving.pc = "none" /\ app.shown \in Login
      /\ UNCHANGED <<server, reading, login, call, disk, running, stray, ghosts, life>>
  BY DEF LogoutAll, MayLogout
<1>2. /\ app.stored # None /\ ~reading /\ app.gen < life.gens
      /\ app.stored \in Token /\ app.stored[1] \in Login
  BY <1>1, ShownIsStored
<1>3. app.gen \in Gen /\ app.gen \in Nat BY Types DEF IInv
<1> DEFINE bare == app.error \/ (Outdated(expiring) /\ Rejected)
<1>4. CASE bare
  <2>1. Clear /\ UNCHANGED <<refresh, leaving>> BY <1>4 DEF LogoutAll
  <2>2. leaving' \in Leaving /\ leaving'.gen <= app.gen /\ LogoutAllOwn' /\ leaving'.woken = "no"
        /\ leaving'.pc # "opening"
    BY <1>1, <2>1 DEF IInv, TypeOK, Ages, LogoutAllOwn, Settled
  <2>3. reading' = FALSE BY <1>1, <1>2 DEF IInv, TypeOK
  <2> QED BY <1>1, <1>2, <2>1, <2>2, <2>3, PlainClear
<1>5. CASE ~bare /\ Outdated(expiring)
  <2>1. PICK l : l = [NotLeaving EXCEPT !.pc = "opening", !.gen = app.gen, !.of = app.stored[1]]
    OBVIOUS
  <2>2. leaving' = l /\ refresh' = Joined /\ UNCHANGED <<app, queue>>
    BY <1>5, <2>1 DEF LogoutAll
  <2>3. /\ l \in Leaving /\ l.pc = "opening" /\ l.gen = app.gen /\ l.of = app.stored[1]
        /\ l.woken = "no"
    BY <1>2, <1>3, <2>1, NotLeavingAtAll DEF Leaving
  <2>4. refresh'[app.gen].pc # "none" BY <2>2, JoinedIsActive
  <2>5. login[app.gen] # "saving" BY <1>1, <1>5 DEF IInv, Fields
  <2>6. Parting(l) BY <1>1, <1>2, <1>3, <2>3, <2>4, <2>5 DEF Parting
  <2>7. Quiet BY <1>1, <2>2 DEF Quiet, store
  <2> QED BY <1>1, <1>2, <2>2, <2>3, <2>6, <2>7, LeaveStep
<1>6. CASE ~bare /\ ~Outdated(expiring)
  <2>1. Dispatch(app.gen, app.stored[1], app.tokens) /\ UNCHANGED <<refresh, app, queue>>
    BY <1>6 DEF LogoutAll
  <2>2. app.tokens # None BY <1>6 DEF Outdated
  <2>3. Quiet BY <1>1, <2>1 DEF Quiet, store
  <2> QED BY <1>1, <1>2, <1>3, <2>1, <2>2, <2>3, TokensAreStored, Dispatched
<1> QED BY <1>4, <1>5, <1>6

\* logoutAll() ends, and clears what is still of its generation.
LEMMA LeavingEnds ==
  ASSUME IInv, leaving.pc # "none", ClearIfCurrent(leaving.gen), leaving' = NotLeaving,
         UNCHANGED <<server, reading, login, refresh, call, disk, running, stray, ghosts, life>>
  PROVE  IInv'
<1>1. ~reading BY Reading DEF NotLeaving
<1>2. CASE leaving.gen # app.gen
  <2>1. Quiet BY <1>2 DEF ClearIfCurrent, Quiet, store
  <2> QED BY <1>1, <2>1, LeaveStep, NotLeavingAtAll
<1>3. CASE leaving.gen = app.gen
  <2>1. Clear BY <1>3 DEF ClearIfCurrent
  <2>2. app.gen < life.gens BY <1>3, Unbounded DEF IInv, Callers
  <2>3. leaving' \in Leaving /\ leaving'.gen <= app.gen /\ LogoutAllOwn' /\ leaving'.woken = "no"
        /\ leaving'.pc # "opening"
    BY NotLeavingAtAll DEF Parting, LogoutAllOwn
  <2>4. reading' = FALSE BY <1>1 DEF IInv, TypeOK
  <2> QED BY <2>1, <2>2, <2>3, <2>4, PlainClear
<1> QED BY <1>2, <1>3

\* logoutAll() is answered, or given up.
LEMMA LogoutAllsEnd ==
  ASSUME IInv, LogoutAllEnds
  PROVE  IInv'
BY LeavingEnds DEF LogoutAllEnds

\* logoutAll() is told how its refresh ended.
LEMMA LogoutAllResumes ==
  ASSUME IInv, ResumeLogoutAll
  PROVE  IInv'
<1>1. /\ leaving.woken # "no"
      /\ UNCHANGED <<server, reading, login, refresh, call, disk, running, stray, ghosts, life>>
  BY DEF ResumeLogoutAll
<1>2. leaving.pc = "opening" BY <1>1 DEF IInv, Callers
<1>3. CASE leaving.woken = "ok" /\ app.tokens # None
  <2>1. Dispatch(leaving.gen, leaving.of, app.tokens) /\ UNCHANGED <<app, queue>>
    BY <1>3 DEF ResumeLogoutAll
  <2>2. leaving.gen = app.gen /\ app.tokens[1] = leaving.of BY <1>3 DEF IInv, Callers
  <2>3. app.tokens \in Token /\ app.stored # None BY <1>3, TokensAreStored
  <2>4. leaving.of \in Login BY <2>2, <2>3, Tokens
  <2>5. ~reading BY <1>2, Reading DEF NotLeaving
  <2>6. app.gen \in Gen /\ app.gen <= app.gen BY Types DEF IInv
  <2>7. Quiet BY <1>1, <2>1 DEF Quiet, store
  <2> QED BY <1>1, <1>3, <2>1, <2>2, <2>3, <2>4, <2>5, <2>6, <2>7, Dispatched
<1>4. CASE ~(leaving.woken = "ok" /\ app.tokens # None)
  <2>1. ClearIfCurrent(leaving.gen) /\ leaving' = NotLeaving BY <1>4 DEF ResumeLogoutAll
  <2> QED BY <1>1, <1>2, <2>1, LeavingEnds
<1> QED BY <1>3, <1>4

\* Steps that change what is shown, or end a login that has not been answered.
LEMMA MoodStep ==
  ASSUME IInv, ~reading, UNCHANGED <<server, reading, refresh, call, leaving, store, stray, ghosts, life>>,
         app' \in App, UNCHANGED <<app.gen, app.stored, app.tokens>>,
         \/ app'.shown = app.shown
         \/ app'.shown = "signedOut" /\ app.stored = None /\ app.gen > 0,
         app.error => app'.error,
         \/ login' = login
         \/ \E h \in Gen : login[h] = "sent" /\ login' = [login EXCEPT ![h] = "none"]
  PROVE  IInv'
<1> USE DEF server, store, ghosts
<1>t. TypeOK BY DEF IInv
<1>0. app.gen \in Gen /\ login \in [Gen -> {"none", "erasing", "sent", "saving"}]
  BY <1>t, Types DEF TypeOK
<1>1. /\ login' \in [Gen -> {"none", "erasing", "sent", "saving"}]
      /\ \A g \in Gen : login'[g] = login[g] \/ (login[g] = "sent" /\ login'[g] = "none")
  BY <1>0
<1>2. TypeOK' BY <1>t, <1>1, KeptTypes DEF TypeOK
<1>3. Gen' = Gen /\ Ops' = Ops BY SameTypes DEF Ops
<1>4. Ages' BY <1>0, <1>1, <1>3 DEF IInv, Ages, Active
<1>5. AtBoot' BY DEF AtBoot
<1>6. Fields' BY <1>0, <1>1, <1>3, NoneAssumption DEF IInv, Fields, Active
<1>7. \A i \in Ops : queue[i].gen \in Gen BY <1>t, Types DEF Operation
<1>8. Operations' BY <1>1, <1>3, <1>7 DEF IInv, Operations
<1>9. Owing' BY <1>1, <1>3 DEF IInv, Owing, Queued
<1>10. Waiters' BY DEF IInv, Waiters, Active
<1>11. SignedOutIsErased' BY <1>3 DEF IInv, SignedOutIsErased
<1>12. Flights' BY <1>3 DEF IInv, Flights, Active
<1>13. Callers' BY <1>0, <1>1, NoneAssumption DEF IInv, Callers
<1>14. LogoutAllOwn' BY DEF IInv, LogoutAllOwn
<1>15. Device' BY <1>3 DEF IInv, Device
<1>16a. Unborn' BY DEF IInv, Unborn
<1>16. Given' BY <1>3 DEF IInv, Given, Issued, Active, Reached
<1>17. Apart' BY <1>3 DEF IInv, Apart, Active
<1>18. Newest' BY <1>3 DEF IInv, Newest, Active, Reached
<1> QED BY <1>2, <1>4, <1>5, <1>6, <1>8, <1>9, <1>10, <1>11, <1>12, <1>13, <1>14, <1>15, <1>16a, <1>16,
           <1>17, <1>18 DEF IInv

\* The server may be asked again.
LEMMA WaitsOver ==
  ASSUME IInv, WaitOver
  PROVE  IInv'
<1>1. ~reading BY Reading DEF WaitOver, Boot
<1>2. app \in App BY DEF IInv, TypeOK
<1>3. app' = [app EXCEPT !.throttled = FALSE] BY DEF WaitOver
<1>4. /\ app' \in App /\ app'.gen = app.gen /\ app'.stored = app.stored /\ app'.tokens = app.tokens
      /\ app'.shown = app.shown /\ app'.error = app.error
  BY <1>2, <1>3 DEF App
<1>5. UNCHANGED <<server, reading, login, refresh, call, leaving, store, stray, ghosts, life>>
  BY DEF WaitOver
<1> QED BY <1>1, <1>4, <1>5, MoodStep

\* A login fails.
LEMMA LoginFails ==
  ASSUME IInv, NEW g \in Gen, LoginFailure(g)
  PROVE  IInv'
<1>1. login[g] = "sent" BY DEF LoginFailure
<1>2. ~reading BY <1>1 DEF IInv, AtBoot
<1>3. app \in App BY DEF IInv, TypeOK
<1>4. /\ app' = (IF g = app.gen THEN [app EXCEPT !.shown = "signedOut", !.error = TRUE] ELSE app)
      /\ login' = [login EXCEPT ![g] = "none"]
      /\ UNCHANGED <<server, reading, refresh, call, leaving, store, stray, ghosts, life>>
  BY DEF LoginFailure
<1>5. /\ app' \in App /\ app'.gen = app.gen /\ app'.stored = app.stored /\ app'.tokens = app.tokens
      /\ app'.shown = app.shown \/ (app'.shown = "signedOut" /\ g = app.gen)
      /\ app.error => app'.error
  BY <1>3, <1>4 DEF App
<1>6. g = app.gen => app.stored = None /\ app.gen > 0 BY <1>1 DEF IInv, Fields
<1> QED BY <1>1, <1>2, <1>4, <1>5, <1>6, MoodStep

\* A login starts.
LEMMA LoginsStart ==
  ASSUME IInv, StartLogin
  PROVE  IInv'
<1>0. app.gen \in Gen /\ app \in App /\ life.gens \in Nat /\ app.gen \in Nat BY Types DEF IInv, TypeOK
<1>1. /\ app.shown = "signedOut" /\ app.gen + 2 <= life.gens /\ leaving.woken = "no"
      /\ app' = [app EXCEPT !.gen = app.gen + 1, !.stored = None, !.tokens = None, !.error = FALSE]
      /\ login' = [login EXCEPT ![app.gen + 1] = "erasing"]
      /\ queue' = Append(queue, Erase(app.gen + 1, "login"))
      /\ UNCHANGED <<server, reading, refresh, call, leaving, disk, running, stray, ghosts, life>>
  BY DEF StartLogin, Settled
<1>2. app.gen + 1 \in Gen /\ app.gen < life.gens /\ app.gen + 1 < life.gens BY <1>0, <1>1 DEF Gen
<1>3. NewGeneration("login") BY <1>0, <1>1, <1>2 DEF NewGeneration, App, MaybeToken
<1>4. reading' = FALSE BY <1>1, Reading DEF Boot, IInv, TypeOK
<1>5. leaving.pc # "opening" BY <1>1, NoneAssumption DEF IInv, Callers
<1>6. call' \in [Call -> Request] /\ \A k \in Call : call'[k].gen = call[k].gen
  BY <1>1 DEF IInv, TypeOK
<1>7. leaving' \in Leaving /\ leaving'.gen <= app.gen /\ LogoutAllOwn' /\ Waiters'
  BY <1>1 DEF IInv, TypeOK, Ages, LogoutAllOwn, Waiters, Active
<1> QED BY <1>1, <1>2, <1>3, <1>4, <1>5, <1>6, <1>7, NewGenerationStep

\* The stored session is read.
LEMMA Restores ==
  ASSUME IInv, Restored
  PROVE  IInv'
<1>0. /\ reading /\ reading' = FALSE
      /\ UNCHANGED <<server, disk, running, login, call, leaving, stray, ghosts, life>>
  BY DEF Restored
<1>1. /\ app = Boot /\ queue = <<>> /\ call = NoCalls /\ leaving = NotLeaving
      /\ \A g \in Gen : login[g] = "none" /\ ~Active(g)
  BY <1>0 DEF IInv, AtBoot
<1>b. /\ app.gen = 0 /\ app.stored = None /\ app.tokens = None /\ app.shown = "loading"
      /\ app.error = FALSE
  BY <1>1 DEF Boot
<1>t. TypeOK /\ app \in App /\ refresh \in [Gen -> Flight] BY DEF IInv, TypeOK
<1>2. 0 \in Gen /\ life.gens \in Nat \ {0} BY <1>t, Types
<1>3. CASE Clear /\ UNCHANGED refresh
  <2>1. app.gen < life.gens BY <1>b, <1>2
  <2>2. leaving' \in Leaving /\ leaving'.gen <= app.gen /\ LogoutAllOwn'
        /\ leaving'.woken = "no" /\ leaving'.pc # "opening"
    BY <1>0, <1>1, <1>b, NotLeavingAtAll DEF LogoutAllOwn, IInv, Parting
  <2> QED BY <1>0, <1>3, <2>1, <2>2, PlainClear
<1>4. CASE ~(Clear /\ UNCHANGED refresh)
  <2>1. /\ disk # None /\ app' = [app EXCEPT !.stored = disk] /\ queue' = queue
        /\ refresh' = [refresh EXCEPT ![0] = [pc |-> "sent", token |-> disk, answer |-> "none"]]
    BY <1>4 DEF Restored
  <2>2. disk \in MaybeToken /\ disk \in Token BY <1>t, <2>1, Tokens DEF TypeOK
  <2>3. /\ app' \in App /\ app'.gen = 0 /\ app'.stored = disk /\ app'.tokens = None
        /\ app'.shown = "loading" /\ app'.error = FALSE
    BY <1>t, <1>b, <2>1, <2>2 DEF App
  <2>4. \A g \in Gen :
          IF g = 0 THEN /\ refresh'[g].pc = "sent" /\ refresh'[g].token = disk
                        /\ refresh'[g].answer = "none"
          ELSE refresh'[g] = refresh[g]
    BY <1>t, <2>1
  <2>5. refresh' \in [Gen -> Flight]
    <3>1. [pc |-> "sent", token |-> disk, answer |-> "none"] \in Flight BY <2>2 DEF Flight
    <3> QED BY <1>t, <2>1, <3>1
  <2>6. TypeOK' BY <1>t, <1>0, <2>1, <2>3, <2>5, KeptTypes DEF TypeOK, server, ghosts
  <2>7. Gen' = Gen /\ Ops' = {} BY <1>0, <1>1, <2>1, SameTypes DEF Ops
  <2>8. Ages' /\ AtBoot'
    BY <1>t, <1>0, <1>b, <1>1, <1>2, <2>3, <2>4, <2>7, Types DEF IInv, Ages, AtBoot, Active
  <2>9. Fields' BY <1>0, <1>1, <1>2, <2>1, <2>3, <2>7, NoneAssumption DEF IInv, Fields
  <2>10. Operations' /\ SignedOutIsErased'
    BY <1>0, <1>1, <2>1, <2>3, <2>7 DEF IInv, Operations, SignedOutIsErased
  <2>11. Owing' BY <1>0, <1>1, <2>4, <2>7 DEF Owing, Queued, Active
  <2>12. Waiters' /\ LogoutAllOwn' /\ Callers'
    BY <1>0, <1>1, <2>3 DEF Waiters, LogoutAllOwn, Callers, NoCalls, NoCall, NotLeaving
  <2>13. Flights' BY <1>1, <2>1, <2>3, <2>4, <2>7 DEF Flights, Active
  <2>14. Device' BY <2>1, <2>3, <2>7, <1>0 DEF Device
  <2>15a. Unborn' BY <1>0 DEF IInv, Unborn, server
  <2>15. Given'
    BY <1>0, <1>1, <1>t, <2>2, <2>1, <2>3, <2>4, <2>7, Types, Tokens DEF IInv, Given, Issued, Active, Reached, server, ghosts
  <2>16. Apart' BY <1>1, <2>3, <2>4, <2>7 DEF Apart, Active
  <2>17. Ops = {} BY <1>1 DEF Ops
  <2>18. disk[1] \notin lost => newest[disk[1]] = disk[2]
    BY <1>1, <2>1, <2>17 DEF IInv, Newest
  <2>19. Newest'
    BY <1>0, <1>1, <1>2, <2>2, <2>3, <2>4, <2>7, <2>18, Tokens DEF Newest, Active, Reached, server, ghosts
  <2> QED BY <2>6, <2>8, <2>9, <2>10, <2>11, <2>12, <2>13, <2>14, <2>15a, <2>15, <2>16, <2>19 DEF IInv
<1> QED BY <1>3, <1>4

-----------------------------------------------------------------------------
(* The server.                                                             *)

\* What the server does with a token, and answers.
LEMMA Exchanges ==
  ASSUME TypeOK, NEW t \in Token, NEW answer \in Reply, Exchanged(t, answer)
  PROVE  /\ family' \in [Login -> {"none", "open", "closed"}]
         /\ newest' \in [Login -> 0 .. MaxToken + 1]
         /\ \A s \in Login : s # t[1] => newest'[s] = newest[s]
         /\ IF answer = "rotated"
            THEN newest[t[1]] = t[2] /\ newest'[t[1]] = t[2] + 1
            ELSE newest' = newest
         /\ \A s \in Login : family'[s] = "none" => family[s] = "none" /\ newest'[s] = newest[s]
<1>1. /\ family \in [Login -> {"none", "open", "closed"}]
      /\ newest \in [Login -> 0 .. MaxToken + 1] /\ t[1] \in Login /\ t[2] \in Nat
      /\ MaxToken \in Nat
  BY Tokens, BoundAssumption DEF TypeOK
<1>2. CASE newest[t[1]] = t[2] /\ t[2] <= MaxToken /\ Server!Exchange(t[1]) /\ answer = "rotated"
  <2>1. /\ newest' = [newest EXCEPT ![t[1]] = newest[t[1]] + 1] /\ family' = family /\ family[t[1]] = "open"
    BY <1>2 DEF Server!Exchange
  <2> QED BY <1>1, <1>2, <2>1
<1>3. CASE (Server!Close({t[1]}) \/ UNCHANGED server) /\ answer = "unauthenticated"
  <2>1. newest' = newest BY <1>3 DEF Server!Close, server
  <2>2. /\ family' \in [Login -> {"none", "open", "closed"}]
        /\ \A s \in Login : family'[s] = "none" => family[s] = "none"
    BY <1>1, <1>3 DEF Server!Close, server
  <2> QED BY <1>1, <1>3, <2>1, <2>2
<1>4. CASE answer \in {"unauthenticated", "limited"} /\ UNCHANGED server
  BY <1>1, <1>4 DEF server
<1> QED BY <1>2, <1>3, <1>4 DEF Exchanged

\* The server works on one request for a refresh.
LEMMA ServesRefresh ==
  ASSUME IInv, NEW g \in Gen, ServeRefresh(g)
  PROVE  IInv'
<1>t. TypeOK /\ refresh \in [Gen -> Flight] /\ refresh[g] \in Flight BY DEF IInv, TypeOK
<1> DEFINE t == refresh[g].token
<1>0. /\ refresh[g].pc = "sent" /\ Active(g) /\ refresh[g].answer = "none"
      /\ UNCHANGED <<app, reading, login, call, leaving, disk, queue, running, stray, lost, uncleared, life>>
  BY DEF ServeRefresh, Active, store, ghosts, IInv, Flights
<1>1. PICK answer \in Reply :
        /\ Exchanged(t, answer)
        /\ refresh' = [refresh EXCEPT ![g].pc = "answered", ![g].answer = answer]
  BY DEF ServeRefresh
<1>2. t \in Token BY <1>t, <1>0, Tokens DEF IInv, Flights, Flight
<1>3. /\ family' \in [Login -> {"none", "open", "closed"}]
      /\ newest' \in [Login -> 0 .. MaxToken + 1]
      /\ \A s \in Login : s # t[1] => newest'[s] = newest[s]
      /\ IF answer = "rotated"
         THEN newest[t[1]] = t[2] /\ newest'[t[1]] = t[2] + 1
         ELSE newest' = newest
      /\ \A s \in Login : family'[s] = "none" => family[s] = "none" /\ newest'[s] = newest[s]
  BY <1>t, <1>1, <1>2, Exchanges
<1>4. refresh' \in [Gen -> Flight]
      /\ \A h \in Gen :
           IF h = g THEN /\ refresh'[h].pc = "answered" /\ refresh'[h].token = t
                         /\ refresh'[h].answer = answer
           ELSE refresh'[h] = refresh[h]
  <2>1. PICK f : f = [refresh[g] EXCEPT !.pc = "answered", !.answer = answer] OBVIOUS
  <2>2. f \in Flight /\ f.pc = "answered" /\ f.token = t /\ f.answer = answer
    BY <1>t, <2>1 DEF Flight
  <2>3. refresh' = [refresh EXCEPT ![g] = f] BY <1>t, <1>1, <2>1
  <2> QED BY <1>t, <2>2, <2>3
<1> HIDE DEF t
<1>5. TypeOK' BY <1>t, <1>0, <1>3, <1>4, KeptTypes DEF TypeOK
<1>6. Gen' = Gen /\ Ops' = Ops BY <1>0, SameTypes DEF Ops
<1>7. refresh[g].token = t BY DEF t
<1>8. \A h \in Gen : /\ Active(h)' <=> Active(h)
                     /\ refresh'[h].token = refresh[h].token
                     /\ refresh'[h].pc = "saving" <=> refresh[h].pc = "saving"
  BY <1>0, <1>4, <1>7 DEF Active
<1>9. \A s \in Login : newest'[s] >= newest[s] /\ newest[s] \in Nat /\ newest'[s] \in Nat
  BY <1>t, <1>2, <1>3, Types, Tokens
<1>10. app.gen \in Gen /\ \A i \in Ops : queue[i].gen \in Gen
  BY <1>t, Types DEF Operation
<1>11. Ages' /\ AtBoot'
  BY <1>0, <1>6, <1>8 DEF IInv, Ages, AtBoot, NoCalls
<1>12. Fields' BY <1>0, <1>6, <1>8, <1>10 DEF IInv, Fields
<1>13. Operations' BY <1>0, <1>6, <1>8, <1>10 DEF IInv, Operations
<1>14. Owing' BY <1>0, <1>6, <1>8 DEF IInv, Owing, Queued
<1>15. Waiters'
  <2>1. leaving.gen \in Gen /\ \A k \in Call : call[k].gen \in Gen
    BY <1>t, Types DEF Request, Leaving
  <2> QED BY <1>0, <1>8, <2>1 DEF IInv, Waiters
<1>16. SignedOutIsErased' BY <1>0, <1>6 DEF IInv, SignedOutIsErased
<1>17. Flights' BY <1>0, <1>1, <1>4, <1>6, <1>7, <1>8 DEF IInv, Flights, Reply
<1>18. Callers' /\ LogoutAllOwn' BY <1>t, <1>0, <1>8, Types DEF Leaving, IInv, Callers, LogoutAllOwn
<1>19. Device' BY <1>0, <1>6, <1>8, <1>10 DEF IInv, Device
<1>20. \A u \in MaybeToken : Issued(u) => Issued(u)' BY <1>9, Tokens DEF Issued
<1>21. \A h \in Gen : Active(h) => refresh[h].token \in Token /\ refresh[h].token[1] \in Login
  BY <1>t, Types, Tokens DEF IInv, Flights, Flight
<1>22a. Unborn' BY <1>3 DEF IInv, Unborn
<1>22. Given'
  <2>1. Issued(disk)' /\ Issued(app.stored)' /\ \A i \in Ops : Issued(queue[i].token)'
    BY <1>t, <1>0, <1>20, Types DEF IInv, Given, Operation, TypeOK
  <2>2. \A m \in stray : Issued(m)' /\ m[1] \in lost
    BY <1>t, <1>20 DEF IInv, Given, TypeOK, MaybeToken
  <2>3. \A s \in lost : newest'[s] >= 1 BY <1>t, <1>9 DEF IInv, Given, TypeOK
  <2>4. ASSUME NEW h \in Gen, Active(h)
        PROVE  newest'[refresh'[h].token[1]] >= Reached(refresh'[h])
    <3>1. CASE h = g BY <1>0, <1>2, <1>3, <1>4, <1>7, <1>9, <3>1, Tokens DEF Reached, IInv, Given
    <3>2. CASE h # g
      <4>1. refresh'[h] = refresh[h] BY <1>4, <3>2
      <4>2. newest[refresh[h].token[1]] >= Reached(refresh[h]) BY <2>4 DEF IInv, Given
      <4>3. Reached(refresh[h]) \in Nat BY <1>21, <2>4, Tokens DEF Reached
      <4> QED BY <1>9, <1>21, <2>4, <4>1, <4>2, <4>3
    <3> QED BY <3>1, <3>2
  <2> QED BY <1>0, <1>6, <1>8, <2>1, <2>2, <2>3, <2>4 DEF Given, Issued, Reached
<1>23. Apart' BY <1>0, <1>6, <1>8 DEF IInv, Apart
<1>24. Newest'
  <2>1. ASSUME NEW h \in Gen, Active(h), refresh'[h].token[1] \notin lost
        PROVE  newest'[refresh'[h].token[1]] = Reached(refresh'[h])
    <3>1. CASE h = g
      <4>1. newest[t[1]] = t[2] BY <1>0, <1>2, <1>7, <1>8, <2>1, <3>1, Tokens DEF IInv, Newest, Reached
      <4> QED BY <1>2, <1>3, <1>4, <3>1, <4>1, Tokens DEF Reached
    <3>2. CASE h # g
      <4>1. refresh'[h] = refresh[h] /\ refresh[h].token[1] # t[1]
        BY <1>0, <1>4, <1>7, <2>1, <3>2 DEF IInv, Apart
      <4> QED BY <1>3, <1>21, <2>1, <4>1 DEF IInv, Newest
    <3> QED BY <3>1, <3>2
  <2>2. ASSUME app.stored # None, ~Active(app.gen), app.stored[1] \notin lost
        PROVE  newest'[app.stored[1]] = app.stored[2]
    <3>1. app.stored[1] # t[1] BY <1>0, <1>7, <2>2 DEF IInv, Apart
    <3>2. app.stored[1] \in Login BY <1>t, <2>2, Types, Tokens
    <3> QED BY <1>3, <2>2, <3>1, <3>2 DEF IInv, Newest
  <2>3. ASSUME NEW i \in Ops, queue[i].kind = "write", ~Active(queue[i].gen),
               queue[i].token[1] \notin lost
        PROVE  newest'[queue[i].token[1]] = queue[i].token[2]
    <3>1. queue[i].token[1] # t[1] BY <1>0, <1>7, <2>3 DEF IInv, Apart
    <3>2. queue[i].token[1] \in Login BY <1>t, <2>3, Types, Tokens DEF IInv, Operations, Operation
    <3> QED BY <1>3, <2>3, <3>1, <3>2 DEF IInv, Newest
  <2>4. ASSUME disk # None, disk[1] \notin lost,
               \A h \in Gen : Active(h) => refresh[h].token[1] # disk[1],
               \A i \in Ops : queue[i].kind = "write" => queue[i].token[1] # disk[1]
        PROVE  newest'[disk[1]] = disk[2]
    <3>1. disk[1] # t[1] /\ disk[1] \in Login BY <1>t, <1>0, <1>7, <2>4, Tokens DEF TypeOK
    <3> QED BY <1>3, <2>4, <3>1 DEF IInv, Newest
  <2> QED BY <1>0, <1>6, <1>8, <1>10, <2>1, <2>2, <2>3, <2>4 DEF Newest, Reached
<1> QED BY <1>5, <1>11, <1>12, <1>13, <1>14, <1>15, <1>16, <1>17, <1>18, <1>19, <1>22a, <1>22, <1>23,
           <1>24 DEF IInv

\* Steps of the world outside the app that concern lost logins only.
LEMMA LossyStep ==
  ASSUME IInv,
         UNCHANGED <<app, reading, login, call, leaving, store, uncleared, life>>,
         family' \in [Login -> {"none", "open", "closed"}],
         newest' \in [Login -> 0 .. MaxToken + 1],
         \A s \in Login : newest'[s] >= newest[s] /\ (s \notin lost => newest'[s] = newest[s]),
         \A s \in Login : family'[s] = "none" => family[s] = "none" /\ newest'[s] = newest[s],
         lost \subseteq lost', lost' \subseteq Login, \A s \in lost' : s \in lost \/ newest[s] >= 1,
         stray' \subseteq stray,
         refresh' \in [Gen -> Flight],
         \A h \in Gen : \/ refresh'[h] = refresh[h]
                        \/ /\ refresh[h].pc = "answered" /\ refresh[h].token[1] \in lost'
                           /\ refresh'[h].pc = "sent" /\ refresh'[h].token = refresh[h].token
                           /\ refresh'[h].answer = "none"
  PROVE  IInv'
<1> USE DEF store
<1>t. TypeOK BY DEF IInv
<1>1. TypeOK' BY <1>t, KeptTypes DEF TypeOK
<1>2. Gen' = Gen /\ Ops' = Ops BY SameTypes DEF Ops
<1>3. \A h \in Gen : /\ Active(h)' <=> Active(h)
                     /\ refresh'[h].token = refresh[h].token
                     /\ refresh'[h].pc = "saving" <=> refresh[h].pc = "saving"
  BY DEF Active
<1>4. app.gen \in Gen /\ \A i \in Ops : queue[i].gen \in Gen BY <1>t, Types DEF Operation
<1>5. \A s \in Login : newest[s] \in Nat /\ newest'[s] \in Nat BY <1>t, Types, Tokens, BoundAssumption
<1>6. \A u \in MaybeToken : Issued(u) => Issued(u)' BY <1>5, Tokens DEF Issued
<1>7. Ages' /\ AtBoot' BY <1>2, <1>3 DEF IInv, Ages, AtBoot, NoCalls
<1>8. Fields' BY <1>2, <1>3, <1>4 DEF IInv, Fields
<1>9. Operations' BY <1>2, <1>3, <1>4 DEF IInv, Operations
<1>10. Owing' BY <1>2, <1>3 DEF IInv, Owing, Queued
<1>11. Waiters'
  <2>1. leaving.gen \in Gen /\ \A k \in Call : call[k].gen \in Gen
    BY <1>t, Types DEF Request, Leaving
  <2> QED BY <1>3, <2>1 DEF IInv, Waiters
<1>12. SignedOutIsErased' BY <1>2 DEF IInv, SignedOutIsErased
<1>13. Flights' BY <1>2, <1>3 DEF IInv, Flights
<1>14. Callers' /\ LogoutAllOwn' BY <1>t, <1>3, Types DEF Leaving, IInv, Callers, LogoutAllOwn
<1>15. Device' BY <1>2, <1>3, <1>4 DEF IInv, Device
<1>16. \A h \in Gen : Active(h) => refresh[h].token \in Token /\ refresh[h].token[1] \in Login
  BY <1>t, Types, Tokens DEF IInv, Flights, Flight
<1>17a. Unborn' BY DEF IInv, Unborn
<1>17. Given'
  <2>1. Issued(disk)' /\ Issued(app.stored)' /\ \A i \in Ops : Issued(queue[i].token)'
    BY <1>t, <1>6, Types DEF IInv, Given, Operation, TypeOK
  <2>2. \A m \in stray' : Issued(m)' /\ m[1] \in lost'
    BY <1>t, <1>6 DEF IInv, Given, TypeOK, MaybeToken
  <2>3. \A s \in lost' : newest'[s] >= 1 BY <1>t, <1>5 DEF IInv, Given, TypeOK
  <2>4. ASSUME NEW h \in Gen, Active(h)
        PROVE  newest'[refresh'[h].token[1]] >= Reached(refresh'[h])
    <3>1. newest[refresh[h].token[1]] >= Reached(refresh[h]) BY <2>4 DEF IInv, Given
    <3>2. refresh[h].token[2] \in Nat BY <1>16, <2>4, Tokens
    <3>3. Reached(refresh'[h]) <= Reached(refresh[h]) /\ Reached(refresh[h]) \in Nat
          /\ Reached(refresh'[h]) \in Nat
      BY <3>2 DEF Reached
    <3> QED BY <1>3, <1>5, <1>16, <2>4, <3>1, <3>3
  <2> QED BY <1>2, <1>3, <2>1, <2>2, <2>3, <2>4 DEF Given, Issued, Reached
<1>18. Apart' BY <1>2, <1>3 DEF IInv, Apart
<1>19. Newest'
  <2>1. ASSUME NEW h \in Gen, Active(h), refresh'[h].token[1] \notin lost'
        PROVE  newest'[refresh'[h].token[1]] = Reached(refresh'[h])
    <3>1. refresh'[h] = refresh[h] BY <2>1
    <3> QED BY <1>16, <2>1, <3>1 DEF IInv, Newest
  <2>2. app.stored # None => app.stored[1] \in Login BY <1>t, Types, Tokens
  <2>3. \A i \in Ops : queue[i].kind = "write" => queue[i].token[1] \in Login
    BY <1>t, Types, Tokens DEF IInv, Operations, Operation
  <2>4. disk # None => disk[1] \in Login BY <1>t, Tokens DEF TypeOK
  <2> QED BY <1>2, <1>3, <1>4, <2>1, <2>2, <2>3, <2>4 DEF IInv, Newest, Reached
<1> QED BY <1>1, <1>7, <1>8, <1>9, <1>10, <1>11, <1>12, <1>13, <1>14, <1>15, <1>17a, <1>17, <1>18, <1>19
     DEF IInv

\* An answer is lost and the request sent again.
LEMMA ResendsRefresh ==
  ASSUME IInv, NEW g \in Gen, ResendRefresh(g)
  PROVE  IInv'
<1>t. TypeOK /\ refresh \in [Gen -> Flight] /\ refresh[g] \in Flight BY DEF IInv, TypeOK
<1>1. /\ refresh[g].pc = "answered" /\ Active(g)
      /\ refresh' = [refresh EXCEPT ![g].pc = "sent", ![g].answer = "none"]
      /\ lost' = lost \cup {refresh[g].token[1]}
      /\ UNCHANGED <<family, newest, app, reading, login, call, leaving, store, stray, uncleared, life>>
  BY DEF ResendRefresh, Active, server
<1>2. PICK f : f = [refresh[g] EXCEPT !.pc = "sent", !.answer = "none"] OBVIOUS
<1>3. f \in Flight /\ f.pc = "sent" /\ f.token = refresh[g].token /\ f.answer = "none"
  BY <1>t, <1>2 DEF Flight
<1>4. refresh' = [refresh EXCEPT ![g] = f] BY <1>t, <1>1, <1>2
<1>5. refresh' \in [Gen -> Flight] /\ \A h \in Gen : refresh'[h] = IF h = g THEN f ELSE refresh[h]
  BY <1>t, <1>3, <1>4
<1>6. refresh[g].token \in Token BY <1>t, <1>1, Tokens DEF IInv, Flights, Flight
<1>7. newest[refresh[g].token[1]] >= 1
  BY <1>t, <1>1, <1>6, Types, Tokens DEF IInv, Given, Reached
<1>8. lost' \subseteq Login BY <1>t, <1>1, <1>6, Tokens DEF TypeOK
<1>9. family' \in [Login -> {"none", "open", "closed"}] /\ newest' \in [Login -> 0 .. MaxToken + 1]
      /\ \A s \in Login : newest'[s] >= newest[s]
  BY <1>t, <1>1, Types DEF TypeOK
<1> QED BY <1>1, <1>3, <1>5, <1>7, <1>8, <1>9, LossyStep

\* A request given up arrives after all.
LEMMA ServesStray ==
  ASSUME IInv, NEW m \in stray, ServeStray(m)
  PROVE  IInv'
<1>t. TypeOK BY DEF IInv
<1>1. /\ stray' = stray \ {m}
      /\ UNCHANGED <<app, reading, login, refresh, call, leaving, store, lost, uncleared, life>>
  BY DEF ServeStray, memory, ghosts
<1>2. PICK answer \in Reply : Exchanged(m, answer) BY DEF ServeStray
<1>3. m \in Token /\ m[1] \in lost BY <1>t DEF TypeOK, IInv, Given
<1>4. /\ family' \in [Login -> {"none", "open", "closed"}]
      /\ newest' \in [Login -> 0 .. MaxToken + 1]
      /\ \A s \in Login : s # m[1] => newest'[s] = newest[s]
      /\ IF answer = "rotated"
         THEN newest[m[1]] = m[2] /\ newest'[m[1]] = m[2] + 1
         ELSE newest' = newest
      /\ \A s \in Login : family'[s] = "none" => family[s] = "none" /\ newest'[s] = newest[s]
  BY <1>t, <1>2, <1>3, Exchanges
<1>5. \A s \in Login : newest'[s] >= newest[s] /\ (s \notin lost => newest'[s] = newest[s])
  BY <1>t, <1>3, <1>4, Types, Tokens
<1>6. refresh' \in [Gen -> Flight] /\ lost' \subseteq Login BY <1>t, <1>1 DEF TypeOK
<1> QED BY <1>1, <1>4, <1>5, <1>6, LossyStep

\* A login is ended at the server.
LEMMA ServerClosesLogin ==
  ASSUME IInv, NEW s \in Login, ServerCloses(s)
  PROVE  IInv'
<1>t. TypeOK BY DEF IInv
<1>1. /\ stray' \subseteq stray /\ newest' = newest
      /\ family' = [x \in Login |-> IF x \in {s} THEN "closed" ELSE family[x]]
      /\ UNCHANGED <<app, reading, login, refresh, call, leaving, store, lost, uncleared, life>>
  BY DEF ServerCloses, memory, ghosts, Server!Close
<1>2. family' \in [Login -> {"none", "open", "closed"}] /\ newest' \in [Login -> 0 .. MaxToken + 1]
      /\ refresh' \in [Gen -> Flight] /\ lost' \subseteq Login
  BY <1>t, <1>1 DEF TypeOK
<1>3. \A x \in Login : newest'[x] >= newest[x] BY <1>t, <1>1, Types
<1>4. \A x \in Login : family'[x] = "none" => family[x] = "none" BY <1>1
<1> QED BY <1>1, <1>2, <1>3, <1>4, LossyStep

-----------------------------------------------------------------------------
(* The answers.                                                            *)

\* The server opens a login.
LEMMA Opens ==
  ASSUME IInv, NEW s \in Login, Server!Open(s)
  PROVE  /\ family' \in [Login -> {"none", "open", "closed"}]
         /\ newest' \in [Login -> 0 .. MaxToken + 1]
         /\ newest[s] = 0 /\ newest'[s] = 1 /\ s \notin lost
         /\ \A x \in Login : x # s => newest'[x] = newest[x] /\ family'[x] = family[x]
         /\ \A x \in Login : newest'[x] \in Nat /\ newest[x] \in Nat /\ newest'[x] >= newest[x]
         /\ <<s, 1>> \in Token /\ family'[s] = "open"
<1>t. TypeOK BY DEF IInv
<1>1. /\ family[s] = "none"
      /\ family' = [family EXCEPT ![s] = "open"]
      /\ newest' = [newest EXCEPT ![s] = 1]
  BY DEF Server!Open
<1>2. newest[s] = 0 BY <1>1 DEF IInv, Unborn
<1>3. /\ family \in [Login -> {"none", "open", "closed"}]
      /\ newest \in [Login -> 0 .. MaxToken + 1] /\ MaxToken \in Nat
  BY <1>t, BoundAssumption DEF TypeOK
<1>4. s \notin lost BY <1>2 DEF IInv, Given
<1>5. \A x \in Login : newest'[x] \in Nat /\ newest[x] \in Nat /\ newest'[x] >= newest[x]
  BY <1>1, <1>2, <1>3
<1>6. <<s, 1>> \in Token BY <1>3 DEF Token
<1>7. family' \in [Login -> {"none", "open", "closed"}] /\ newest' \in [Login -> 0 .. MaxToken + 1]
  BY <1>1, <1>3
<1> QED BY <1>1, <1>2, <1>3, <1>4, <1>5, <1>6, <1>7

\* No token the device has is of a login that the server opens.
LEMMA Foreign ==
  ASSUME IInv, NEW s \in Login, newest[s] = 0
  PROVE  /\ app.stored # None => app.stored[1] \in Login \ {s}
         /\ disk # None => disk[1] \in Login \ {s}
         /\ \A g \in Gen : Active(g) =>
              refresh[g].token \in Token /\ refresh[g].token[1] \in Login \ {s}
         /\ \A i \in Ops : queue[i].token # None => queue[i].token[1] \in Login \ {s}
         /\ \A t \in stray : t \in Token /\ t[1] \in Login \ {s}
<1>t. TypeOK BY DEF IInv
<1>1. \A t \in MaybeToken : t # None /\ Issued(t) => t[1] \in Login \ {s}
  BY Tokens DEF Issued
<1>2. \A g \in Gen : Active(g) => refresh[g].token \in Token
  BY <1>t, Types, Tokens DEF IInv, Flights, Flight
<1>3. ASSUME NEW g \in Gen, Active(g)
      PROVE  refresh[g].token[1] \in Login \ {s}
  <2>1. newest[refresh[g].token[1]] >= Reached(refresh[g]) BY <1>3 DEF IInv, Given
  <2>2. refresh[g].token \in Token BY <1>2, <1>3
  <2> QED BY <2>1, <2>2, Tokens DEF Reached
<1>4. disk \in MaybeToken /\ app.stored \in MaybeToken /\ \A i \in Ops : queue[i].token \in MaybeToken
  BY <1>t, Types DEF TypeOK, Operation
<1>5. \A t \in stray : t \in MaybeToken /\ t # None /\ t \in Token /\ Issued(t)
  BY <1>t, Tokens DEF TypeOK, IInv, Given, MaybeToken
<1>6. Issued(disk) /\ Issued(app.stored) /\ \A i \in Ops : Issued(queue[i].token)
  BY DEF IInv, Given
<1>7. /\ app.stored # None => app.stored[1] \in Login \ {s}
      /\ disk # None => disk[1] \in Login \ {s}
      /\ \A i \in Ops : queue[i].token # None => queue[i].token[1] \in Login \ {s}
  BY <1>1, <1>4, <1>6
<1>8. \A t \in stray : t \in Token /\ t[1] \in Login \ {s}
  BY <1>1, <1>5
<1> QED BY <1>2, <1>3, <1>7, <1>8

\* The answer to a login that is no longer wanted.
LEMMA StaleLogin ==
  ASSUME IInv, NEW g \in Gen, login[g] = "sent", g # app.gen, NEW s \in Login, Server!Open(s),
         login' = [login EXCEPT ![g] = "none"],
         UNCHANGED <<app, reading, refresh, call, leaving, store, stray, ghosts, life>>
  PROVE  IInv'
<1> USE DEF store, ghosts
<1>t. TypeOK /\ login \in [Gen -> {"none", "erasing", "sent", "saving"}] BY DEF IInv, TypeOK
<1>1. /\ family' \in [Login -> {"none", "open", "closed"}]
      /\ newest' \in [Login -> 0 .. MaxToken + 1]
      /\ newest[s] = 0 /\ newest'[s] = 1 /\ s \notin lost
      /\ \A x \in Login : x # s => newest'[x] = newest[x] /\ family'[x] = family[x]
      /\ \A x \in Login : newest'[x] \in Nat /\ newest[x] \in Nat /\ newest'[x] >= newest[x]
      /\ family'[s] = "open"
  BY Opens
<1>2. /\ login' \in [Gen -> {"none", "erasing", "sent", "saving"}]
      /\ \A h \in Gen : login'[h] = IF h = g THEN "none" ELSE login[h]
  BY <1>t
<1>3. TypeOK' BY <1>t, <1>1, <1>2, KeptTypes DEF TypeOK
<1>4. Gen' = Gen /\ Ops' = Ops BY SameTypes DEF Ops
<1>5. app.gen \in Gen /\ \A i \in Ops : queue[i].gen \in Gen BY <1>t, Types DEF Operation
<1>6. Ages' /\ AtBoot' BY <1>2, <1>4, <1>5 DEF IInv, Ages, AtBoot, Active
<1>7. Fields' BY <1>2, <1>4, <1>5 DEF IInv, Fields, Active
<1>8. Operations' BY <1>2, <1>4, <1>5 DEF IInv, Operations
<1>9. Owing' BY <1>2, <1>4 DEF IInv, Owing, Queued
<1>10. Waiters' /\ LogoutAllOwn' BY DEF IInv, Waiters, Active, LogoutAllOwn
<1>11. SignedOutIsErased' BY <1>4 DEF IInv, SignedOutIsErased
<1>12. Flights' BY <1>4 DEF IInv, Flights, Active
<1>13. Callers' BY <1>2, <1>5 DEF IInv, Callers
<1>14. Device' BY <1>4 DEF IInv, Device
<1>15. Unborn' BY <1>1 DEF IInv, Unborn
<1>16. Apart' BY <1>4 DEF IInv, Apart, Active
<1>17. /\ app.stored # None => app.stored[1] \in Login \ {s}
       /\ disk # None => disk[1] \in Login \ {s}
       /\ \A h \in Gen : Active(h) =>
            refresh[h].token \in Token /\ refresh[h].token[1] \in Login \ {s}
       /\ \A i \in Ops : queue[i].token # None => queue[i].token[1] \in Login \ {s}
       /\ \A t \in stray : t \in Token /\ t[1] \in Login \ {s}
  BY <1>1, Foreign
<1>18. Given' BY <1>t, <1>1, <1>4, <1>17 DEF IInv, Given, Issued, Active, Reached, TypeOK
<1>19. \A i \in Ops : queue[i].kind = "write" => queue[i].token # None
  BY DEF IInv, Operations
<1>20. Newest' BY <1>1, <1>4, <1>17, <1>19 DEF IInv, Newest, Active, Reached
<1> QED BY <1>3, <1>6, <1>7, <1>8, <1>9, <1>10, <1>11, <1>12, <1>13, <1>14, <1>15, <1>16, <1>18,
           <1>20 DEF IInv

Write(t, g, by) == [kind |-> "write", by |-> by, gen |-> g, token |-> t]

\* What accept() puts in use and into the queue.
LEMMA Accepts ==
  ASSUME TypeOK, NEW t \in Token, NEW g \in Gen, NEW by \in {"login", "refresh"}, Accepting(t, g, by)
  PROVE  /\ app' \in App /\ app'.stored = t
         /\ app'.gen = app.gen /\ app'.tokens = app.tokens /\ app'.shown = app.shown
         /\ app'.error = app.error /\ app'.throttled = app.throttled
         /\ queue' = Append(queue, Write(t, g, by)) /\ Write(t, g, by) \in Operation
         /\ Write(t, g, by).kind = "write" /\ Write(t, g, by).by = by
         /\ Write(t, g, by).gen = g /\ Write(t, g, by).token = t
<1>1. app \in App BY DEF TypeOK
<1>2. app' = [app EXCEPT !.stored = t] BY DEF Accepting
<1>3. /\ app' \in App /\ app'.stored = t
      /\ app'.gen = app.gen /\ app'.tokens = app.tokens /\ app'.shown = app.shown
      /\ app'.error = app.error /\ app'.throttled = app.throttled
  BY <1>1, <1>2 DEF App, MaybeToken
<1> QED BY <1>3 DEF Accepting, Write, Operation, MaybeToken

\* The answer to a login that is waited for.
LEMMA CurrentLogin ==
  ASSUME IInv, NEW g \in Gen, login[g] = "sent", g = app.gen, NEW s \in Login, Server!Open(s),
         Accepting(<<s, 1>>, g, "login"), login' = [login EXCEPT ![g] = "saving"],
         UNCHANGED <<reading, refresh, call, leaving, disk, running, stray, ghosts, life>>
  PROVE  IInv'
<1> USE DEF ghosts
<1>t. TypeOK /\ login \in [Gen -> {"none", "erasing", "sent", "saving"}] BY DEF IInv, TypeOK
<1>1. /\ family' \in [Login -> {"none", "open", "closed"}]
      /\ newest' \in [Login -> 0 .. MaxToken + 1]
      /\ newest[s] = 0 /\ newest'[s] = 1 /\ s \notin lost
      /\ \A x \in Login : x # s => newest'[x] = newest[x] /\ family'[x] = family[x]
      /\ \A x \in Login : newest'[x] \in Nat /\ newest[x] \in Nat /\ newest'[x] >= newest[x]
      /\ <<s, 1>> \in Token /\ family'[s] = "open"
  BY Opens
<1> DEFINE t == <<s, 1>>
           e == Write(t, g, "login")
<1>2. t \in Token /\ t # None /\ t[1] = s /\ t[2] = 1 BY <1>1, Tokens
<1> HIDE DEF t
<1>3. Accepting(t, g, "login") BY DEF t
<1>4. /\ app' \in App /\ app'.stored = t
      /\ app'.gen = app.gen /\ app'.tokens = app.tokens /\ app'.shown = app.shown
      /\ app'.error = app.error
      /\ queue' = Append(queue, e) /\ e \in Operation
      /\ e.kind = "write" /\ e.by = "login" /\ e.gen = g /\ e.token = t
  BY <1>t, <1>2, <1>3, Accepts
<1> HIDE DEF e
<1>5. /\ login' \in [Gen -> {"none", "erasing", "sent", "saving"}]
      /\ \A h \in Gen : login'[h] = IF h = g THEN "saving" ELSE login[h]
  BY <1>t
<1>6. app.stored = None /\ app.tokens = None /\ ~Active(g) BY DEF IInv, Fields
<1>7. Ops = {}
  <2>1. \A i \in Ops : queue[i].gen # g
    <3> SUFFICES ASSUME NEW i \in Ops, queue[i].gen = g PROVE FALSE OBVIOUS
    <3>1. queue[i] \in Operation BY <1>t, Types
    <3>2. queue[i].kind = "clear" BY <1>6, <3>1 DEF IInv, Operations
    <3>3. queue[i].by = "login" BY <3>1, <3>2 DEF IInv, Operations, Operation
    <3>4. login[g] = "erasing" BY <3>2, <3>3 DEF IInv, Owing, Queued
    <3> QED BY <3>4
  <2>2. \A i \in Ops : queue[Len(queue)].gen = g /\ Len(queue) \in Ops
    BY <1>t, <2>1, Types DEF IInv, Operations
  <2> QED BY <2>1, <2>2
<1>8. queue = <<>> BY <1>t, <1>7, NothingQueued
<1>9. /\ Len(queue') = 1 /\ Ops' = {1} /\ queue'[1] = e /\ queue' # <<>> /\ queue' \in Seq(Operation)
  BY <1>4, <1>8 DEF Ops
<1>10. TypeOK' BY <1>t, <1>1, <1>4, <1>5, <1>9, KeptTypes DEF TypeOK
<1>11. Gen' = Gen BY SameTypes
<1>12. AtBoot' BY DEF IInv, AtBoot
<1>13. app.gen # life.gens BY DEF IInv, Ages
<1>14. Ages' BY <1>4, <1>5, <1>11, <1>13, <1>t, Types DEF IInv, Ages, Active
<1>15. app.shown \notin Login BY <1>6 DEF IInv, Fields
<1>16. Fields' BY <1>2, <1>4, <1>5, <1>6, <1>11, <1>15 DEF IInv, Fields, Active
<1>17. \A i \in Ops' : i = 1 /\ queue'[i] = e BY <1>9
<1>18. Operations'
  BY <1>2, <1>4, <1>9, <1>17, <1>t, Types DEF Operations
<1>19. \A by, kind, h : Queued(h, by, kind)' <=> (h = g /\ by = "login" /\ kind = "write")
  BY <1>4, <1>9 DEF Queued
<1>20. \A by, kind, h : ~Queued(h, by, kind) BY <1>7 DEF Queued
<1>21. Owing' BY <1>5, <1>11, <1>19, <1>20, <1>6 DEF IInv, Owing, Active
<1>22. Waiters' /\ LogoutAllOwn' BY DEF IInv, Waiters, Active, LogoutAllOwn
<1>23. SignedOutIsErased' BY <1>2, <1>4 DEF SignedOutIsErased
<1>24. Flights' BY <1>4, <1>6, <1>11 DEF IInv, Flights, Active
<1>25. Callers' BY <1>4, <1>5, <1>6, <1>15 DEF IInv, Callers
<1>26. Device' BY <1>4, <1>6, <1>9 DEF Device
<1>27. Unborn' BY <1>1 DEF IInv, Unborn
<1>28. /\ disk # None => disk[1] \in Login \ {s}
       /\ \A h \in Gen : Active(h) =>
            refresh[h].token \in Token /\ refresh[h].token[1] \in Login \ {s}
       /\ \A m \in stray : m \in Token /\ m[1] \in Login \ {s}
  BY <1>1, Foreign
<1>29. Given' BY <1>t, <1>1, <1>2, <1>4, <1>9, <1>11, <1>28 DEF IInv, Given, Issued, Active, Reached, TypeOK
<1>30. Apart' BY <1>2, <1>4, <1>6, <1>9, <1>11, <1>28 DEF IInv, Apart, Active
<1>31. Newest'
  <2>1. \A h \in Gen : Active(h) /\ refresh[h].token[1] \notin lost =>
          newest'[refresh[h].token[1]] = Reached(refresh[h])
    BY <1>1, <1>28 DEF IInv, Newest
  <2>2. disk # None /\ disk[1] \notin lost
           /\ (\A h \in Gen : Active(h) => refresh[h].token[1] # disk[1]) =>
          newest'[disk[1]] = disk[2]
    BY <1>1, <1>7, <1>28 DEF IInv, Newest
  <2> QED BY <1>1, <1>2, <1>4, <1>9, <1>11, <2>1, <2>2 DEF Newest, Active, Reached
<1> QED BY <1>10, <1>12, <1>14, <1>16, <1>18, <1>21, <1>22, <1>23, <1>24, <1>25, <1>26, <1>27,
           <1>29, <1>30, <1>31 DEF IInv

\* A login is answered.
LEMMA LoginAnswers ==
  ASSUME IInv, NEW g \in Gen, LoginAnswer(g)
  PROVE  IInv'
<1>1. PICK s \in Login :
        /\ Server!Open(s)
        /\ IF g = app.gen
           THEN Accepting(<<s, 1>>, g, "login") /\ login' = [login EXCEPT ![g] = "saving"]
           ELSE login' = [login EXCEPT ![g] = "none"] /\ UNCHANGED <<app, queue>>
  BY DEF LoginAnswer
<1>2. /\ login[g] = "sent"
      /\ UNCHANGED <<reading, refresh, call, leaving, disk, running, stray, ghosts, life>>
  BY DEF LoginAnswer
<1>3. CASE g = app.gen BY <1>1, <1>2, <1>3, CurrentLogin
<1>4. CASE g # app.gen
  <2>1. UNCHANGED <<app, store>> BY <1>1, <1>2, <1>4 DEF store
  <2> QED BY <1>1, <1>2, <1>4, <2>1, StaleLogin
<1> QED BY <1>3, <1>4

\* The answer of a refresh that is in time: accept() up to its await.
LEMMA RefreshAccepts ==
  ASSUME IInv, leaving.woken = "no", NEW g \in Gen, g = app.gen,
         refresh[g].pc = "answered", refresh[g].answer = "rotated",
         Accepting(<<refresh[g].token[1], refresh[g].token[2] + 1>>, g, "refresh"),
         refresh' = [refresh EXCEPT ![g].pc = "saving"],
         UNCHANGED <<server, reading, login, call, leaving, disk, running, stray, ghosts, life>>
  PROVE  IInv'
<1> USE DEF server, ghosts
<1>t. TypeOK /\ refresh \in [Gen -> Flight] /\ refresh[g] \in Flight BY DEF IInv, TypeOK
<1>f. PICK f : f = refresh[g] OBVIOUS
<1>s. PICK t : t = <<f.token[1], f.token[2] + 1>> OBVIOUS
<1>e. PICK e : e = Write(t, g, "refresh") OBVIOUS
<1>0. Active(g) /\ f.token = app.stored /\ app.stored # None
  BY <1>f DEF IInv, Flights, Fields, Active
<1>1. f.token \in Token /\ f.token[1] \in Login /\ f.token[2] \in Nat /\ f.token[2] >= 1
  BY <1>t, <1>0, Types, Tokens
<1>2. newest[f.token[1]] >= f.token[2] + 1 BY <1>f, <1>0 DEF IInv, Given, Reached
<1>3. newest[f.token[1]] \in 0 .. MaxToken + 1 /\ MaxToken \in Nat
  BY <1>t, <1>1, BoundAssumption DEF TypeOK
<1>4. t \in Token /\ t # None /\ t[1] = app.stored[1] /\ t[2] = app.stored[2] + 1
      /\ t[2] \in Nat /\ t[2] >= 1
  BY <1>s, <1>0, <1>1, <1>2, <1>3, Tokens DEF Token
<1>5. Accepting(t, g, "refresh") BY <1>f, <1>s
<1>6. /\ app' \in App /\ app'.stored = t
      /\ app'.gen = app.gen /\ app'.tokens = app.tokens /\ app'.shown = app.shown
      /\ app'.error = app.error
      /\ queue' = Append(queue, e) /\ e \in Operation
      /\ e.kind = "write" /\ e.by = "refresh" /\ e.gen = g /\ e.token = t
  BY <1>e, <1>t, <1>4, <1>5, Accepts
<1>7. /\ refresh' \in [Gen -> Flight]
      /\ \A h \in Gen : /\ h # g => refresh'[h] = refresh[h]
                        /\ refresh'[h].token = refresh[h].token
                        /\ refresh'[h].answer = refresh[h].answer
                        /\ Active(h)' <=> Active(h)
                        /\ refresh'[h].pc = "saving" <=> h = g \/ refresh[h].pc = "saving"
                        /\ refresh'[h].pc = "sent" <=> refresh[h].pc = "sent"
  <2>1. PICK r : r = [refresh[g] EXCEPT !.pc = "saving"] OBVIOUS
  <2>2. r \in Flight /\ r.pc = "saving" /\ r.token = f.token /\ r.answer = f.answer
    BY <1>f, <1>t, <2>1 DEF Flight
  <2>3. refresh' = [refresh EXCEPT ![g] = r] BY <1>t, <2>1
  <2>4. \A h \in Gen : refresh'[h] = IF h = g THEN r ELSE refresh[h] BY <1>t, <2>3
  <2> QED BY <1>f, <1>t, <1>0, <2>2, <2>3, <2>4 DEF Active
<1>8. /\ Len(queue') = Len(queue) + 1 /\ Ops' = Ops \cup {Len(queue) + 1}
      /\ Len(queue) + 1 \notin Ops /\ \A i \in Ops : i < Len(queue) + 1
      /\ queue'[Len(queue) + 1] = e
      /\ \A i \in Ops : queue'[i] = queue[i]
      /\ queue' \in Seq(Operation) /\ queue' # <<>>
  BY <1>t, <1>6, Appended
<1>9. TypeOK' BY <1>t, <1>6, <1>7, <1>8, KeptTypes DEF TypeOK
<1>10. Gen' = Gen BY SameTypes
<1>11. ~reading BY <1>0, Reading DEF Boot
<1>12. \A i \in Ops : /\ queue[i].gen = g /\ queue[i].kind = "write" /\ queue[i].by = "login"
                      /\ queue[i].token[1] = app.stored[1] /\ queue[i].token = app.stored
                      /\ queue[i] \in Operation
  <2>1. \A i \in Ops : /\ queue[i].gen = g /\ queue[i].kind = "write"
                       /\ queue[i].token[1] = app.stored[1] /\ queue[i] \in Operation
    BY <1>t, <1>0, OnlyOwnWrites, Types DEF IInv
  <2>2. ~Queued(g, "refresh", "write") BY DEF IInv, Owing
  <2>3. \A i \in Ops : queue[i].by = "login"
    BY <2>1, <2>2 DEF IInv, Operations, Queued, Operation
  <2> QED BY <2>1, <2>3 DEF IInv, Device
<1>12n. app'.stored[1] = app.stored[1] BY <1>4, <1>6
<1>12a. \A i \in Ops' : queue'[i].gen = g /\ queue'[i].kind = "write" /\ queue'[i] \in Operation
  BY <1>6, <1>8, <1>12
<1>12b. \A i \in Ops' : queue'[i].token[1] = app.stored[1]
  <2>1. queue'[Len(queue) + 1].token[1] = app.stored[1] BY <1>4, <1>6, <1>8
  <2>2. \A i \in Ops : queue'[i].token[1] = app.stored[1] BY <1>8, <1>12
  <2> QED BY <1>8, <2>1, <2>2
<1>12c. \A i \in Ops' : \/ queue'[i].by = "login" /\ queue'[i].token = app.stored
                        \/ queue'[i].by = "refresh" /\ queue'[i].token = t
  <2>1. \A i \in Ops : queue'[i].by = "login" /\ queue'[i].token = app.stored BY <1>8, <1>12
  <2>2. queue'[Len(queue) + 1].by = "refresh" /\ queue'[Len(queue) + 1].token = t BY <1>6, <1>8
  <2> QED BY <1>8, <2>1, <2>2
<1>13. app.gen # life.gens BY <1>0 DEF IInv, Ages
<1>14. Ages' BY <1>6, <1>7, <1>10, <1>13 DEF IInv, Ages
<1>15. AtBoot' BY <1>11 DEF AtBoot
<1>16. Fields'
  <2>1. app.tokens # None => app.tokens \in Token /\ app.tokens[2] \in Nat /\ app.stored[2] \in Nat
    BY <1>t, <1>0, <1>1, Types, Tokens
  <2>2. app.tokens # None => app'.tokens[1] = app'.stored[1] /\ app'.tokens[2] <= app'.stored[2]
    BY <1>4, <1>6, <2>1 DEF IInv, Fields
  <2> QED BY <1>0, <1>4, <1>6, <1>7, <1>10, <2>2 DEF IInv, Fields
<1>17. Operations'
  <2>1. \A i \in Ops' :
          LET op == queue'[i] IN
          /\ op.gen <= app'.gen
          /\ op.kind = "clear" => op.gen > 0 /\ op.token = None /\ op.by # "refresh"
          /\ op.kind = "write" => op.token # None /\ op.by # "clear"
          /\ op.by = "clear" => login'[op.gen] = "none"
          /\ op.by = "login" /\ op.kind = "write" => op.token[2] = 1
    BY <1>t, <1>4, <1>6, <1>8, <1>12, Types DEF IInv, Operations
  <2>2. \A i \in Ops' : queue'[i].by = "refresh" =>
          /\ queue'[i].token[1] = refresh'[queue'[i].gen].token[1]
          /\ queue'[i].token[2] = refresh'[queue'[i].gen].token[2] + 1
    <3>1. t[1] = refresh'[g].token[1] /\ t[2] = refresh'[g].token[2] + 1
      BY <1>f, <1>0, <1>4, <1>7
    <3>2. \A i \in Ops' : queue'[i].by = "refresh" => queue'[i].token = t BY <1>12c
    <3> QED BY <1>12a, <3>1, <3>2
  <2>3. Len(queue) \in Nat /\ Ops = 1 .. Len(queue) BY <1>t, Types
  <2>4. \A i, j \in Ops : ~(i < j) BY <1>12, <2>3, <1>t, Types DEF IInv, Operations, Operation
  <2>5. \A i, j \in Ops' : i < j =>
          /\ queue'[i].gen = queue'[j].gen
          /\ queue'[i].by = "login" /\ queue'[i].kind = "write" /\ queue'[j].by = "refresh"
    BY <1>6, <1>8, <1>12, <2>3, <2>4
  <2>6. \A i \in Ops' : queue'[i].gen = app'.gen BY <1>6, <1>8, <1>12
  <2>7. \A i \in Ops' : queue'[i].gen = app'.gen =>
          IF queue'[i].kind = "clear" THEN app'.stored = None
          ELSE app'.stored # None /\ queue'[i].token[1] = app'.stored[1]
    <3>1. app'.stored # None BY <1>4, <1>6
    <3> QED BY <1>12n, <1>12a, <1>12b, <3>1
  <2>8. running' => queue' # <<>> BY <1>8
  <2> QED BY <2>1, <2>2, <2>5, <2>6, <2>7, <2>8 DEF Operations
<1>18. \A h, b, kind :
         Queued(h, b, kind)' <=> Queued(h, b, kind) \/ (g = h /\ b = "refresh" /\ kind = "write")
  BY <1>t, <1>6, AppendedQueued
<1>19. Owing' BY <1>7, <1>10, <1>18 DEF IInv, Owing
<1>20. Waiters' /\ LogoutAllOwn'
  <2>1. leaving.gen \in Gen /\ \A k \in Call : call[k].gen \in Gen
    BY <1>t, Types DEF Request, Leaving
  <2> QED BY <1>7, <2>1 DEF IInv, Waiters, LogoutAllOwn
<1>21. SignedOutIsErased' BY <1>4, <1>6 DEF SignedOutIsErased
<1>22. Flights' BY <1>f, <1>0, <1>4, <1>6, <1>7, <1>10 DEF IInv, Flights
<1>23. Callers' BY <1>0, <1>4, <1>6 DEF IInv, Callers
<1>24. Device'
  <2>1. ASSUME app.tokens # None
        PROVE  \A i \in Ops' : queue'[i].token[2] >= app.tokens[2]
    <3>1. app.tokens \in Token /\ app.tokens[2] \in Nat /\ app.stored[2] \in Nat
      BY <1>t, <1>0, <1>1, <2>1, Types, Tokens
    <3>2. app.tokens[2] <= app.stored[2] BY <2>1 DEF IInv, Fields
    <3>3. app.stored[2] >= app.tokens[2] /\ t[2] >= app.tokens[2] BY <1>4, <3>1, <3>2
    <3> QED BY <1>12c, <3>3
  <2>2. refresh'[app'.gen].pc = "saving" BY <1>6, <1>7
  <2>3. app.tokens # None => disk # None /\ disk[1] = app.tokens[1] /\ disk[2] >= app.tokens[2]
    BY DEF IInv, Device
  <2> QED BY <1>6, <1>8, <2>1, <2>2, <2>3 DEF Device
<1>25. Unborn' BY DEF IInv, Unborn
<1>26. Given'
  <2>1. newest[t[1]] >= t[2] BY <1>0, <1>2, <1>4
  <2>2. newest[app.stored[1]] >= app.stored[2] BY <1>0 DEF IInv, Given, Issued
  <2>3. \A i \in Ops' : newest[queue'[i].token[1]] >= queue'[i].token[2] BY <1>12c, <2>1, <2>2
  <2>4. \A h \in Gen : Reached(refresh'[h]) = Reached(refresh[h]) BY <1>7 DEF Reached
  <2>5. \A h \in Gen : Active(h)' => newest[refresh'[h].token[1]] >= Reached(refresh'[h])
    BY <1>7, <2>4 DEF IInv, Given
  <2> QED BY <1>6, <1>10, <2>1, <2>3, <2>5 DEF IInv, Given, Issued, Reached
<1>27. Apart'
  <2>1. \A h \in Gen : Active(h)' /\ refresh'[h].token[1] = app.stored[1] => h = g
    BY <1>0, <1>7 DEF IInv, Apart
  <2>2. \A h \in Gen : h = g => refresh'[h].token[1] = app.stored[1] BY <1>f, <1>0, <1>7
  <2>3. \A i \in Ops', h \in Gen : Active(h)' =>
          (queue'[i].gen = h <=> queue'[i].token[1] = refresh'[h].token[1])
    BY <1>12a, <1>12b, <2>1, <2>2
  <2>4. \A h, k \in Gen :
          Active(h)' /\ Active(k)' /\ refresh'[h].token[1] = refresh'[k].token[1] => h = k
    BY <1>7 DEF IInv, Apart
  <2> QED BY <1>6, <1>10, <1>12n, <2>1, <2>3, <2>4 DEF Apart
<1>28. Newest'
  <2>1. \A h \in Gen : Reached(refresh'[h]) = Reached(refresh[h]) BY <1>7 DEF Reached
  <2>2. \A h \in Gen : Active(h)' /\ refresh'[h].token[1] \notin lost =>
          newest[refresh'[h].token[1]] = Reached(refresh'[h])
    BY <1>7, <2>1 DEF IInv, Newest
  <2>3. Active(g)' BY <1>0, <1>7
  <2>4. ASSUME disk # None, disk[1] \notin lost,
               \A h \in Gen : Active(h)' => refresh'[h].token[1] # disk[1],
               \A i \in Ops' : queue'[i].kind = "write" => queue'[i].token[1] # disk[1]
        PROVE  newest[disk[1]] = disk[2]
    <3>1. \A h \in Gen : Active(h) => refresh[h].token[1] # disk[1] BY <1>7, <2>4
    <3>2. \A i \in Ops : queue[i].token[1] # disk[1] BY <1>8, <1>12, <2>4
    <3> QED BY <2>4, <3>1, <3>2 DEF IInv, Newest
  <2> QED BY <1>6, <1>10, <1>12a, <2>2, <2>3, <2>4 DEF Newest, Reached
<1> QED BY <1>9, <1>14, <1>15, <1>16, <1>17, <1>19, <1>20, <1>21, <1>22, <1>23, <1>24, <1>25,
           <1>26, <1>27, <1>28 DEF IInv

\* What the end of a flight changes.
LEMMA EndsFlight ==
  ASSUME IInv, NEW g \in Gen, NEW outcome \in {"ok", "fail"}, EndFlight(g, outcome)
  PROVE  /\ refresh' \in [Gen -> Flight] /\ call' \in [Call -> Request] /\ leaving' \in Leaving
         /\ refresh'[g] = NoFlight /\ NoFlight.pc = "none"
         /\ \A h \in Gen : h # g => refresh'[h] = refresh[h]
         /\ \A k \in Call :
              /\ call'[k].gen = call[k].gen /\ call'[k].pc = call[k].pc
              /\ call'[k].token = call[k].token
              /\ call'[k].woken = IF k \in Waiting(g) THEN outcome ELSE call[k].woken
         /\ leaving'.pc = leaving.pc /\ leaving'.gen = leaving.gen /\ leaving'.of = leaving.of
         /\ leaving'.token = leaving.token
         /\ leaving'.woken = IF leaving.pc = "opening" /\ leaving.gen = g THEN outcome
                             ELSE leaving.woken
<1>t. /\ refresh \in [Gen -> Flight] /\ call \in [Call -> Request] /\ leaving \in Leaving
  BY DEF IInv, TypeOK
<1>1. NoFlight \in Flight /\ NoFlight.pc = "none" BY DEF NoFlight, Flight, MaybeToken
<1>2. refresh' = [refresh EXCEPT ![g] = NoFlight] BY DEF EndFlight
<1>3. call' = [k \in Call |-> IF k \in Waiting(g) THEN [call[k] EXCEPT !.woken = outcome]
                              ELSE call[k]]
  BY DEF EndFlight
<1>4. ASSUME NEW k \in Call
      PROVE  /\ call'[k] \in Request
             /\ call'[k].gen = call[k].gen /\ call'[k].pc = call[k].pc
             /\ call'[k].token = call[k].token
             /\ call'[k].woken = IF k \in Waiting(g) THEN outcome ELSE call[k].woken
  <2>1. PICK c : c = [call[k] EXCEPT !.woken = outcome] OBVIOUS
  <2>2. /\ c \in Request /\ c.gen = call[k].gen /\ c.pc = call[k].pc
        /\ c.token = call[k].token /\ c.woken = outcome
    BY <1>t, <2>1 DEF Request
  <2>3. call'[k] = IF k \in Waiting(g) THEN c ELSE call[k] BY <1>3, <2>1
  <2> QED BY <1>t, <2>2, <2>3
<1>5. call' \in [Call -> Request] BY <1>3, <1>4
<1>6. /\ leaving' \in Leaving
      /\ leaving'.pc = leaving.pc /\ leaving'.gen = leaving.gen /\ leaving'.of = leaving.of
      /\ leaving'.token = leaving.token
      /\ leaving'.woken = IF leaving.pc = "opening" /\ leaving.gen = g THEN outcome
                          ELSE leaving.woken
  <2>1. PICK l : l = [leaving EXCEPT !.woken = outcome] OBVIOUS
  <2>2. /\ l \in Leaving /\ l.gen = leaving.gen /\ l.pc = leaving.pc /\ l.of = leaving.of
        /\ l.token = leaving.token /\ l.woken = outcome
    BY <1>t, <2>1 DEF Leaving
  <2>3. leaving' = IF leaving.pc = "opening" /\ leaving.gen = g THEN l ELSE leaving
    BY <2>1 DEF EndFlight
  <2> QED BY <1>t, <2>2, <2>3
<1>7. refresh' \in [Gen -> Flight] /\ refresh'[g] = NoFlight
      /\ \A h \in Gen : h # g => refresh'[h] = refresh[h]
  BY <1>t, <1>1, <1>2
<1> QED BY <1>1, <1>4, <1>5, <1>6, <1>7

\* The end of a flight forgets nobody.
LEMMA EndedWaiters ==
  ASSUME IInv, NEW g \in Gen, NEW outcome \in {"ok", "fail"}, EndFlight(g, outcome)
  PROVE  Waiters' /\ LogoutAllOwn'
<1>1. /\ \A h \in Gen : h # g => refresh'[h] = refresh[h]
      /\ \A k \in Call :
           /\ call'[k].gen = call[k].gen /\ call'[k].pc = call[k].pc
           /\ call'[k].woken = IF k \in Waiting(g) THEN outcome ELSE call[k].woken
      /\ leaving'.pc = leaving.pc /\ leaving'.gen = leaving.gen /\ leaving'.of = leaving.of
      /\ leaving'.token = leaving.token
      /\ leaving'.woken = IF leaving.pc = "opening" /\ leaving.gen = g THEN outcome
                          ELSE leaving.woken
  BY EndsFlight
<1>2. leaving.gen \in Gen /\ \A k \in Call : call[k].gen \in Gen
  BY Types DEF Request, Leaving, IInv
<1> QED BY <1>1, <1>2 DEF IInv, Waiters, LogoutAllOwn, Waiting, Active

\* A flight ends without a new token.
LEMMA FlightOver ==
  ASSUME IInv, Settled, NEW g \in Gen, refresh[g].pc \in {"sent", "answered"},
         NEW outcome \in {"ok", "fail"}, EndFlight(g, outcome), outcome = "ok" => g # app.gen,
         app' \in App, UNCHANGED <<app.gen, app.stored, app.tokens>>,
         \/ app'.shown = app.shown
         \/ g = app.gen /\ app'.shown = refresh[g].token[1] /\ app'.error,
         app.error => app'.error,
         \/ lost' = lost \cup {refresh[g].token[1]}
         \/ /\ lost' = lost /\ g = app.gen
            /\ refresh[g].pc = "answered" /\ refresh[g].answer # "rotated",
         stray' \subseteq stray \cup {refresh[g].token},
         stray' = stray \/ refresh[g].token[1] \in lost',
         UNCHANGED <<server, reading, login, store, uncleared, life>>
  PROVE  IInv'
<1> USE DEF server, store
<1>t. TypeOK BY DEF IInv
<1>0. Active(g) /\ refresh[g].pc # "saving" BY DEF Active
<1>1. /\ refresh' \in [Gen -> Flight] /\ call' \in [Call -> Request] /\ leaving' \in Leaving
      /\ refresh'[g] = NoFlight /\ NoFlight.pc = "none"
      /\ \A h \in Gen : h # g => refresh'[h] = refresh[h]
      /\ \A k \in Call :
           /\ call'[k].gen = call[k].gen /\ call'[k].pc = call[k].pc
           /\ call'[k].token = call[k].token
           /\ call'[k].woken = IF k \in Waiting(g) THEN outcome ELSE call[k].woken
      /\ leaving'.pc = leaving.pc /\ leaving'.gen = leaving.gen /\ leaving'.of = leaving.of
      /\ leaving'.token = leaving.token
      /\ leaving'.woken = IF leaving.pc = "opening" /\ leaving.gen = g THEN outcome
                          ELSE leaving.woken
  BY EndsFlight
<1>2. refresh[g].token \in Token /\ refresh[g].token[1] \in Login
      /\ newest[refresh[g].token[1]] >= refresh[g].token[2] /\ refresh[g].token[2] >= 1
      /\ newest[refresh[g].token[1]] \in Nat /\ refresh[g].token[2] \in Nat
  BY <1>t, <1>0, Types, Tokens DEF IInv, Flights, Flight, Given, Reached
<1>3. lost' \subseteq Login /\ stray' \subseteq Token BY <1>t, <1>2 DEF TypeOK
<1>4. TypeOK' BY <1>t, <1>1, <1>3, KeptTypes DEF TypeOK
<1>5. Gen' = Gen /\ Ops' = Ops BY SameTypes DEF Ops
<1>6. app.gen \in Gen /\ \A i \in Ops : queue[i].gen \in Gen BY <1>t, Types DEF Operation
<1>7. \A h \in Gen : (refresh'[h].pc # "none") => Active(h) /\ refresh'[h] = refresh[h] /\ h # g
  BY <1>1 DEF Active
<1>8. g = app.gen => app.stored # None /\ app.gen # life.gens
  BY <1>0 DEF IInv, Fields, Ages
<1>9. Ages' BY <1>1, <1>5, <1>6, <1>7, <1>8 DEF IInv, Ages, Active
<1>10. AtBoot' BY <1>0 DEF IInv, AtBoot
<1>11. Fields' BY <1>1, <1>2, <1>5, <1>6, <1>7, <1>8, NoneAssumption DEF IInv, Fields, Active
<1>12. \A i \in Ops : queue[i].by = "refresh" => refresh'[queue[i].gen] = refresh[queue[i].gen]
  BY <1>0, <1>1, <1>6, <1>t, Types DEF IInv, Operations, Owing, Queued, Operation
<1>13. Operations' BY <1>5, <1>12 DEF IInv, Operations
<1>14. Owing' BY <1>0, <1>1, <1>5 DEF IInv, Owing, Queued
<1>15. Waiters' /\ LogoutAllOwn' BY EndedWaiters
<1>16. SignedOutIsErased' BY <1>5 DEF IInv, SignedOutIsErased
<1>17. Flights' BY <1>5, <1>7 DEF IInv, Flights, Active
<1>18. Callers'
  <2>1. \A k \in Call : call[k].woken = "no" BY DEF Settled
  <2>2. leaving.woken = "no" BY DEF Settled
  <2>3. \A k \in Waiting(g) : call[k].gen = g BY DEF Waiting
  <2>4. \A k \in Call :
          call'[k].gen = app'.gen =>
            /\ call'[k].woken = "ok" => app'.tokens # None
            /\ call'[k].pc = "sent" =>
                 call'[k].token # None /\ app'.stored # None /\ call'[k].token[1] = app'.stored[1]
    BY <1>1, <2>1, <2>3 DEF IInv, Callers
  <2>5. app'.shown = app.shown \/ app'.shown \in Login BY <1>2
  <2> QED BY <1>1, <2>2, <2>4, <2>5 DEF IInv, Callers
<1>19. Device' BY <1>0, <1>1, <1>5, <1>6 DEF IInv, Device
<1>20. Unborn' BY DEF IInv, Unborn
<1>21. Given' BY <1>2, <1>5, <1>7 DEF IInv, Given, Issued, Reached, Active
<1>22. Apart' BY <1>5, <1>7 DEF IInv, Apart, Active
<1>23. Newest'
  <2>1. \A h \in Gen : Active(h) /\ ~(refresh'[h].pc # "none") => h = g BY <1>1 DEF Active
  <2>2. ASSUME NEW s \in Login, s = refresh[g].token[1], s \notin lost'
        PROVE  /\ g = app.gen /\ refresh[g].pc = "answered" /\ refresh[g].answer # "rotated"
               /\ s \notin lost
    BY <2>2
  <2>3. \A h \in Gen : (refresh'[h].pc # "none") /\ refresh'[h].token[1] \notin lost' =>
          newest[refresh'[h].token[1]] = Reached(refresh'[h])
    BY <1>7 DEF IInv, Newest
  <2>4. ASSUME app.stored # None, ~(refresh'[app.gen].pc # "none"), app.stored[1] \notin lost'
        PROVE  newest[app.stored[1]] = app.stored[2]
    <3>1. CASE ~Active(app.gen) BY <2>4, <3>1 DEF IInv, Newest
    <3>2. CASE Active(app.gen)
      <4>1. g = app.gen BY <1>6, <2>1, <2>4, <3>2
      <4>2. refresh[g].token = app.stored BY <1>0, <4>1 DEF IInv, Flights
      <4> QED BY <1>2, <2>2, <2>4, <4>1, <4>2, NothingRotated
    <3> QED BY <3>1, <3>2
  <2>5. ASSUME NEW i \in Ops, queue[i].kind = "write", ~(refresh'[queue[i].gen].pc # "none"),
               queue[i].token[1] \notin lost'
        PROVE  newest[queue[i].token[1]] = queue[i].token[2]
    <3>1. CASE ~Active(queue[i].gen) BY <2>5, <3>1 DEF IInv, Newest
    <3>2. CASE Active(queue[i].gen)
      <4>1. queue[i].gen = g BY <1>6, <2>1, <2>5, <3>2
      <4>2. queue[i].token[1] = refresh[g].token[1] BY <1>0, <2>5, <4>1 DEF IInv, Apart
      <4> QED BY <1>2, <2>2, <2>5, <4>1, <4>2, NothingRotated
    <3> QED BY <3>1, <3>2
  <2>6. ASSUME disk # None, disk[1] \notin lost',
               \A h \in Gen : (refresh'[h].pc # "none") => refresh'[h].token[1] # disk[1],
               \A i \in Ops : queue[i].kind = "write" => queue[i].token[1] # disk[1]
        PROVE  newest[disk[1]] = disk[2]
    <3>1. CASE \A h \in Gen : Active(h) => refresh[h].token[1] # disk[1]
      BY <2>6, <3>1 DEF IInv, Newest
    <3>2. CASE \E h \in Gen : Active(h) /\ refresh[h].token[1] = disk[1]
      <4>1. PICK h \in Gen : Active(h) /\ refresh[h].token[1] = disk[1] BY <3>2
      <4>2. h = g BY <1>1, <2>6, <4>1 DEF Active
      <4>3. refresh[g].token = app.stored BY <1>2, <2>2, <2>6, <4>1, <4>2, NothingRotated
      <4> QED BY <1>2, <2>2, <2>6, <4>1, <4>2, <4>3, NothingRotated
    <3> QED BY <3>1, <3>2
  <2> QED BY <1>5, <2>3, <2>4, <2>5, <2>6 DEF Newest, Reached, Active
<1> QED BY <1>4, <1>9, <1>10, <1>11, <1>13, <1>14, <1>15, <1>16, <1>17, <1>18, <1>19, <1>20,
           <1>21, <1>22, <1>23 DEF IInv

\* A refresh is given up.
LEMMA RefreshFails ==
  ASSUME IInv, NEW g \in Gen, RefreshFailure(g)
  PROVE  IInv'
<1>1. /\ Settled /\ refresh[g].pc \in {"sent", "answered"} /\ EndFlight(g, "fail")
      /\ app' = (IF g = app.gen THEN [app EXCEPT !.error = TRUE, !.shown = refresh[g].token[1]] ELSE app)
      /\ stray' = (IF refresh[g].pc = "sent" THEN stray \cup Effective({refresh[g].token}) ELSE stray)
      /\ lost' = lost \cup {refresh[g].token[1]}
      /\ UNCHANGED <<server, reading, login, store, uncleared, life>>
  BY DEF RefreshFailure
<1>2. app \in App BY DEF IInv, TypeOK
<1>3. refresh[g].token[1] \in Login
  BY <1>1, Types, Tokens DEF IInv, Flights, Flight, Active
<1>4. /\ app' \in App /\ app'.gen = app.gen /\ app'.stored = app.stored /\ app'.tokens = app.tokens
      /\ app.error => app'.error
      /\ \/ app'.shown = app.shown
         \/ g = app.gen /\ app'.shown = refresh[g].token[1] /\ app'.error
  <2>1. PICK a : a = [app EXCEPT !.error = TRUE, !.shown = refresh[g].token[1]] OBVIOUS
  <2>2. /\ a \in App /\ a.gen = app.gen /\ a.stored = app.stored /\ a.tokens = app.tokens
        /\ a.error = TRUE /\ a.shown = refresh[g].token[1]
    BY <1>2, <1>3, <2>1 DEF App
  <2>3. app' = IF g = app.gen THEN a ELSE app BY <1>1, <2>1
  <2> QED BY <1>2, <2>2, <2>3
<1>5. stray' \subseteq stray \cup {refresh[g].token} BY <1>1 DEF Effective
<1>6. refresh[g].token[1] \in lost' BY <1>1
<1> QED BY <1>1, <1>4, <1>5, <1>6, FlightOver

\* A refresh is answered.
LEMMA RefreshAnswers ==
  ASSUME IInv, NEW g \in Gen, RefreshAnswer(g)
  PROVE  IInv'
<1>1. /\ Settled /\ refresh[g].pc = "answered"
      /\ lost' = (IF g = app.gen THEN lost ELSE lost \cup {refresh[g].token[1]})
      /\ UNCHANGED <<server, reading, login, disk, running, stray, uncleared, life>>
  BY DEF RefreshAnswer
<1>2. app \in App /\ refresh[g] \in Flight /\ Active(g) BY <1>1 DEF IInv, TypeOK, Active
<1>3. refresh[g].token[1] \in Login /\ refresh[g].answer \in Reply
  BY <1>1, <1>2, Types, Tokens DEF IInv, Flights, Flight, Reply
<1>4. CASE refresh[g].answer = "rotated" /\ g = app.gen
  <2>1. /\ Accepting(<<refresh[g].token[1], refresh[g].token[2] + 1>>, g, "refresh")
        /\ refresh' = [refresh EXCEPT ![g].pc = "saving"]
        /\ UNCHANGED <<call, leaving>>
    BY <1>4 DEF RefreshAnswer
  <2> QED BY <1>1, <1>4, <2>1, RefreshAccepts DEF ghosts, Settled
<1>5. CASE refresh[g].answer = "rotated" /\ g # app.gen
  <2>1. EndFlight(g, "ok") /\ app' = app /\ queue' = queue BY <1>5 DEF RefreshAnswer
  <2> QED BY <1>1, <1>2, <1>5, <2>1, FlightOver DEF store
<1>6. CASE refresh[g].answer = "unauthenticated" /\ g # app.gen
  <2>1. EndFlight(g, "fail") /\ app' = app /\ queue' = queue
    BY <1>6 DEF RefreshAnswer, ClearIfCurrent
  <2> QED BY <1>1, <1>2, <1>6, <2>1, FlightOver DEF store
<1>7. CASE refresh[g].answer = "unauthenticated" /\ g = app.gen
  <2>1. EndFlight(g, "fail") /\ Clear BY <1>7 DEF RefreshAnswer, ClearIfCurrent
  <2>2. app.gen < life.gens BY <1>2, <1>7, Unbounded DEF IInv, Fields
  <2>3. ~reading BY <1>2 DEF IInv, AtBoot
  <2>4. reading' = FALSE BY <1>1, <2>3 DEF IInv, TypeOK
  <2>5. /\ call' \in [Call -> Request] /\ \A k \in Call : call'[k].gen = call[k].gen
        /\ leaving' \in Leaving /\ leaving'.gen = leaving.gen /\ leaving'.pc = leaving.pc
        /\ leaving'.woken = IF leaving.pc = "opening" /\ leaving.gen = g THEN "fail" ELSE leaving.woken
    BY <2>1, EndsFlight
  <2>6. leaving.gen <= app.gen /\ leaving.woken = "no" BY <1>1 DEF IInv, Ages, Settled
  <2>7. leaving.pc = "opening" => leaving.gen = g BY <1>7, <2>6 DEF IInv, Callers
  <2>8. Waiters' /\ LogoutAllOwn' BY <2>1, EndedWaiters
  <2>9. refresh' = [refresh EXCEPT ![app.gen] = NoFlight] BY <1>7, <2>1 DEF EndFlight
  <2>10. UNCHANGED <<server, login, disk, running, stray, ghosts, life>> BY <1>1, <1>7 DEF ghosts
  <2>11. leaving'.woken # "no" => refresh'[leaving'.gen].pc # "saving"
    BY <1>7, <2>1, <2>5, <2>6, EndsFlight
  <2> QED BY <1>1, <1>7, <2>1, <2>2, <2>4, <2>5, <2>6, <2>7, <2>8, <2>9, <2>10, <2>11, ClearStep
<1>8. CASE refresh[g].answer = "limited"
  <2>1. EndFlight(g, "fail") /\ queue' = queue
        /\ app' = (IF g = app.gen
                   THEN [app EXCEPT !.throttled = TRUE, !.error = TRUE, !.shown = refresh[g].token[1]]
                   ELSE app)
    BY <1>8 DEF RefreshAnswer
  <2>2. PICK a : a = [app EXCEPT !.throttled = TRUE, !.error = TRUE, !.shown = refresh[g].token[1]]
    OBVIOUS
  <2>3. /\ a \in App /\ a.gen = app.gen /\ a.stored = app.stored /\ a.tokens = app.tokens
        /\ a.error = TRUE /\ a.shown = refresh[g].token[1]
    BY <1>2, <1>3, <2>2 DEF App
  <2>4. app' = IF g = app.gen THEN a ELSE app BY <2>1, <2>2
  <2>5. /\ app' \in App /\ app'.gen = app.gen /\ app'.stored = app.stored /\ app'.tokens = app.tokens
        /\ app.error => app'.error
        /\ \/ app'.shown = app.shown
           \/ g = app.gen /\ app'.shown = refresh[g].token[1] /\ app'.error
    BY <1>2, <2>3, <2>4
  <2>6. UNCHANGED store BY <1>1, <2>1 DEF store
  <2> QED BY <1>1, <1>8, <2>1, <2>5, <2>6, FlightOver
<1> QED BY <1>3, <1>4, <1>5, <1>6, <1>7, <1>8 DEF Reply

-----------------------------------------------------------------------------
(* The persistence queue.                                                  *)

\* What follows an operation of the store.
LEMMA Continues ==
  ASSUME IInv, NEW op \in Operation, NEW outcome \in {"ok", "failed", "skipped"},
         op.gen \in Gen, op.kind = "write" => op.token # None /\ op.by # "clear",
         op.kind = "clear" => op.by # "refresh",
         outcome = "skipped" => op.gen # app.gen, Continue(op, outcome)
  PROVE  /\ app' \in App /\ login' \in [Gen -> {"none", "erasing", "sent", "saving"}]
         /\ refresh' \in [Gen -> Flight] /\ call' \in [Call -> Request] /\ leaving' \in Leaving
         /\ app'.gen = app.gen
         /\ op.gen # app.gen \/ op.kind = "clear" => app' = app
         /\ op.gen = app.gen /\ op.kind = "write" =>
              /\ outcome = "failed" =>
                   /\ app'.stored = app.stored /\ app'.tokens = app.tokens /\ app'.error = TRUE
                   /\ app'.shown = IF op.by = "login" THEN "signedOut" ELSE op.token[1]
              /\ outcome = "ok" =>
                   /\ app'.stored = op.token /\ app'.tokens = op.token /\ app'.error = FALSE
                   /\ app'.shown = op.token[1]
         /\ \A h \in Gen : h # op.gen => login'[h] = login[h] /\ refresh'[h] = refresh[h]
         /\ op.by = "clear" => login' = login
         /\ op.by = "login" /\ op.kind = "clear" => login'[op.gen] \in {"none", "sent"}
         /\ op.by = "login" /\ op.kind = "write" => login'[op.gen] = "none"
         /\ op.by # "refresh" => refresh' = refresh /\ call' = call /\ leaving' = leaving
         /\ op.by = "refresh" =>
              /\ login' = login /\ refresh'[op.gen].pc = "none"
              /\ EndFlight(op.gen, IF outcome = "failed" THEN "fail" ELSE "ok")
<1>t. /\ app \in App /\ login \in [Gen -> {"none", "erasing", "sent", "saving"}]
      /\ refresh \in [Gen -> Flight] /\ call \in [Call -> Request] /\ leaving \in Leaving
  BY DEF IInv, TypeOK
<1>1. op.kind \in {"write", "clear"} /\ op.by \in {"login", "refresh", "clear"}
      /\ op.token \in MaybeToken
  BY DEF Operation
<1>2. op.kind = "write" => op.token \in Token /\ op.token[1] \in Login BY <1>1, Tokens
<1>3. ASSUME op.kind = "write", app' = Saved(op, outcome)
      PROVE  /\ app' \in App /\ app'.gen = app.gen
             /\ op.gen # app.gen => app' = app
             /\ op.gen = app.gen =>
                  /\ outcome = "failed" =>
                       /\ app'.stored = app.stored /\ app'.tokens = app.tokens /\ app'.error = TRUE
                       /\ app'.shown = IF op.by = "login" THEN "signedOut" ELSE op.token[1]
                  /\ outcome = "ok" =>
                       /\ app'.stored = op.token /\ app'.tokens = op.token /\ app'.error = FALSE
                       /\ app'.shown = op.token[1]
  <2>1. PICK a : a = [app EXCEPT !.error = TRUE,
                        !.shown = IF op.by = "login" THEN "signedOut" ELSE op.token[1]] OBVIOUS
  <2>2. /\ a \in App /\ a.gen = app.gen /\ a.stored = app.stored /\ a.tokens = app.tokens
        /\ a.error = TRUE /\ a.shown = IF op.by = "login" THEN "signedOut" ELSE op.token[1]
    BY <1>t, <1>2, <1>3, <2>1 DEF App
  <2>3. PICK b : b = [app EXCEPT !.stored = op.token, !.tokens = op.token, !.shown = op.token[1],
                                 !.error = FALSE, !.throttled = FALSE] OBVIOUS
  <2>4. /\ b \in App /\ b.gen = app.gen /\ b.stored = op.token /\ b.tokens = op.token
        /\ b.error = FALSE /\ b.shown = op.token[1]
    BY <1>t, <1>1, <1>2, <1>3, <2>3 DEF App
  <2>5. app' = IF op.gen # app.gen THEN app ELSE IF outcome = "failed" THEN a ELSE b
    BY <1>3, <2>1, <2>3 DEF Saved
  <2> QED BY <1>t, <2>2, <2>4, <2>5
<1>4. CASE op.by = "clear"
  <2>1. UNCHANGED <<app, login, refresh, call, leaving>> /\ op.kind = "clear"
    BY <1>1, <1>4 DEF Continue
  <2> QED BY <1>t, <1>4, <2>1
<1>5. CASE op.by = "login" /\ op.kind = "clear"
  <2>1. /\ UNCHANGED <<app, refresh, call, leaving>>
        /\ login' = [login EXCEPT ![op.gen] = IF outcome = "failed" THEN "none" ELSE "sent"]
    BY <1>5 DEF Continue
  <2> QED BY <1>t, <1>5, <2>1
<1>6. CASE op.by = "login" /\ op.kind = "write"
  <2>1. /\ UNCHANGED <<refresh, call, leaving>> /\ app' = Saved(op, outcome)
        /\ login' = [login EXCEPT ![op.gen] = "none"]
    BY <1>6 DEF Continue
  <2> QED BY <1>t, <1>3, <1>6, <2>1
<1>7. CASE op.by = "refresh"
  <2>1. /\ EndFlight(op.gen, IF outcome = "failed" THEN "fail" ELSE "ok")
        /\ app' = Saved(op, outcome) /\ login' = login /\ op.kind = "write"
    BY <1>1, <1>7 DEF Continue
  <2>2. /\ refresh' \in [Gen -> Flight] /\ call' \in [Call -> Request] /\ leaving' \in Leaving
        /\ refresh'[op.gen].pc = "none"
        /\ \A h \in Gen : h # op.gen => refresh'[h] = refresh[h]
    BY <2>1, EndsFlight
  <2> QED BY <1>t, <1>3, <1>7, <2>1, <2>2
<1> QED BY <1>1, <1>4, <1>5, <1>6, <1>7

\* The operations behind the first.
LEMMA Behind ==
  ASSUME IInv, queue # <<>>, queue' = Tail(queue)
  PROVE  /\ queue' \in Seq(Operation) /\ 1 \in Ops /\ Head(queue) = queue[1]
         /\ queue[1] \in Operation /\ queue[1].gen \in Gen
         /\ \A i \in Ops' : /\ i + 1 \in Ops /\ queue'[i] = queue[i + 1]
                            /\ queue'[i] \in Operation /\ queue'[i].gen \in Gen
                            /\ \/ queue[1].gen < queue'[i].gen
                               \/ /\ queue'[i].gen = queue[1].gen
                                  /\ queue[1].by = "login" /\ queue[1].kind = "write"
                                  /\ queue'[i].by = "refresh" /\ queue'[i].kind = "write"
         /\ \A i \in Ops : i = 1 \/ (\E j \in Ops' : queue'[j] = queue[i])
         /\ \A g, by, kind :
              Queued(g, by, kind)' <=>
                /\ Queued(g, by, kind)
                /\ ~(queue[1].gen = g /\ queue[1].by = by /\ queue[1].kind = kind)
<1>t. TypeOK BY DEF IInv
<1>1. /\ Len(queue') = Len(queue) - 1 /\ queue' \in Seq(Operation)
      /\ 1 \in Ops /\ Head(queue) = queue[1] /\ queue[1] \in Operation
      /\ \A i \in Ops' : i + 1 \in Ops /\ i + 1 > 1 /\ queue'[i] = queue[i + 1]
      /\ \A i \in Ops : i # 1 => i - 1 \in Ops' /\ queue'[i - 1] = queue[i]
  BY <1>t, Dropped
<1>2. \A i \in Ops : queue[i] \in Operation /\ queue[i].gen \in Gen /\ queue[i].gen \in Nat
  BY <1>t, Types DEF Operation
<1>3. \A i \in Ops : i > 1 =>
        \/ queue[1].gen < queue[i].gen
        \/ /\ queue[i].gen = queue[1].gen
           /\ queue[1].by = "login" /\ queue[1].kind = "write"
           /\ queue[i].by = "refresh" /\ queue[i].kind = "write"
  <2>1. \A i \in Ops : i > 1 =>
          \/ queue[1].gen < queue[i].gen
          \/ /\ queue[i].gen = queue[1].gen
             /\ queue[1].by = "login" /\ queue[1].kind = "write"
             /\ queue[i].by = "refresh"
    BY <1>1 DEF IInv, Operations
  <2>2. \A i \in Ops : queue[i].by = "refresh" => queue[i].kind = "write"
    BY <1>2 DEF IInv, Operations, Operation
  <2> QED BY <2>1, <2>2
<1>4. \A i \in Ops' : /\ i + 1 \in Ops /\ queue'[i] = queue[i + 1]
                      /\ queue'[i] \in Operation /\ queue'[i].gen \in Gen /\ queue'[i].gen \in Nat
                      /\ \/ queue[1].gen < queue'[i].gen
                         \/ /\ queue'[i].gen = queue[1].gen
                            /\ queue[1].by = "login" /\ queue[1].kind = "write"
                            /\ queue'[i].by = "refresh" /\ queue'[i].kind = "write"
  <2> SUFFICES ASSUME NEW i \in Ops'
               PROVE  /\ i + 1 \in Ops /\ queue'[i] = queue[i + 1]
                      /\ queue'[i] \in Operation /\ queue'[i].gen \in Gen /\ queue'[i].gen \in Nat
                      /\ \/ queue[1].gen < queue'[i].gen
                         \/ /\ queue'[i].gen = queue[1].gen
                            /\ queue[1].by = "login" /\ queue[1].kind = "write"
                            /\ queue'[i].by = "refresh" /\ queue'[i].kind = "write"
    OBVIOUS
  <2>1. i + 1 \in Ops /\ i + 1 > 1 /\ queue'[i] = queue[i + 1] BY <1>1
  <2>2. PICK q : q = queue[i + 1] OBVIOUS
  <2>3. q \in Operation /\ q.gen \in Gen /\ q.gen \in Nat BY <1>2, <2>1, <2>2
  <2>4. \/ queue[1].gen < q.gen
        \/ /\ q.gen = queue[1].gen
           /\ queue[1].by = "login" /\ queue[1].kind = "write"
           /\ q.by = "refresh" /\ q.kind = "write"
    BY <1>3, <2>1, <2>2
  <2> QED BY <2>1, <2>2, <2>3, <2>4
<1>5. \A i \in Ops : i = 1 \/ (\E j \in Ops' : queue'[j] = queue[i]) BY <1>1
<1>6. ASSUME NEW g, NEW by, NEW kind
      PROVE  Queued(g, by, kind)' <=>
               /\ Queued(g, by, kind)
               /\ ~(queue[1].gen = g /\ queue[1].by = by /\ queue[1].kind = kind)
  <2>1. Queued(g, by, kind)' =>
          Queued(g, by, kind) /\ ~(queue[1].gen = g /\ queue[1].by = by /\ queue[1].kind = kind)
    <3>1. SUFFICES ASSUME Queued(g, by, kind)'
                   PROVE  /\ Queued(g, by, kind)
                          /\ ~(queue[1].gen = g /\ queue[1].by = by /\ queue[1].kind = kind)
      OBVIOUS
    <3>2. PICK i \in Ops' : queue'[i].gen = g /\ queue'[i].by = by /\ queue'[i].kind = kind
      BY <3>1 DEF Queued
    <3>3. i + 1 \in Ops /\ queue[i + 1] = queue'[i] BY <1>4
    <3>4. Queued(g, by, kind) BY <3>2, <3>3 DEF Queued
    <3>5. CASE queue[1].gen < queue'[i].gen
      <4>2. PICK a : a = queue[1].gen OBVIOUS
      <4>3. PICK b : b = queue'[i].gen OBVIOUS
      <4>4. a \in Nat BY <1>1, <1>2, <4>2
      <4>5. b \in Nat BY <1>4, <4>3
      <4>6. a < b BY <3>5, <4>2, <4>3
      <4>7. a # b BY <4>4, <4>5, <4>6
      <4>1. queue[1].gen # queue'[i].gen BY <4>2, <4>3, <4>7
      <4> QED BY <3>2, <3>4, <4>1
    <3>6. CASE queue[1].by = "login" /\ queue'[i].by = "refresh" BY <3>2, <3>4, <3>6
    <3> QED BY <1>4, <3>5, <3>6
  <2>2. Queued(g, by, kind) /\ ~(queue[1].gen = g /\ queue[1].by = by /\ queue[1].kind = kind) =>
          Queued(g, by, kind)'
    <3>1. SUFFICES ASSUME NEW i \in Ops, queue[i].gen = g, queue[i].by = by, queue[i].kind = kind,
                          ~(queue[1].gen = g /\ queue[1].by = by /\ queue[1].kind = kind)
                   PROVE  \E j \in Ops' : queue'[j].gen = g /\ queue'[j].by = by /\ queue'[j].kind = kind
      BY DEF Queued
    <3>2. i # 1 BY <3>1
    <3>3. PICK j \in Ops' : queue'[j] = queue[i] BY <1>5, <3>2
    <3> QED BY <3>1, <3>3
  <2> QED BY <2>1, <2>2
<1> QED BY <1>1, <1>2, <1>4, <1>5, <1>6

\* The effect of an operation that is done, or skipped, on the store and the
\* history variables.
Done(op, outcome) ==
  /\ queue # <<>> /\ op = queue[1] /\ queue' = Tail(queue) /\ Continue(op, outcome)
  /\ running' = FALSE
  /\ outcome = "skipped" =>
       op.gen # app.gen /\ disk' = disk /\ lost' = lost \cup Written(op) /\ uncleared' = uncleared
  /\ outcome = "failed" =>
       /\ disk' \in {disk, op.token} /\ lost' = lost \cup Written(op)
       /\ uncleared' = (op.kind = "clear" \/ uncleared)
  /\ outcome = "ok" => disk' = op.token /\ lost' = lost /\ uncleared' = FALSE
  /\ UNCHANGED <<server, reading, stray, life>>

\* What an operation that is done leaves of the rest.
LEMMA AfterOperation ==
  ASSUME IInv, NEW op, NEW outcome \in {"ok", "failed", "skipped"}, Done(op, outcome)
  PROVE  /\ op \in Operation /\ op.gen \in Gen /\ 1 \in Ops /\ op = queue[1]
         /\ op.kind \in {"write", "clear"} /\ op.by \in {"login", "refresh", "clear"}
         /\ op.kind = "write" =>
              op.token \in Token /\ op.token # None /\ op.token[1] \in Login /\ op.by # "clear"
         /\ op.kind = "clear" => op.token = None /\ op.by # "refresh"
         /\ op.gen # app.gen \/ app.stored = None => app' = app
         /\ op.gen # app.gen => app.stored = None
         /\ app.stored # None =>
              op.gen = app.gen /\ op.kind = "write" /\ op.token[1] = app.stored[1]
         /\ app'.stored # None <=> app.stored # None
         /\ app.stored # None => app'.stored[1] = app.stored[1]
         /\ \A h \in Gen : (refresh'[h].pc # "none") =>
              Active(h) /\ refresh'[h] = refresh[h] /\ (op.by = "refresh" => h # op.gen)
         /\ \A h \in Gen : Active(h) =>
              (refresh'[h].pc # "none") \/ (op.by = "refresh" /\ h = op.gen)
         /\ lost \subseteq lost' /\ (outcome # "ok" /\ op.kind = "write" => op.token[1] \in lost')
         /\ outcome = "skipped" => app' = app /\ op.gen # app.gen
<1>t. TypeOK BY DEF IInv
<1>1. /\ queue # <<>> /\ op = queue[1] /\ queue' = Tail(queue) /\ Continue(op, outcome)
      /\ outcome = "skipped" => op.gen # app.gen
  BY DEF Done
<1>2. op \in Operation /\ op.gen \in Gen /\ 1 \in Ops BY <1>1, Behind
<1>3. op.kind \in {"write", "clear"} /\ op.by \in {"login", "refresh", "clear"}
      /\ op.token \in MaybeToken
  BY <1>2 DEF Operation
<1>4. /\ op.kind = "write" =>
           op.token \in Token /\ op.token # None /\ op.token[1] \in Login /\ op.by # "clear"
      /\ op.kind = "clear" => op.token = None /\ op.by # "refresh"
  <2>1. /\ op.kind = "write" => op.token # None /\ op.by # "clear"
        /\ op.kind = "clear" => op.token = None /\ op.by # "refresh"
    BY <1>1, <1>2 DEF IInv, Operations
  <2> QED BY <1>3, <2>1, Tokens
<1>5. app.stored # None => op.gen = app.gen /\ op.kind = "write" /\ op.token[1] = app.stored[1]
  BY <1>1, <1>2, <1>t, OnlyOwnWrites DEF IInv
<1>6. op.gen = app.gen /\ op.kind = "write" => app.stored # None
  BY <1>1, <1>2 DEF IInv, Operations
<1>7. /\ op.gen # app.gen \/ op.kind = "clear" => app' = app
      /\ op.gen = app.gen /\ op.kind = "write" =>
           /\ outcome = "failed" => app'.stored = app.stored
           /\ outcome = "ok" => app'.stored = op.token
      /\ \A h \in Gen : h # op.gen => refresh'[h] = refresh[h]
      /\ op.by # "refresh" => refresh' = refresh
      /\ op.by = "refresh" => refresh'[op.gen].pc = "none"
  BY <1>1, <1>2, <1>4, Continues
<1>8. /\ op.gen # app.gen \/ app.stored = None => app' = app
      /\ app'.stored # None <=> app.stored # None
      /\ app.stored # None => app'.stored[1] = app.stored[1]
  BY <1>1, <1>3, <1>4, <1>5, <1>6, <1>7
<1>9. /\ \A h \in Gen : (refresh'[h].pc # "none") =>
           Active(h) /\ refresh'[h] = refresh[h] /\ (op.by = "refresh" => h # op.gen)
      /\ \A h \in Gen : Active(h) =>
           (refresh'[h].pc # "none") \/ (op.by = "refresh" /\ h = op.gen)
  BY <1>2, <1>7 DEF Active
<1>10. lost \subseteq lost' /\ (outcome # "ok" /\ op.kind = "write" => op.token[1] \in lost')
  BY DEF Done, Written
<1> QED BY <1>1, <1>2, <1>3, <1>4, <1>5, <1>7, <1>8, <1>9, <1>10

\* The callers of an operation that is done: they are as they were, or the
\* flight of its generation ends.
LEMMA CallersOf ==
  ASSUME IInv, NEW op, NEW outcome \in {"ok", "failed", "skipped"}, Done(op, outcome)
  PROVE  /\ Waiters' /\ LogoutAllOwn'
         /\ \A k \in Call :
              /\ call'[k].gen = call[k].gen /\ call'[k].pc = call[k].pc
              /\ call'[k].token = call[k].token
              /\ \/ call'[k].woken = call[k].woken
                 \/ /\ op.by = "refresh" /\ call[k].gen = op.gen
                    /\ call'[k].woken = IF outcome = "failed" THEN "fail" ELSE "ok"
         /\ leaving'.pc = leaving.pc /\ leaving'.gen = leaving.gen /\ leaving'.of = leaving.of
         /\ leaving'.token = leaving.token
         /\ leaving'.woken =
              IF op.by = "refresh" /\ leaving.pc = "opening" /\ leaving.gen = op.gen
              THEN IF outcome = "failed" THEN "fail" ELSE "ok"
              ELSE leaving.woken
<1>1. /\ op \in Operation /\ op.gen \in Gen /\ op.kind \in {"write", "clear"}
      /\ op.kind = "write" => op.token # None /\ op.by # "clear"
      /\ op.kind = "clear" => op.by # "refresh"
      /\ outcome = "skipped" => op.gen # app.gen
  BY AfterOperation
<1>2. Continue(op, outcome) BY DEF Done
<1>3. /\ op.by # "refresh" => refresh' = refresh /\ call' = call /\ leaving' = leaving
      /\ op.by = "refresh" => EndFlight(op.gen, IF outcome = "failed" THEN "fail" ELSE "ok")
  BY <1>1, <1>2, Continues
<1>4. CASE op.by = "refresh"
  <2>1. PICK o \in {"ok", "fail"} : o = IF outcome = "failed" THEN "fail" ELSE "ok" OBVIOUS
  <2>2. EndFlight(op.gen, o) BY <1>3, <1>4, <2>1
  <2>3. Waiters' /\ LogoutAllOwn' BY <1>1, <2>2, EndedWaiters
  <2>4. /\ \A k \in Call :
             /\ call'[k].gen = call[k].gen /\ call'[k].pc = call[k].pc
             /\ call'[k].token = call[k].token
             /\ call'[k].woken = IF k \in Waiting(op.gen) THEN o ELSE call[k].woken
        /\ leaving'.pc = leaving.pc /\ leaving'.gen = leaving.gen /\ leaving'.of = leaving.of
        /\ leaving'.token = leaving.token
        /\ leaving'.woken = IF leaving.pc = "opening" /\ leaving.gen = op.gen THEN o
                            ELSE leaving.woken
    BY <1>1, <2>2, EndsFlight
  <2>5. \A k \in Waiting(op.gen) : call[k].gen = op.gen BY DEF Waiting
  <2> QED BY <1>4, <2>1, <2>3, <2>4, <2>5
<1>5. CASE op.by # "refresh"
  <2>1. refresh' = refresh /\ call' = call /\ leaving' = leaving /\ life' = life
    BY <1>3, <1>5 DEF Done
  <2>2. Waiters' /\ LogoutAllOwn' BY <2>1 DEF IInv, Waiters, LogoutAllOwn, Active
  <2> QED BY <1>5, <2>1, <2>2
<1> QED BY <1>4, <1>5

\* What a current write leaves of the session in use.
LEMMA SavedSession ==
  ASSUME IInv, NEW op, NEW outcome \in {"ok", "failed", "skipped"}, Done(op, outcome)
  PROVE  /\ app' \in App /\ app'.gen = app.gen
         /\ \/ app' = app
            \/ /\ op.gen = app.gen /\ op.kind = "write" /\ outcome = "failed"
               /\ app'.stored = app.stored /\ app'.tokens = app.tokens /\ app'.error = TRUE
               /\ app'.shown = IF op.by = "login" THEN "signedOut" ELSE op.token[1]
            \/ /\ op.gen = app.gen /\ op.kind = "write" /\ outcome = "ok"
               /\ app'.stored = op.token /\ app'.tokens = op.token /\ app'.error = FALSE
               /\ app'.shown = op.token[1]
         /\ op.gen = app.gen /\ op.kind = "write" /\ outcome = "ok" =>
              app'.stored = op.token /\ app'.tokens = op.token
         /\ outcome # "ok" => app'.stored = app.stored /\ app'.tokens = app.tokens
<1>1. /\ op \in Operation /\ op.gen \in Gen /\ op.kind \in {"write", "clear"}
      /\ op.kind = "write" => op.token # None /\ op.by # "clear"
      /\ op.kind = "clear" => op.by # "refresh"
      /\ outcome = "skipped" => op.gen # app.gen
      /\ outcome = "skipped" => app' = app
  BY AfterOperation
<1>2. Continue(op, outcome) BY DEF Done
<1>3. /\ app' \in App /\ app'.gen = app.gen
      /\ op.gen # app.gen \/ op.kind = "clear" => app' = app
      /\ op.gen = app.gen /\ op.kind = "write" =>
           /\ outcome = "failed" =>
                /\ app'.stored = app.stored /\ app'.tokens = app.tokens /\ app'.error = TRUE
                /\ app'.shown = IF op.by = "login" THEN "signedOut" ELSE op.token[1]
           /\ outcome = "ok" =>
                /\ app'.stored = op.token /\ app'.tokens = op.token /\ app'.error = FALSE
                /\ app'.shown = op.token[1]
  BY <1>1, <1>2, Continues
<1> QED BY <1>1, <1>3

\* The logins and the operations of a login or a refresh that are left.
LEMMA OwingAfter ==
  ASSUME IInv, NEW op, NEW outcome \in {"ok", "failed", "skipped"}, Done(op, outcome)
  PROVE  /\ Owing'
         /\ \A g \in Gen : login'[g] # "none" => login[g] # "none"
         /\ \A g \in Gen : login'[g] \in {"erasing", "saving"} => login'[g] = login[g]
         /\ \A g \in Gen : login'[g] = "sent" =>
              login[g] = "sent" \/ (g = op.gen /\ op.by = "login" /\ op.kind = "clear")
         /\ op.by = "login" => login[op.gen] = IF op.kind = "clear" THEN "erasing" ELSE "saving"
         /\ op.by = "refresh" => refresh[op.gen].pc = "saving" /\ login[op.gen] # "saving"
         /\ \A g \in Gen : login'[g] = "saving" /\ g = op.gen => op.by = "clear"
<1>1. /\ op \in Operation /\ op.gen \in Gen /\ 1 \in Ops /\ op = queue[1]
      /\ op.kind \in {"write", "clear"} /\ op.by \in {"login", "refresh", "clear"}
      /\ op.kind = "write" => op.token # None /\ op.by # "clear"
      /\ op.kind = "clear" => op.by # "refresh"
      /\ outcome = "skipped" => op.gen # app.gen
  BY AfterOperation
<1>2. Continue(op, outcome) /\ queue # <<>> /\ queue' = Tail(queue) /\ life' = life BY DEF Done
<1>3. /\ \A h \in Gen : h # op.gen => login'[h] = login[h] /\ refresh'[h] = refresh[h]
      /\ op.by = "clear" => login' = login
      /\ op.by = "login" /\ op.kind = "clear" => login'[op.gen] \in {"none", "sent"}
      /\ op.by = "login" /\ op.kind = "write" => login'[op.gen] = "none"
      /\ op.by # "refresh" => refresh' = refresh
      /\ op.by = "refresh" => login' = login /\ refresh'[op.gen].pc = "none"
  BY <1>1, <1>2, Continues
<1>4. \A g, by, kind :
        Queued(g, by, kind)' <=>
          Queued(g, by, kind) /\ ~(op.gen = g /\ op.by = by /\ op.kind = kind)
  BY <1>1, <1>2, Behind
<1>5. Queued(op.gen, op.by, op.kind) BY <1>1 DEF Queued
<1>6. \A g \in Gen :
        /\ refresh[g].pc = "saving" <=> Queued(g, "refresh", "write")
        /\ login[g] = "erasing" <=> Queued(g, "login", "clear")
        /\ login[g] = "saving" <=> Queued(g, "login", "write")
  BY DEF IInv, Owing
<1>7. op.by = "refresh" => ~Queued(op.gen, "login", "write")
  <2>1. SUFFICES ASSUME op.by = "refresh", Queued(op.gen, "login", "write") PROVE FALSE OBVIOUS
  <2>2. Queued(op.gen, "login", "write")' BY <1>4, <2>1
  <2>3. PICK i \in Ops' : queue'[i].gen = op.gen /\ queue'[i].by = "login" BY <2>2 DEF Queued
  <2>4. queue[1].gen < queue'[i].gen \/ queue'[i].by = "refresh" BY <1>2, Behind
  <2>5. queue[1].gen \in Nat BY <1>1, Types DEF IInv
  <2> QED BY <1>1, <2>3, <2>4, <2>5
<1>8. Gen' = Gen BY <1>2, SameTypes
<1>9. Owing'
  <2>1. SUFFICES ASSUME NEW g \in Gen
                 PROVE  /\ refresh'[g].pc = "saving" <=> Queued(g, "refresh", "write")'
                        /\ login'[g] = "erasing" <=> Queued(g, "login", "clear")'
                        /\ login'[g] = "saving" <=> Queued(g, "login", "write")'
    BY <1>8 DEF Owing
  <2>2. CASE g # op.gen BY <1>3, <1>4, <1>6, <2>2
  <2>3. CASE g = op.gen BY <1>1, <1>3, <1>4, <1>5, <1>6, <2>3
  <2> QED BY <2>2, <2>3
<1> QED BY <1>1, <1>3, <1>5, <1>6, <1>7, <1>9

\* The generations and the session after an operation.
LEMMA AgesAfter ==
  ASSUME IInv, NEW op, NEW outcome \in {"ok", "failed", "skipped"}, Done(op, outcome)
  PROVE  Ages' /\ AtBoot' /\ Fields'
<1>t. TypeOK BY DEF IInv
<1>1. /\ op \in Operation /\ op.gen \in Gen /\ 1 \in Ops /\ op = queue[1]
      /\ op.kind = "write" => op.token \in Token /\ op.token[1] \in Login
      /\ op.gen # app.gen \/ app.stored = None => app' = app
      /\ op.gen # app.gen => app.stored = None
      /\ app.stored # None =>
           op.gen = app.gen /\ op.kind = "write" /\ op.token[1] = app.stored[1]
      /\ app'.stored # None <=> app.stored # None
      /\ app.stored # None => app'.stored[1] = app.stored[1]
      /\ \A h \in Gen : (refresh'[h].pc # "none") => Active(h)
      /\ op.kind \in {"write", "clear"} /\ op.by \in {"login", "refresh", "clear"}
  BY AfterOperation
<1>2. /\ app' \in App /\ app'.gen = app.gen
      /\ \/ app' = app
         \/ /\ op.gen = app.gen /\ op.kind = "write" /\ outcome = "failed"
            /\ app'.stored = app.stored /\ app'.tokens = app.tokens /\ app'.error = TRUE
            /\ app'.shown = IF op.by = "login" THEN "signedOut" ELSE op.token[1]
         \/ /\ op.gen = app.gen /\ op.kind = "write" /\ outcome = "ok"
            /\ app'.stored = op.token /\ app'.tokens = op.token /\ app'.error = FALSE
            /\ app'.shown = op.token[1]
  BY SavedSession
<1>3. /\ \A g \in Gen : login'[g] # "none" => login[g] # "none"
      /\ \A g \in Gen : login'[g] \in {"erasing", "saving"} => login'[g] = login[g]
      /\ \A g \in Gen : login'[g] = "sent" =>
           login[g] = "sent" \/ (g = op.gen /\ op.by = "login" /\ op.kind = "clear")
      /\ op.by = "login" => login[op.gen] = IF op.kind = "clear" THEN "erasing" ELSE "saving"
      /\ op.by = "refresh" => login[op.gen] # "saving"
      /\ \A g \in Gen : login'[g] = "saving" /\ g = op.gen => op.by = "clear"
  BY OwingAfter
<1>4. /\ \A k \in Call : call'[k].gen = call[k].gen
      /\ leaving'.gen = leaving.gen
  BY CallersOf
<1>5. Gen' = Gen /\ life' = life /\ reading' = reading /\ queue # <<>> BY SameTypes DEF Done
<1>6. app.gen \in Gen BY <1>t, Types
<1>7. Ages'
  <2>1. app.gen = life.gens => app' = app BY <1>1 DEF IInv, Ages
  <2>2. app.gen = life.gens => login'[app.gen] = "none" BY <1>3, <1>6 DEF IInv, Ages
  <2>3. \A g \in Gen : g > app.gen => login'[g] = "none" /\ ~(refresh'[g].pc # "none")
    BY <1>1, <1>3 DEF IInv, Ages
  <2>4. app.gen = life.gens => app.stored = None /\ app.shown = "signedOut" BY DEF IInv, Ages
  <2>5. (\A k \in Call : call[k].gen <= app.gen) /\ leaving.gen <= app.gen BY DEF IInv, Ages
  <2> QED BY <1>2, <1>4, <1>5, <2>1, <2>2, <2>3, <2>4, <2>5 DEF Ages, Active
<1>8. AtBoot' BY <1>5 DEF IInv, AtBoot
<1>9. app'.shown \in Login => app'.stored # None
  <2>1. app.shown \in Login => app.stored # None BY DEF IInv, Fields
  <2> QED BY <1>1, <1>2, <2>1
<1>10. app'.tokens # None =>
         app'.stored # None /\ app'.tokens[1] = app'.stored[1] /\ app'.tokens[2] <= app'.stored[2]
  <2>1. app.tokens # None =>
          app.stored # None /\ app.tokens[1] = app.stored[1] /\ app.tokens[2] <= app.stored[2]
    BY DEF IInv, Fields
  <2>2. op.kind = "write" => op.token # None /\ op.token[2] \in Nat BY <1>1, Tokens
  <2> QED BY <1>2, <2>1, <2>2
<1>11. app'.gen = 0 => app'.shown # "signedOut"
  <2>1. app.gen = 0 => app.shown # "signedOut" BY DEF IInv, Fields
  <2>2. op.gen = app.gen /\ op.by = "login" => app.gen > 0
    BY <1>1, <1>3 DEF IInv, Fields
  <2>3. op.kind = "write" => op.token[1] # "signedOut" BY <1>1, NoneAssumption
  <2> QED BY <1>2, <1>6, <2>1, <2>2, <2>3, <1>t, Types
<1>12. \A g \in Gen : login'[g] # "none" => g > 0 BY <1>3 DEF IInv, Fields
<1>13. login'[app.gen] \in {"erasing", "sent"} => app'.stored = None
  <2>1. login[app.gen] \in {"erasing", "sent"} => app.stored = None BY DEF IInv, Fields
  <2>2. login'[app.gen] \in {"erasing", "sent"} =>
          login[app.gen] \in {"erasing", "sent"} \/ (op.gen = app.gen /\ op.kind = "clear")
    BY <1>3, <1>6
  <2>3. op.gen = app.gen /\ op.kind = "clear" => app.stored = None BY <1>1
  <2> QED BY <1>1, <2>1, <2>2, <2>3
<1>14. login'[app.gen] = "saving" => app'.tokens = None /\ (app'.shown \in Login => app'.error)
  <2>1. SUFFICES ASSUME login'[app.gen] = "saving"
                 PROVE  app'.tokens = None /\ (app'.shown \in Login => app'.error)
    OBVIOUS
  <2>2. login[app.gen] = "saving" BY <1>3, <1>6, <2>1
  <2>3. op.gen = app.gen => op.by = "clear" BY <1>3, <1>6, <2>1
  <2>4. op.by = "clear" => op.kind = "clear" BY <1>1 DEF IInv, Operations
  <2>5. app' = app BY <1>2, <2>3, <2>4
  <2> QED BY <2>2, <2>5 DEF IInv, Fields
<1>15. (refresh'[app.gen].pc # "none") => app'.stored # None
  BY <1>1, <1>6 DEF IInv, Fields
<1>16. Fields'
  BY <1>2, <1>5, <1>9, <1>10, <1>11, <1>12, <1>13, <1>14, <1>15 DEF Fields, Active
<1> QED BY <1>7, <1>8, <1>16

\* The operations behind one that is done.
LEMMA OperationsAfter ==
  ASSUME IInv, NEW op, NEW outcome \in {"ok", "failed", "skipped"}, Done(op, outcome)
  PROVE  Operations' /\ SignedOutIsErased'
<1>t. TypeOK BY DEF IInv
<1>1. /\ op \in Operation /\ op.gen \in Gen /\ 1 \in Ops /\ op = queue[1]
      /\ op.kind \in {"write", "clear"} /\ op.by \in {"login", "refresh", "clear"}
      /\ op.kind = "write" => op.by # "clear"
      /\ op.kind = "clear" => op.token = None /\ op.by # "refresh"
      /\ outcome = "skipped" => op.gen # app.gen
      /\ app'.stored # None <=> app.stored # None
      /\ app.stored # None => app'.stored[1] = app.stored[1]
  BY AfterOperation
<1>2. /\ queue # <<>> /\ queue' = Tail(queue) /\ life' = life /\ running' = FALSE
      /\ Continue(op, outcome)
  BY DEF Done
<1>3. /\ \A h \in Gen : h # op.gen => login'[h] = login[h] /\ refresh'[h] = refresh[h]
      /\ op.by # "refresh" => refresh' = refresh
  BY <1>1, <1>2, Continues DEF IInv, Operations
<1>4. /\ app'.gen = app.gen BY SavedSession
<1>5. /\ Len(queue') = Len(queue) - 1 /\ queue' \in Seq(Operation)
      /\ \A i \in Ops' : /\ i + 1 \in Ops /\ queue'[i] = queue[i + 1]
                         /\ queue'[i] \in Operation /\ queue'[i].gen \in Gen
                         /\ \/ op.gen < queue'[i].gen
                            \/ /\ queue'[i].gen = op.gen
                               /\ op.by = "login" /\ op.kind = "write"
                               /\ queue'[i].by = "refresh" /\ queue'[i].kind = "write"
      /\ \A i \in Ops : i = 1 \/ (\E j \in Ops' : queue'[j] = queue[i])
  BY <1>1, <1>2, <1>t, Behind, Dropped
<1>6. /\ Len(queue) \in Nat /\ Ops = 1 .. Len(queue) /\ Gen \subseteq Nat BY <1>t, Types
<1>7. Ops' = 1 .. Len(queue') /\ Len(queue') \in Nat BY <1>5 DEF Ops
<1>8. ASSUME NEW i \in Ops'
      PROVE  LET o == queue'[i] IN
             /\ o.gen <= app.gen
             /\ o.kind = "clear" => o.gen > 0 /\ o.token = None /\ o.by # "refresh"
             /\ o.kind = "write" => o.token # None /\ o.by # "clear"
             /\ o.by = "clear" => login'[o.gen] = "none"
             /\ o.by = "login" /\ o.kind = "write" => o.token[2] = 1
             /\ o.by = "refresh" =>
                  /\ o.token[1] = refresh'[o.gen].token[1]
                  /\ o.token[2] = refresh'[o.gen].token[2] + 1
  <2>1. PICK o : o = queue'[i] OBVIOUS
  <2>2. i + 1 \in Ops /\ o = queue[i + 1] /\ o.gen \in Gen BY <1>5, <2>1
  <2>3. /\ o.gen <= app.gen
        /\ o.kind = "clear" => o.gen > 0 /\ o.token = None /\ o.by # "refresh"
        /\ o.kind = "write" => o.token # None /\ o.by # "clear"
        /\ o.by = "clear" => login[o.gen] = "none"
        /\ o.by = "login" /\ o.kind = "write" => o.token[2] = 1
        /\ o.by = "refresh" =>
             /\ o.token[1] = refresh[o.gen].token[1]
             /\ o.token[2] = refresh[o.gen].token[2] + 1
    BY <2>2 DEF IInv, Operations
  <2>4. \/ op.gen < o.gen
        \/ op.by = "login" /\ o.by = "refresh"
    BY <1>5, <2>1
  <2>5. op.gen \in Nat /\ o.gen \in Nat BY <1>1, <1>6, <2>2
  <2>6. o.by = "clear" => login'[o.gen] = "none" BY <1>3, <2>2, <2>3, <2>4, <2>5
  <2>7. o.by = "refresh" => refresh'[o.gen] = refresh[o.gen] BY <1>3, <2>2, <2>4, <2>5
  <2> QED BY <2>1, <2>3, <2>6, <2>7
<1>9. ASSUME NEW i \in Ops', NEW j \in Ops', i < j
      PROVE  \/ queue'[i].gen < queue'[j].gen
             \/ /\ queue'[i].gen = queue'[j].gen
                /\ queue'[i].by = "login" /\ queue'[i].kind = "write" /\ queue'[j].by = "refresh"
  <2>1. /\ i + 1 \in Ops /\ j + 1 \in Ops
        /\ queue'[i] = queue[i + 1] /\ queue'[j] = queue[j + 1]
    BY <1>5
  <2>2. i + 1 < j + 1 BY <1>7, <1>9
  <2> QED BY <2>1, <2>2 DEF IInv, Operations
<1>10. ASSUME NEW i \in Ops', queue'[i].gen # app.gen
       PROVE  queue'[Len(queue')].gen = app.gen /\ queue'[Len(queue')].kind = "clear"
  <2>1. Len(queue') \in Ops' BY <1>7
  <2>2. queue'[Len(queue')] = queue[Len(queue)] BY <1>5, <1>6, <1>7, <2>1
  <2>3. i + 1 \in Ops /\ queue[i + 1].gen # app.gen BY <1>5, <1>10
  <2>4. queue[Len(queue)].gen = app.gen /\ queue[Len(queue)].kind = "clear"
    BY <2>3 DEF IInv, Operations
  <2> QED BY <2>2, <2>4
<1>11. ASSUME NEW i \in Ops', queue'[i].gen = app.gen
       PROVE  IF queue'[i].kind = "clear" THEN app'.stored = None
              ELSE app'.stored # None /\ queue'[i].token[1] = app'.stored[1]
  <2>1. i + 1 \in Ops /\ queue'[i] = queue[i + 1] BY <1>5
  <2>2. IF queue'[i].kind = "clear" THEN app.stored = None
        ELSE app.stored # None /\ queue'[i].token[1] = app.stored[1]
    BY <1>11, <2>1 DEF IInv, Operations
  <2> QED BY <1>1, <2>2
<1>12. Operations'
  <2>1. \A i \in Ops' :
          LET o == queue'[i] IN
          /\ o.gen <= app'.gen
          /\ o.kind = "clear" => o.gen > 0 /\ o.token = None /\ o.by # "refresh"
          /\ o.kind = "write" => o.token # None /\ o.by # "clear"
          /\ o.by = "clear" => login'[o.gen] = "none"
          /\ o.by = "login" /\ o.kind = "write" => o.token[2] = 1
          /\ o.by = "refresh" =>
               /\ o.token[1] = refresh'[o.gen].token[1]
               /\ o.token[2] = refresh'[o.gen].token[2] + 1
    BY <1>4, <1>8
  <2>2. \A i, j \in Ops' : i < j =>
          \/ queue'[i].gen < queue'[j].gen
          \/ /\ queue'[i].gen = queue'[j].gen
             /\ queue'[i].by = "login" /\ queue'[i].kind = "write" /\ queue'[j].by = "refresh"
    BY <1>9
  <2>3. \A i \in Ops' : queue'[i].gen # app'.gen =>
          queue'[Len(queue')].gen = app'.gen /\ queue'[Len(queue')].kind = "clear"
    BY <1>4, <1>10
  <2>4. \A i \in Ops' : queue'[i].gen = app'.gen =>
          IF queue'[i].kind = "clear" THEN app'.stored = None
          ELSE app'.stored # None /\ queue'[i].token[1] = app'.stored[1]
    BY <1>4, <1>11
  <2>5. running' => queue' # <<>> BY <1>2
  <2> QED BY <2>1, <2>2, <2>3, <2>4, <2>5 DEF Operations
<1>13. SignedOutIsErased'
  <2>1. SUFFICES ASSUME app.gen > 0, app.stored = None
                 PROVE  \/ disk' = None \/ uncleared'
                        \/ \E i \in Ops' : queue'[i].kind = "clear" /\ queue'[i].gen = app.gen
    BY <1>1, <1>4 DEF SignedOutIsErased
  <2>2. PICK i \in Ops : queue[i].kind = "clear" /\ queue[i].gen = app.gen
    <3>1. CASE op.gen = app.gen
      <4>1. op.kind = "clear" BY <1>1, <2>1, <3>1 DEF IInv, Operations
      <4> QED BY <1>1, <3>1, <4>1
    <3>2. CASE op.gen # app.gen
      <4>1. queue[Len(queue)].gen = app.gen /\ queue[Len(queue)].kind = "clear"
        BY <1>1, <3>2 DEF IInv, Operations
      <4>2. Len(queue) \in Ops BY <1>1, <1>6
      <4> QED BY <4>1, <4>2
    <3> QED BY <3>1, <3>2
  <2>3. CASE i = 1
    <3>1. op.kind = "clear" /\ op.gen = app.gen /\ op.token = None BY <1>1, <2>2, <2>3
    <3>2. outcome \in {"ok", "failed"} BY <1>1, <3>1
    <3> QED BY <3>1, <3>2 DEF Done
  <2>4. CASE i # 1
    <3>1. PICK j \in Ops' : queue'[j] = queue[i] BY <1>5, <2>4
    <3> QED BY <2>2, <3>1
  <2> QED BY <2>3, <2>4
<1> QED BY <1>12, <1>13

\* The flights and the callers after an operation.
LEMMA FlightsAfter ==
  ASSUME IInv, NEW op, NEW outcome \in {"ok", "failed", "skipped"}, Done(op, outcome)
  PROVE  Flights' /\ Callers'
<1>t. TypeOK BY DEF IInv
<1>1. /\ op \in Operation /\ op.gen \in Gen /\ 1 \in Ops /\ op = queue[1]
      /\ op.kind \in {"write", "clear"} /\ op.by \in {"login", "refresh", "clear"}
      /\ op.kind = "write" => op.token \in Token /\ op.token # None
      /\ op.kind = "clear" => op.by # "refresh"
      /\ app.stored # None =>
           op.gen = app.gen /\ op.kind = "write" /\ op.token[1] = app.stored[1]
      /\ app'.stored # None <=> app.stored # None
      /\ app.stored # None => app'.stored[1] = app.stored[1]
      /\ \A h \in Gen : (refresh'[h].pc # "none") =>
           Active(h) /\ refresh'[h] = refresh[h] /\ (op.by = "refresh" => h # op.gen)
      /\ \A h \in Gen : Active(h) =>
           (refresh'[h].pc # "none") \/ (op.by = "refresh" /\ h = op.gen)
      /\ outcome = "skipped" => op.gen # app.gen
  BY AfterOperation
<1>2. /\ app'.gen = app.gen
      /\ \/ app' = app
         \/ /\ op.gen = app.gen /\ op.kind = "write" /\ outcome = "failed"
            /\ app'.stored = app.stored /\ app'.tokens = app.tokens
         \/ /\ op.gen = app.gen /\ op.kind = "write" /\ outcome = "ok"
            /\ app'.stored = op.token /\ app'.tokens = op.token
      /\ op.gen = app.gen /\ op.kind = "write" /\ outcome = "ok" =>
           app'.stored = op.token /\ app'.tokens = op.token
  BY SavedSession
<1>3. /\ \A g \in Gen : login'[g] \in {"erasing", "saving"} => login'[g] = login[g]
      /\ op.by = "login" => login[op.gen] = IF op.kind = "clear" THEN "erasing" ELSE "saving"
      /\ op.by = "refresh" => refresh[op.gen].pc = "saving"
  BY OwingAfter
<1>4. /\ \A k \in Call :
           /\ call'[k].gen = call[k].gen /\ call'[k].pc = call[k].pc
           /\ call'[k].token = call[k].token
           /\ \/ call'[k].woken = call[k].woken
              \/ /\ op.by = "refresh" /\ call[k].gen = op.gen
                 /\ call'[k].woken = IF outcome = "failed" THEN "fail" ELSE "ok"
      /\ leaving'.pc = leaving.pc /\ leaving'.gen = leaving.gen /\ leaving'.of = leaving.of
      /\ leaving'.token = leaving.token
      /\ leaving'.woken =
           IF op.by = "refresh" /\ leaving.pc = "opening" /\ leaving.gen = op.gen
           THEN IF outcome = "failed" THEN "fail" ELSE "ok"
           ELSE leaving.woken
  BY CallersOf
<1>5. Gen' = Gen BY SameTypes DEF Done
<1>6. app.gen \in Gen /\ \A h \in Gen : refresh[h] \in Flight BY <1>t, Types
<1>7. Flights'
  <2>1. SUFFICES ASSUME NEW g \in Gen, refresh'[g].pc # "none"
                 PROVE  LET f == refresh'[g] IN
                        /\ f.token # None
                        /\ f.answer = "none" <=> f.pc = "sent"
                        /\ f.pc = "saving" => f.answer = "rotated"
                        /\ g = app.gen /\ f.pc # "saving" => f.token = app'.stored
                        /\ g = app.gen => f.token[1] = app'.stored[1]
                        /\ g = app.gen /\ app'.tokens # None => f.token[2] >= app'.tokens[2]
    BY <1>2, <1>5 DEF Flights, Active
  <2>2. Active(g) /\ refresh'[g] = refresh[g] /\ (op.by = "refresh" => g # op.gen) BY <1>1, <2>1
  <2>3. PICK f : f = refresh[g] OBVIOUS
  <2>4. /\ f.token # None
        /\ f.answer = "none" <=> f.pc = "sent"
        /\ f.pc = "saving" => f.answer = "rotated"
        /\ g = app.gen /\ f.pc # "saving" => f.token = app.stored
        /\ g = app.gen => f.token[1] = app.stored[1]
        /\ g = app.gen /\ app.tokens # None => f.token[2] >= app.tokens[2]
    BY <2>2, <2>3 DEF IInv, Flights
  <2>5. g = app.gen => app.stored # None BY <2>2 DEF IInv, Fields
  <2>6. f.token[2] \in Nat /\ f.token[2] >= 1 BY <1>6, <2>3, <2>4, Tokens DEF Flight
  <2>7. g = app.gen /\ f.pc # "saving" => f.token = app'.stored
    <3>1. SUFFICES ASSUME g = app.gen, f.pc # "saving" PROVE f.token = app'.stored OBVIOUS
    <3>2. op.gen = app.gen /\ op.kind = "write" /\ op.by = "login" BY <1>1, <2>2, <2>5, <3>1
      DEF IInv, Operations
    <3>3. op.token = app.stored BY <1>1, <2>3, <3>1, <3>2 DEF IInv, Device
    <3> QED BY <1>2, <2>4, <3>1, <3>3
  <2>8. g = app.gen /\ app'.tokens # None => f.token[2] >= app'.tokens[2]
    <3>1. SUFFICES ASSUME g = app.gen, app'.tokens # None PROVE f.token[2] >= app'.tokens[2]
      OBVIOUS
    <3>2. op.gen = app.gen /\ op.kind = "write" /\ op.by = "login" BY <1>1, <2>2, <2>5, <3>1
      DEF IInv, Operations
    <3>3. op.token[2] = 1 BY <1>1, <3>2 DEF IInv, Operations
    <3> QED BY <1>2, <2>4, <2>6, <3>1, <3>3
  <2> QED BY <1>1, <2>2, <2>3, <2>4, <2>5, <2>7, <2>8
<1>8. app.tokens # None => app'.tokens # None BY <1>1, <1>2
<1>9. \A k \in Call :
        call'[k].gen = app'.gen =>
          /\ call'[k].woken = "ok" => app'.tokens # None
          /\ call'[k].pc = "sent" =>
               call'[k].token # None /\ app'.stored # None /\ call'[k].token[1] = app'.stored[1]
  <2>1. SUFFICES ASSUME NEW k \in Call, call[k].gen = app.gen
                 PROVE  /\ call'[k].woken = "ok" => app'.tokens # None
                        /\ call[k].pc = "sent" =>
                             call[k].token # None /\ app'.stored # None
                             /\ call[k].token[1] = app'.stored[1]
    BY <1>2, <1>4
  <2>2. /\ call[k].woken = "ok" => app.tokens # None
        /\ call[k].pc = "sent" =>
             call[k].token # None /\ app.stored # None /\ call[k].token[1] = app.stored[1]
    BY <2>1 DEF IInv, Callers
  <2>3. call'[k].woken = "ok" => app'.tokens # None
    <3>1. CASE call'[k].woken = call[k].woken BY <1>8, <2>2, <3>1
    <3>2. CASE op.by = "refresh" /\ call[k].gen = op.gen
               /\ call'[k].woken = IF outcome = "failed" THEN "fail" ELSE "ok"
      BY <1>1, <1>2, <2>1, <3>2
    <3> QED BY <1>4, <3>1, <3>2
  <2> QED BY <1>1, <2>2, <2>3
<1>10. leaving'.pc # "none" /\ leaving'.gen = app'.gen => app'.stored # None
  BY <1>1, <1>2, <1>4 DEF IInv, Callers
<1>11. leaving.gen \in Gen BY <1>t, Types DEF Leaving
<1>12. leaving'.woken # "no" => leaving'.pc = "opening" /\ refresh'[leaving'.gen].pc # "saving"
  <2>1. leaving.woken # "no" => leaving.pc = "opening" /\ refresh[leaving.gen].pc # "saving"
    BY DEF IInv, Callers
  <2>2. refresh'[leaving.gen].pc = "saving" => refresh[leaving.gen].pc = "saving"
                                              /\ (op.by = "refresh" => leaving.gen # op.gen)
    BY <1>1, <1>11
  <2> QED BY <1>4, <2>1, <2>2
<1>13. ASSUME leaving'.pc = "opening", leaving'.woken = "no"
       PROVE  /\ leaving'.gen = app'.gen /\ app'.shown \in Login
              /\ leaving'.of = app'.stored[1] /\ login'[app'.gen] # "saving"
  <2>1. leaving.pc = "opening" /\ leaving.woken = "no" /\ (op.by = "refresh" => leaving.gen # op.gen)
    BY <1>4, <1>13
  <2>2. /\ leaving.gen = app.gen /\ app.shown \in Login
        /\ leaving.of = app.stored[1] /\ login[app.gen] # "saving"
    BY <2>1 DEF IInv, Callers
  <2>3. op.gen = app.gen => op.kind # "write"
    <3>1. op.kind = "write" => op.by \in {"login", "refresh"} BY <1>1 DEF IInv, Operations
    <3> QED BY <1>3, <2>1, <2>2, <3>1
  <2>4. app' = app BY <1>2, <2>3
  <2> QED BY <1>3, <1>4, <1>6, <2>2, <2>4
<1>14. ASSUME leaving'.woken = "ok"
       PROVE  leaving'.gen = app'.gen /\ app'.tokens # None /\ app'.tokens[1] = leaving'.of
  <2>1. CASE op.by = "refresh" /\ leaving.pc = "opening" /\ leaving.gen = op.gen
    <3>1. leaving.woken = "no" BY <1>3, <2>1 DEF IInv, Callers
    <3>2. leaving.gen = app.gen /\ leaving.of = app.stored[1] /\ app.shown \in Login
      BY <2>1, <3>1 DEF IInv, Callers
    <3>3. app.stored # None BY <3>2 DEF IInv, Fields
    <3>4. outcome = "ok" /\ app'.tokens = op.token BY <1>1, <1>2, <1>4, <1>14, <2>1, <3>2
    <3> QED BY <1>1, <1>2, <1>4, <2>1, <3>2, <3>3, <3>4
  <2>2. CASE leaving'.woken = leaving.woken
    <3>1. leaving.gen = app.gen /\ app.tokens # None /\ app.tokens[1] = leaving.of
      BY <1>14, <2>2 DEF IInv, Callers
    <3>2. app.stored # None /\ app.tokens[1] = app.stored[1] BY <3>1 DEF IInv, Fields
    <3> QED BY <1>1, <1>2, <1>4, <3>1, <3>2
  <2> QED BY <1>4, <2>1, <2>2
<1>15. Callers' BY <1>9, <1>10, <1>12, <1>13, <1>14 DEF Callers
<1> QED BY <1>7, <1>15

\* The store and the server after an operation.
LEMMA DeviceAfter ==
  ASSUME IInv, NEW op, NEW outcome \in {"ok", "failed", "skipped"}, Done(op, outcome)
  PROVE  Device' /\ Unborn' /\ Given' /\ Apart' /\ Newest'
<1>t. TypeOK BY DEF IInv
<1>1. /\ op \in Operation /\ op.gen \in Gen /\ 1 \in Ops /\ op = queue[1]
      /\ op.kind \in {"write", "clear"} /\ op.by \in {"login", "refresh", "clear"}
      /\ op.kind = "write" =>
           op.token \in Token /\ op.token # None /\ op.token[1] \in Login /\ op.by # "clear"
      /\ op.kind = "clear" => op.token = None /\ op.by # "refresh"
      /\ app.stored # None =>
           op.gen = app.gen /\ op.kind = "write" /\ op.token[1] = app.stored[1]
      /\ op.gen # app.gen => app.stored = None
      /\ app'.stored # None <=> app.stored # None
      /\ app.stored # None => app'.stored[1] = app.stored[1]
      /\ \A h \in Gen : (refresh'[h].pc # "none") =>
           Active(h) /\ refresh'[h] = refresh[h] /\ (op.by = "refresh" => h # op.gen)
      /\ \A h \in Gen : Active(h) =>
           (refresh'[h].pc # "none") \/ (op.by = "refresh" /\ h = op.gen)
      /\ lost \subseteq lost' /\ (outcome # "ok" /\ op.kind = "write" => op.token[1] \in lost')
      /\ outcome = "skipped" => op.gen # app.gen
  BY AfterOperation
<1>2. /\ app'.gen = app.gen
      /\ op.gen = app.gen /\ op.kind = "write" /\ outcome = "ok" =>
           app'.stored = op.token /\ app'.tokens = op.token
      /\ outcome # "ok" => app'.stored = app.stored /\ app'.tokens = app.tokens
      /\ app.stored = None => app' = app
  BY SavedSession, AfterOperation
<1>3. op.by = "refresh" => refresh[op.gen].pc = "saving" BY OwingAfter
<1>4. /\ queue # <<>> /\ queue' = Tail(queue)
      /\ family' = family /\ newest' = newest /\ stray' = stray /\ life' = life
      /\ outcome = "ok" => disk' = op.token /\ lost' = lost
      /\ outcome # "ok" => disk' \in {disk, op.token}
      /\ outcome = "skipped" => disk' = disk
      /\ lost' \subseteq lost \cup Written(op)
  BY DEF Done, server
<1>5. /\ \A i \in Ops' : /\ i + 1 \in Ops /\ queue'[i] = queue[i + 1]
                         /\ queue'[i] \in Operation /\ queue'[i].gen \in Gen
                         /\ \/ op.gen < queue'[i].gen
                            \/ /\ queue'[i].gen = op.gen
                               /\ op.by = "login" /\ op.kind = "write"
                               /\ queue'[i].by = "refresh" /\ queue'[i].kind = "write"
      /\ \A i \in Ops : i = 1 \/ (\E j \in Ops' : queue'[j] = queue[i])
  BY <1>1, <1>4, Behind
<1>6. \A i \in Ops' : \E j \in Ops : queue[j] = queue'[i] BY <1>5
<1>7. /\ Gen' = Gen /\ Gen \subseteq Nat /\ app.gen \in Gen
      /\ \A s \in Login : newest[s] \in Nat
      /\ \A h \in Gen : refresh[h] \in Flight
  BY <1>4, <1>t, SameTypes, Types
<1>8. op.kind = "write" => op.token[2] \in Nat /\ op.token[2] >= 1 /\ op.token[2] <= newest[op.token[1]]
  BY <1>1, Tokens DEF IInv, Given, Issued
<1>9. Device'
  <2>1. ASSUME app'.tokens # None
        PROVE  /\ disk' # None /\ disk'[1] = app'.tokens[1] /\ disk'[2] >= app'.tokens[2]
               /\ \A i \in Ops' : queue'[i].token # None => queue'[i].token[2] >= app'.tokens[2]
    <3>1. app.stored # None BY <1>2, <2>1 DEF IInv, Fields
    <3>2. op.gen = app.gen /\ op.kind = "write" /\ op.token[1] = app.stored[1] BY <1>1, <3>1
    <3>3. CASE outcome = "ok"
      <4>1. app'.tokens = op.token /\ disk' = op.token BY <1>2, <1>4, <3>2, <3>3
      <4>2. ASSUME NEW i \in Ops', queue'[i].token # None
            PROVE  queue'[i].token[2] >= op.token[2]
        <5>1. PICK o : o = queue'[i] OBVIOUS
        <5>2. /\ i + 1 \in Ops /\ o = queue[i + 1] /\ o \in Operation /\ o.gen \in Gen
              /\ \/ op.gen < o.gen
                 \/ o.gen = op.gen /\ op.by = "login" /\ o.by = "refresh" /\ o.kind = "write"
          BY <1>5, <5>1
        <5>3. o.gen <= app.gen BY <5>2 DEF IInv, Operations
        <5>4. op.gen \in Nat /\ o.gen \in Nat BY <1>1, <1>7, <5>2
        <5>5. o.gen = op.gen /\ op.by = "login" /\ o.by = "refresh" /\ o.kind = "write"
          BY <3>2, <5>2, <5>3, <5>4
        <5>6. op.token[2] = 1 BY <1>1, <3>2, <5>5 DEF IInv, Operations
        <5>7. o.token \in Token
          <6>1. o.token \in MaybeToken BY <5>2 DEF Operation
          <6> QED BY <4>2, <5>1, <6>1, Tokens
        <5>8. o.token[2] \in Nat /\ o.token[2] >= 1 BY <5>7, Tokens
        <5> QED BY <5>1, <5>6, <5>8
      <4> QED BY <1>1, <1>8, <3>2, <4>1, <4>2
    <3>4. CASE outcome # "ok"
      <4>1. app'.tokens = app.tokens BY <1>2, <3>4
      <4>2. /\ disk # None /\ disk[1] = app.tokens[1] /\ disk[2] >= app.tokens[2]
            /\ \A i \in Ops : queue[i].token # None => queue[i].token[2] >= app.tokens[2]
        BY <2>1, <4>1 DEF IInv, Device
      <4>3. app.tokens[1] = app.stored[1] BY <2>1, <4>1 DEF IInv, Fields
      <4>4. op.token # None /\ op.token[1] = app.tokens[1] /\ op.token[2] >= app.tokens[2]
        BY <1>1, <3>2, <4>2, <4>3
      <4>5. disk' # None /\ disk'[1] = app.tokens[1] /\ disk'[2] >= app.tokens[2]
        BY <1>4, <3>4, <4>2, <4>4
      <4>6. \A i \in Ops' : queue'[i].token # None => queue'[i].token[2] >= app.tokens[2]
        <5>1. SUFFICES ASSUME NEW i \in Ops', queue'[i].token # None
                       PROVE  queue'[i].token[2] >= app.tokens[2]
          OBVIOUS
        <5>2. PICK j \in Ops : queue[j] = queue'[i] BY <1>6
        <5>3. queue[j].token[2] >= app.tokens[2] BY <4>2, <5>1, <5>2
        <5> QED BY <5>2, <5>3
      <4> QED BY <4>1, <4>5, <4>6
    <3> QED BY <3>3, <3>4
  <2>2. ASSUME app'.stored # None, app'.stored[1] \notin lost'
        PROVE  disk' = app'.stored
    <3>1. op.gen = app.gen /\ op.kind = "write" /\ op.token[1] = app'.stored[1] BY <1>1, <2>2
    <3>2. outcome = "ok" BY <1>1, <2>2, <3>1
    <3> QED BY <1>2, <1>4, <3>1, <3>2
  <2>3. ASSUME NEW i \in Ops', queue'[i].gen = app.gen, queue'[i].by = "login",
               queue'[i].kind = "write"
        PROVE  FALSE
    <3>1. PICK j \in Ops : queue[j] = queue'[i] BY <1>6
    <3>2. app.stored # None BY <2>3, <3>1 DEF IInv, Operations
    <3>3. op.gen = app.gen /\ op.gen \in Nat BY <1>1, <1>7, <3>2
    <3>4. PICK o : o = queue'[i] OBVIOUS
    <3>5. \/ op.gen < o.gen
          \/ o.by = "refresh"
      BY <1>5, <3>4
    <3> QED BY <2>3, <3>3, <3>4, <3>5
  <2> QED BY <1>2, <2>1, <2>2, <2>3 DEF Device
<1>10. Unborn' BY <1>4 DEF IInv, Unborn
<1>11. Given'
  <2>1. Issued(op.token) BY <1>1 DEF IInv, Given
  <2>2. Issued(disk)' BY <1>4, <2>1 DEF IInv, Given, Issued
  <2>3. Issued(app.stored)' BY <1>1, <1>2, <1>4, <2>1 DEF IInv, Given, Issued
  <2>4. \A i \in Ops' : newest'[queue'[i].token[1]] >= queue'[i].token[2] \/ queue'[i].token = None
    <3>1. SUFFICES ASSUME NEW i \in Ops'
                   PROVE  newest[queue'[i].token[1]] >= queue'[i].token[2] \/ queue'[i].token = None
      BY <1>4
    <3>2. PICK j \in Ops : queue[j] = queue'[i] BY <1>6
    <3> QED BY <3>2 DEF IInv, Given, Issued
  <2>5. \A g \in Gen : (refresh'[g].pc # "none") =>
          newest'[refresh'[g].token[1]] >= Reached(refresh'[g])
    BY <1>1, <1>4 DEF IInv, Given
  <2>6. \A t \in stray' : Issued(t)' /\ t[1] \in lost'
    BY <1>1, <1>4 DEF IInv, Given, Issued
  <2>7. \A s \in lost' : newest'[s] >= 1
    <3>1. \A s \in lost : newest[s] >= 1 BY DEF IInv, Given
    <3>2. op.kind = "write" => newest[op.token[1]] >= 1 BY <1>1, <1>7, <1>8
    <3> QED BY <1>4, <3>1, <3>2 DEF Written
  <2> QED BY <1>7, <2>2, <2>3, <2>4, <2>5, <2>6, <2>7 DEF Given, Issued, Reached, Active
<1>12. Apart'
  <2>1. \A g, h \in Gen : (refresh'[g].pc # "none") /\ (refresh'[h].pc # "none")
                            /\ refresh'[g].token[1] = refresh'[h].token[1] => g = h
    BY <1>1 DEF IInv, Apart
  <2>2. \A g \in Gen : (refresh'[g].pc # "none") /\ app'.stored # None
                         /\ refresh'[g].token[1] = app'.stored[1] => g = app'.gen
    BY <1>1, <1>2 DEF IInv, Apart
  <2>3. \A i \in Ops', g \in Gen : (refresh'[g].pc # "none") /\ queue'[i].kind = "write" =>
          (queue'[i].gen = g <=> queue'[i].token[1] = refresh'[g].token[1])
    <3>1. SUFFICES ASSUME NEW i \in Ops', NEW g \in Gen,
                          refresh'[g].pc # "none", queue'[i].kind = "write"
                   PROVE  queue'[i].gen = g <=> queue'[i].token[1] = refresh'[g].token[1]
      OBVIOUS
    <3>2. PICK j \in Ops : queue[j] = queue'[i] BY <1>6
    <3>3. Active(g) /\ refresh'[g] = refresh[g] BY <1>1, <3>1
    <3>4. queue[j].gen = g <=> queue[j].token[1] = refresh[g].token[1]
      BY <3>1, <3>2, <3>3 DEF IInv, Apart
    <3> QED BY <3>2, <3>3, <3>4
  <2> QED BY <1>7, <2>1, <2>2, <2>3 DEF Apart, Active
<1>13. ASSUME op.kind = "write", op.token[1] \notin lost, ~Active(op.gen) \/ op.by = "refresh"
       PROVE  newest[op.token[1]] = op.token[2]
  <2>1. CASE ~Active(op.gen) BY <1>1, <1>13, <2>1 DEF IInv, Newest
  <2>2. CASE Active(op.gen)
    <3>1. op.by = "refresh" /\ refresh[op.gen].answer = "rotated"
      BY <1>1, <1>3, <1>13, <2>2 DEF IInv, Flights
    <3>2. /\ op.token[1] = refresh[op.gen].token[1]
          /\ op.token[2] = refresh[op.gen].token[2] + 1
      BY <1>1, <3>1 DEF IInv, Operations
    <3>3. newest[refresh[op.gen].token[1]] = Reached(refresh[op.gen])
      BY <1>1, <1>13, <2>2, <3>2 DEF IInv, Newest
    <3> QED BY <3>1, <3>2, <3>3 DEF Reached
  <2> QED BY <2>1, <2>2
<1>14. Newest'
  <2>1. \A g \in Gen : (refresh'[g].pc # "none") /\ refresh'[g].token[1] \notin lost' =>
          newest[refresh'[g].token[1]] = Reached(refresh'[g])
    BY <1>1 DEF IInv, Newest
  <2>2. ASSUME app'.stored # None, ~(refresh'[app.gen].pc # "none"), app'.stored[1] \notin lost'
        PROVE  newest[app'.stored[1]] = app'.stored[2]
    <3>1. op.gen = app.gen /\ op.kind = "write" /\ op.token[1] = app'.stored[1] BY <1>1, <2>2
    <3>2. outcome = "ok" BY <1>1, <2>2, <3>1
    <3>3. app'.stored = op.token BY <1>2, <3>1, <3>2
    <3>4. ~Active(op.gen) \/ op.by = "refresh" BY <1>1, <2>2, <3>1
    <3> QED BY <1>1, <1>13, <2>2, <3>1, <3>3, <3>4
  <2>3. ASSUME NEW i \in Ops', queue'[i].kind = "write", ~(refresh'[queue'[i].gen].pc # "none"),
               queue'[i].token[1] \notin lost'
        PROVE  newest[queue'[i].token[1]] = queue'[i].token[2]
    <3>1. PICK o : o = queue'[i] OBVIOUS
    <3>2. PICK j \in Ops : queue[j] = o BY <1>6, <3>1
    <3>3. /\ o.gen \in Gen
          /\ \/ op.gen < o.gen
             \/ op.by = "login"
      BY <1>5, <3>1
    <3>4. op.gen \in Nat /\ o.gen \in Nat BY <1>1, <1>7, <3>3
    <3>5. ~Active(o.gen)
      <4>1. SUFFICES ASSUME Active(o.gen) PROVE FALSE OBVIOUS
      <4>2. op.by = "refresh" /\ o.gen = op.gen BY <1>1, <2>3, <3>1, <3>3, <4>1
      <4> QED BY <3>3, <3>4, <4>2
    <3>6. o.kind = "write" /\ o.token[1] \notin lost BY <1>1, <2>3, <3>1
    <3> QED BY <3>1, <3>2, <3>5, <3>6 DEF IInv, Newest
  <2>4. ASSUME disk' # None, disk'[1] \notin lost',
               \A g \in Gen : (refresh'[g].pc # "none") => refresh'[g].token[1] # disk'[1],
               \A i \in Ops' : queue'[i].kind = "write" => queue'[i].token[1] # disk'[1]
        PROVE  newest[disk'[1]] = disk'[2]
    <3>1. CASE outcome = "ok"
      <4>1. disk' = op.token /\ op.kind = "write" BY <1>1, <1>4, <2>4, <3>1
      <4>2. ~Active(op.gen) \/ op.by = "refresh"
        <5>1. SUFFICES ASSUME Active(op.gen), op.by # "refresh" PROVE FALSE OBVIOUS
        <5>2. refresh'[op.gen].pc # "none" /\ refresh'[op.gen] = refresh[op.gen] BY <1>1, <5>1
        <5>3. op.token[1] = refresh[op.gen].token[1] BY <1>1, <4>1, <5>1 DEF IInv, Apart
        <5> QED BY <1>1, <2>4, <4>1, <5>2, <5>3
      <4> QED BY <1>1, <1>13, <2>4, <4>1, <4>2
    <3>2. CASE outcome # "ok"
      <4>1. disk' = disk BY <1>1, <1>4, <2>4, <3>2
      <4>2. disk[1] \notin lost BY <1>1, <2>4, <4>1
      <4>3. op.kind = "write" => op.token[1] # disk[1] BY <1>1, <2>4, <3>2, <4>1
      <4>4. ASSUME NEW g \in Gen, Active(g) PROVE refresh[g].token[1] # disk[1]
        <5>1. CASE refresh'[g].pc # "none" BY <1>1, <2>4, <4>1, <5>1
        <5>2. CASE op.by = "refresh" /\ g = op.gen
          <6>1. op.kind = "write" /\ op.token[1] = refresh[g].token[1]
            BY <1>1, <5>2 DEF IInv, Operations
          <6> QED BY <4>3, <6>1
        <5> QED BY <1>1, <4>4, <5>1, <5>2
      <4>5. ASSUME NEW i \in Ops, queue[i].kind = "write" PROVE queue[i].token[1] # disk[1]
        <5>1. CASE i = 1 BY <1>1, <4>3, <4>5, <5>1
        <5>2. CASE i # 1
          <6>1. PICK j \in Ops' : queue'[j] = queue[i] BY <1>5, <5>2
          <6> QED BY <2>4, <4>1, <4>5, <6>1
        <5> QED BY <5>1, <5>2
      <4> QED BY <2>4, <4>1, <4>2, <4>4, <4>5 DEF IInv, Newest
    <3> QED BY <3>1, <3>2
  <2> QED BY <1>2, <1>4, <1>7, <2>1, <2>2, <2>3, <2>4 DEF Newest, Reached, Active
<1> QED BY <1>9, <1>10, <1>11, <1>12, <1>14

\* An operation is done, or skipped.
LEMMA DoneStep ==
  ASSUME IInv, NEW op, NEW outcome \in {"ok", "failed", "skipped"}, Done(op, outcome)
  PROVE  IInv'
<1>t. TypeOK BY DEF IInv
<1>1. /\ op \in Operation /\ op.gen \in Gen /\ op.kind \in {"write", "clear"}
      /\ op.kind = "write" => op.token # None /\ op.token[1] \in Login /\ op.by # "clear"
      /\ op.kind = "clear" => op.by # "refresh"
      /\ outcome = "skipped" => op.gen # app.gen
  BY AfterOperation
<1>2. /\ queue # <<>> /\ queue' = Tail(queue) /\ Continue(op, outcome) /\ running' = FALSE
      /\ family' = family /\ newest' = newest /\ reading' = reading /\ stray' = stray
      /\ life' = life /\ disk' \in {disk, op.token} /\ lost' \subseteq lost \cup Written(op)
      /\ uncleared' \in {uncleared, TRUE, FALSE}
  BY DEF Done, server
<1>3. /\ app' \in App /\ login' \in [Gen -> {"none", "erasing", "sent", "saving"}]
      /\ refresh' \in [Gen -> Flight] /\ call' \in [Call -> Request] /\ leaving' \in Leaving
  BY <1>1, <1>2, Continues
<1>4. op.token \in MaybeToken BY <1>1 DEF Operation
<1>5. lost' \subseteq Login BY <1>1, <1>2, <1>t DEF Written, TypeOK
<1>6. queue' \in Seq(Operation) BY <1>2, Behind
<1>7. TypeOK' BY <1>2, <1>3, <1>4, <1>5, <1>6, <1>t, KeptTypes DEF TypeOK
<1> QED BY <1>7, AgesAfter, OwingAfter, OperationsAfter, FlightsAfter, CallersOf, DeviceAfter
        DEF IInv

-----------------------------------------------------------------------------
(* Start, restart, and the invariant.                                      *)

\* The store answers.
LEMMA StoreAnswers ==
  ASSUME IInv, NEW outcome \in {"ok", "failed"}, StoreAnswer(outcome)
  PROVE  IInv'
<1>t. TypeOK /\ queue # <<>> BY DEF IInv, Operations, StoreAnswer
<1>1. PICK op : op = queue[1] OBVIOUS
<1>2. op = Head(queue) BY <1>t, <1>1 DEF TypeOK
<1>3. /\ Continue(op, outcome) /\ queue' = Tail(queue) /\ running' = FALSE
      /\ disk' = op.token \/ (outcome = "failed" /\ disk' = disk)
      /\ lost' = (IF outcome = "failed" THEN lost \cup Written(op) ELSE lost)
      /\ uncleared' = (outcome = "failed" /\ (op.kind = "clear" \/ uncleared))
      /\ UNCHANGED <<server, reading, stray, life>>
  BY <1>2 DEF StoreAnswer, Following
<1>4. Done(op, outcome) BY <1>t, <1>1, <1>3 DEF Done, IInv, TypeOK
<1> QED BY <1>4, DoneStep

\* The next operation starts, or is skipped.
LEMMA NextOperations ==
  ASSUME IInv, NextOperation
  PROVE  IInv'
<1>t. TypeOK BY DEF IInv
<1>1. /\ queue # <<>> /\ running = FALSE
      /\ UNCHANGED <<server, reading, disk, stray, uncleared, life>>
  BY <1>t DEF NextOperation, TypeOK
<1>2. PICK op : op = queue[1] OBVIOUS
<1>3. op = Head(queue) BY <1>t, <1>1, <1>2 DEF TypeOK
<1>4. CASE op.gen = app.gen
  <2>1. running' = TRUE /\ UNCHANGED <<app, login, refresh, call, leaving, queue, lost>>
    BY <1>3, <1>4 DEF NextOperation
  <2>2. TypeOK' BY <1>1, <1>t, <2>1, KeptTypes DEF TypeOK, server
  <2>3. Gen' = Gen /\ Ops' = Ops BY <1>1, <2>1, SameTypes DEF Ops
  <2>4. Ages' /\ AtBoot' /\ Fields' BY <1>1, <2>1, <2>3 DEF IInv, Ages, AtBoot, Fields, Active
  <2>5. Operations' BY <1>1, <2>1, <2>3 DEF IInv, Operations
  <2>6. Waiters' /\ Owing' /\ SignedOutIsErased'
    BY <1>1, <2>1, <2>3 DEF IInv, Waiters, Owing, Queued, SignedOutIsErased, Active
  <2>7. Flights' /\ Callers' /\ LogoutAllOwn'
    BY <1>1, <2>1, <2>3 DEF IInv, Flights, Callers, LogoutAllOwn, Active
  <2>8. Device' /\ Unborn' /\ Apart'
    BY <1>1, <2>1, <2>3 DEF IInv, Device, Unborn, Apart, Active, server
  <2>9. Given' BY <1>1, <2>1, <2>3 DEF IInv, Given, Issued, Reached, Active, server
  <2>10. Newest' BY <1>1, <2>1, <2>3 DEF IInv, Newest, Reached, Active, server
  <2> QED BY <2>2, <2>4, <2>5, <2>6, <2>7, <2>8, <2>9, <2>10 DEF IInv
<1>5. CASE op.gen # app.gen
  <2>1. /\ Continue(op, "skipped") /\ queue' = Tail(queue) /\ lost' = lost \cup Written(op)
        /\ running' = running
    BY <1>3, <1>5 DEF NextOperation
  <2>2. Done(op, "skipped") BY <1>1, <1>2, <1>5, <2>1 DEF Done
  <2> QED BY <2>2, DoneStep
<1> QED BY <1>4, <1>5

\* A new process: nothing but what the server and the store know.
Started ==
  /\ TypeOK /\ app = Boot /\ queue = <<>> /\ running = FALSE
  /\ login = NoLogins /\ refresh = NoFlights /\ call = NoCalls /\ leaving = NotLeaving
  /\ Unborn /\ Issued(disk)
  /\ \A t \in stray : Issued(t) /\ t[1] \in lost
  /\ \A s \in lost : newest[s] >= 1
  /\ disk # None /\ disk[1] \notin lost => newest[disk[1]] = disk[2]

\* The invariant holds when the process starts.
LEMMA StartedIsSound == Started => IInv
<1> SUFFICES ASSUME Started PROVE IInv OBVIOUS
<1> USE DEF Started
<1>1. life.gens \in Nat \ {0} /\ Gen \subseteq Nat /\ 0 \in Gen BY Types
<1>2. Ops = {} BY DEF Ops
<1>3. /\ \A g \in Gen : login[g] = "none" /\ refresh[g].pc = "none"
      /\ \A k \in Call : call[k] = NoCall
  BY DEF NoLogins, NoFlights, NoFlight, NoCalls
<1>4. /\ app.gen = 0 /\ app.stored = None /\ app.tokens = None /\ app.shown = "loading"
      /\ NoCall.pc = "idle" /\ NoCall.gen = 0 /\ NoCall.woken = "no"
      /\ leaving.pc = "none" /\ leaving.gen = 0 /\ leaving.woken = "no"
  BY DEF Boot, NoCall, NotLeaving
<1>5. "loading" \notin Login BY NoneAssumption
<1>6. Ages BY <1>1, <1>3, <1>4 DEF Ages, Active
<1>7. AtBoot BY <1>3 DEF AtBoot, Active
<1>8. Fields BY <1>1, <1>3, <1>4, <1>5 DEF Fields, Active
<1>9. Operations BY <1>2 DEF Operations
<1>10. Waiters /\ Callers /\ LogoutAllOwn BY <1>3, <1>4 DEF Waiters, Callers, LogoutAllOwn
<1>11. Owing BY <1>2, <1>3 DEF Owing, Queued
<1>12. SignedOutIsErased /\ Flights BY <1>3, <1>4 DEF SignedOutIsErased, Flights, Active
<1>13. Device /\ Unborn /\ Apart BY <1>1, <1>2, <1>3, <1>4 DEF Device, Apart, Active
<1>14. Given BY <1>2, <1>3, <1>4 DEF Given, Issued, Active
<1>15. Newest BY <1>2, <1>3, <1>4 DEF Newest, Active
<1> QED BY <1>6, <1>7, <1>8, <1>9, <1>10, <1>11, <1>12, <1>13, <1>14, <1>15 DEF IInv

\* The types of the state a process starts in.
LEMMA BootTypes ==
  ASSUME life.gens \in Nat \ {0}
  PROVE  /\ Boot \in App /\ NoLogins \in [Gen -> {"none", "erasing", "sent", "saving"}]
         /\ NoFlights \in [Gen -> Flight] /\ NoCalls \in [Call -> Request]
         /\ NotLeaving \in Leaving /\ <<>> \in Seq(Operation) /\ 0 \in Gen
<1>1. 0 \in Gen BY DEF Gen
<1>2. NoFlight \in Flight /\ NoCall \in Request BY <1>1 DEF NoFlight, Flight, NoCall, Request, MaybeToken
<1>3. Boot \in App BY <1>1 DEF Boot, App, MaybeToken
<1>4. NotLeaving \in Leaving BY <1>1 DEF NotLeaving, Leaving, MaybeToken
<1> QED BY <1>1, <1>2, <1>3, <1>4 DEF NoLogins, NoFlights, NoCalls

\* The process is killed and started again.
LEMMA Restarts ==
  ASSUME IInv, Restart
  PROVE  IInv'
<1>t. TypeOK BY DEF IInv
<1>1. /\ app' = Boot /\ reading' = TRUE /\ queue' = <<>> /\ running' = FALSE
      /\ login' = NoLogins /\ refresh' = NoFlights /\ call' = NoCalls /\ leaving' = NotLeaving
      /\ disk' = disk \/ (running /\ disk' = Head(queue).token)
      /\ stray' = stray \cup
           Effective({refresh[g].token : g \in {x \in Gen : refresh[x].pc = "sent"}})
      /\ lost' = lost \cup {refresh[g].token[1] : g \in {x \in Gen : refresh[x].pc # "none"}}
                      \cup UNION {Written(queue[i]) : i \in Ops}
      /\ uncleared' \in BOOLEAN /\ UNCHANGED <<server, life>>
  BY <1>t DEF Restart, TypeOK, Ops
<1>2. \A g \in Gen : Active(g) =>
        /\ refresh[g].token \in Token /\ refresh[g].token[1] \in Login
        /\ newest[refresh[g].token[1]] \in Nat
        /\ refresh[g].token[2] >= 1 /\ newest[refresh[g].token[1]] >= refresh[g].token[2]
  <2>1. SUFFICES ASSUME NEW g \in Gen, Active(g)
                 PROVE  /\ refresh[g].token \in Token /\ refresh[g].token[1] \in Login
                        /\ newest[refresh[g].token[1]] \in Nat
                        /\ refresh[g].token[2] >= 1
                        /\ newest[refresh[g].token[1]] >= refresh[g].token[2]
    OBVIOUS
  <2>2. refresh[g].token \in Token
    BY <1>t, <2>1, Types, Tokens DEF IInv, Flights, Flight
  <2>3. newest[refresh[g].token[1]] >= Reached(refresh[g]) BY <2>1 DEF IInv, Given
  <2> QED BY <1>t, <2>2, <2>3, Types, Tokens DEF Reached
<1>3. \A i \in Ops :
        /\ queue[i] \in Operation /\ queue[i].token \in MaybeToken
        /\ queue[i].kind = "clear" => queue[i].token = None
        /\ queue[i].kind \in {"write", "clear"}
        /\ queue[i].kind = "write" =>
             /\ queue[i].token[1] \in Login /\ newest[queue[i].token[1]] >= 1
             /\ newest[queue[i].token[1]] >= queue[i].token[2]
  <2>1. SUFFICES ASSUME NEW i \in Ops
                 PROVE  /\ queue[i] \in Operation /\ queue[i].token \in MaybeToken
                        /\ queue[i].kind = "clear" => queue[i].token = None
                        /\ queue[i].kind \in {"write", "clear"}
                        /\ queue[i].kind = "write" =>
                             /\ queue[i].token[1] \in Login /\ newest[queue[i].token[1]] >= 1
                             /\ newest[queue[i].token[1]] >= queue[i].token[2]
    OBVIOUS
  <2>2. queue[i] \in Operation /\ queue[i].token \in MaybeToken /\ queue[i].kind \in {"write", "clear"}
    BY <1>t, Types DEF Operation
  <2>3. /\ queue[i].kind = "clear" => queue[i].token = None
        /\ queue[i].kind = "write" => queue[i].token # None
    BY DEF IInv, Operations
  <2>4. queue[i].kind = "write" => newest[queue[i].token[1]] >= queue[i].token[2]
    BY <2>3 DEF IInv, Given, Issued
  <2>5. queue[i].kind = "write" => queue[i].token \in Token BY <2>2, <2>3, Tokens
  <2> QED BY <1>t, <2>2, <2>3, <2>4, <2>5, Types, Tokens
<1>4. running => 1 \in Ops /\ Head(queue) = queue[1] BY <1>t DEF TypeOK, IInv, Operations, Ops
<1>5. lost' \subseteq Login /\ \A s \in lost' : newest[s] >= 1
  <2>1. \A s \in lost : s \in Login /\ newest[s] >= 1 BY <1>t DEF IInv, Given, TypeOK
  <2>2. \A g \in Gen : refresh[g].pc # "none" =>
          refresh[g].token[1] \in Login /\ newest[refresh[g].token[1]] >= 1
    BY <1>2, <1>t, Types, Tokens DEF Active
  <2>3. ASSUME NEW i \in Ops PROVE \A s \in Written(queue[i]) : s \in Login /\ newest[s] >= 1
    BY <1>3 DEF Written
  <2> QED BY <1>1, <2>1, <2>2, <2>3
<1>6. \A t \in stray' : t \in Token /\ newest[t[1]] >= t[2] /\ t[1] \in lost'
  <2>1. \A t \in stray : t \in Token /\ newest[t[1]] >= t[2] /\ t[1] \in lost
    <3>1. None \notin stray /\ stray \subseteq Token BY <1>t, Tokens DEF TypeOK
    <3> QED BY <3>1 DEF IInv, Given, Issued
  <2>2. \A t \in stray' \ stray : \E g \in Gen : refresh[g].pc = "sent" /\ t = refresh[g].token
    BY <1>1 DEF Effective
  <2>3. \A g \in Gen : refresh[g].pc = "sent" =>
          /\ refresh[g].token \in Token /\ refresh[g].token[1] \in lost'
          /\ newest[refresh[g].token[1]] >= refresh[g].token[2]
    BY <1>1, <1>2 DEF Active
  <2> QED BY <1>1, <2>1, <2>2, <2>3
<1>7. disk' \in MaybeToken /\ (disk' # None => newest[disk'[1]] >= disk'[2])
  <2>1. disk \in MaybeToken /\ (disk # None => newest[disk[1]] >= disk[2])
    BY <1>t DEF IInv, Given, Issued, TypeOK
  <2>2. running => /\ Head(queue).token \in MaybeToken
                   /\ Head(queue).token # None =>
                        newest[Head(queue).token[1]] >= Head(queue).token[2]
    BY <1>3, <1>4
  <2> QED BY <1>1, <2>1, <2>2
<1>8. ASSUME disk' # None, disk'[1] \notin lost'
      PROVE  newest[disk'[1]] = disk'[2]
  <2>1. \A i \in Ops : queue[i].kind = "write" => queue[i].token[1] \in lost'
    BY <1>1 DEF Written
  <2>2. disk' = disk BY <1>1, <1>3, <1>4, <1>8, <2>1
  <2>3. \A g \in Gen : Active(g) => refresh[g].token[1] \in lost' BY <1>1 DEF Active
  <2> QED BY <1>1, <1>8, <2>1, <2>2, <2>3 DEF IInv, Newest
<1>9. TypeOK'
  <2>1. stray' \subseteq Token BY <1>6
  <2>2. life.gens \in Nat \ {0} BY <1>t, Types
  <2> QED BY <1>1, <1>5, <1>7, <1>t, <2>1, <2>2, BootTypes, KeptTypes DEF TypeOK, server
<1>10. /\ Issued(disk)' /\ \A t \in stray' : Issued(t)' /\ t[1] \in lost'
  BY <1>1, <1>6, <1>7 DEF Issued, server
<1>11. Unborn' BY <1>1 DEF IInv, Unborn, server
<1>12. life' = life /\ newest' = newest BY <1>1 DEF server
<1>13. NoLogins' = NoLogins /\ NoFlights' = NoFlights
  BY <1>12, SameTypes DEF NoLogins, NoFlights
<1>14. Started'
  BY <1>1, <1>5, <1>8, <1>9, <1>10, <1>11, <1>12, <1>13
     DEF Started, Boot, NoFlight, NoCalls, NoCall, NotLeaving
<1> QED BY <1>14, StartedIsSound, PTL

\* The first start.
LEMMA InitIInv == Init => IInv
<1> SUFFICES ASSUME Init PROVE IInv OBVIOUS
<1>1. /\ life \in Lives /\ family = [s \in Login |-> "none"] /\ newest = [s \in Login |-> 0]
      /\ app = Boot /\ reading = TRUE /\ queue = <<>> /\ running = FALSE
      /\ login = NoLogins /\ refresh = NoFlights /\ call = NoCalls /\ leaving = NotLeaving
      /\ disk = None /\ stray = {} /\ lost = {} /\ uncleared = FALSE
  BY DEF Init, Server!Init
<1>2. life.gens \in Nat \ {0} /\ 0 \in 0 .. MaxToken + 1 BY <1>1, BoundAssumption
<1>3. TypeOK BY <1>1, <1>2, BootTypes DEF TypeOK, MaybeToken
<1>4. Unborn BY <1>1 DEF Unborn
<1>5. Started BY <1>1, <1>3, <1>4 DEF Started, Issued
<1> QED BY <1>5, StartedIsSound

\* A step that changes nothing.
LEMMA StutterIInv ==
  ASSUME IInv, UNCHANGED vars
  PROVE  IInv'
<1>0. /\ family' = family /\ newest' = newest /\ app' = app /\ reading' = reading
      /\ login' = login /\ refresh' = refresh /\ call' = call /\ leaving' = leaving
      /\ disk' = disk /\ queue' = queue /\ running' = running /\ stray' = stray
      /\ lost' = lost /\ uncleared' = uncleared /\ life' = life
  BY DEF vars, server, memory, store, ghosts
<1>1. Gen' = Gen /\ Ops' = Ops BY <1>0, SameTypes DEF Ops
<1>2. TypeOK' BY <1>0, KeptTypes DEF IInv, TypeOK
<1>3. Ages' /\ AtBoot' /\ Fields' BY <1>0, <1>1 DEF IInv, Ages, AtBoot, Fields, Active, NoCalls
<1>4. Operations' BY <1>0, <1>1 DEF IInv, Operations
<1>5. Waiters' /\ Owing' /\ SignedOutIsErased'
  BY <1>0, <1>1 DEF IInv, Waiters, Owing, Queued, SignedOutIsErased, Active
<1>6. Flights' /\ Callers' /\ LogoutAllOwn'
  BY <1>0, <1>1 DEF IInv, Flights, Callers, LogoutAllOwn, Active
<1>7. Device' /\ Unborn' /\ Apart' BY <1>0, <1>1 DEF IInv, Device, Unborn, Apart, Active
<1>8. Given' BY <1>0, <1>1 DEF IInv, Given, Issued, Reached, Active
<1>9. Newest' BY <1>0, <1>1 DEF IInv, Newest, Reached, Active
<1> QED BY <1>2, <1>3, <1>4, <1>5, <1>6, <1>7, <1>8, <1>9 DEF IInv

\* The invariant is inductive.
LEMMA NextIInv == IInv /\ [Next]_vars => IInv'
<1> SUFFICES ASSUME IInv, [Next]_vars PROVE IInv' OBVIOUS
<1>1. CASE Screen
  <2>1. CASE StartLogin \/ Logout BY <2>1, LoginsStart, Logouts
  <2>2. ASSUME NEW expiring \in BOOLEAN, LogoutAll(expiring) \/ Check(expiring) PROVE IInv'
    BY <2>2, LogoutsAll, Checks
  <2>3. ASSUME NEW expiring \in BOOLEAN, NEW k \in Call, NEW get \in BOOLEAN,
               StartCall(k, get, expiring)
        PROVE  IInv'
    BY <2>3, StartCalls
  <2> QED BY <1>1, <2>1, <2>2, <2>3 DEF Screen
<1>2. CASE Reaction
  <2>1. CASE NextOperation \/ ResumeLogoutAll BY <2>1, NextOperations, LogoutAllResumes
  <2>2. ASSUME NEW k \in Call, ResumeCall(k) PROVE IInv' BY <2>2, ResumeCalls
  <2> QED BY <1>2, <2>1, <2>2 DEF Reaction
<1>3. CASE Answered
  <2>1. CASE Restored \/ LogoutAllEnds BY <2>1, Restores, LogoutAllsEnd
  <2>2. ASSUME NEW g \in Gen,
               LoginAnswer(g) \/ LoginFailure(g) \/ RefreshAnswer(g) \/ RefreshFailure(g)
        PROVE  IInv'
    BY <2>2, LoginAnswers, LoginFails, RefreshAnswers, RefreshFails
  <2>3. ASSUME NEW outcome \in {"ok", "failed"}, StoreAnswer(outcome) PROVE IInv'
    BY <2>3, StoreAnswers
  <2>4. ASSUME NEW k \in Call, CallAnswer(k) \/ CallUnauthorized(k) \/ CallFailure(k) PROVE IInv'
    BY <2>4, CallAnswers, CallsUnauthorized
  <2> QED BY <1>3, <2>1, <2>2, <2>3, <2>4 DEF Answered
<1>4. CASE World
  <2>1. ASSUME NEW g \in Gen, ServeRefresh(g) \/ ResendRefresh(g) PROVE IInv'
    BY <2>1, ServesRefresh, ResendsRefresh
  <2>2. ASSUME NEW m \in stray, ServeStray(m) PROVE IInv' BY <2>2, ServesStray
  <2>3. ASSUME NEW s \in Login, ServerCloses(s) PROVE IInv' BY <2>3, ServerClosesLogin
  <2>4. CASE WaitOver \/ Restart BY <2>4, WaitsOver, Restarts
  <2> QED BY <1>4, <2>1, <2>2, <2>3, <2>4 DEF World
<1>5. CASE UNCHANGED vars BY <1>5, StutterIInv
<1> QED BY <1>1, <1>2, <1>3, <1>4, <1>5 DEF Next

\* The invariant in every reachable state.
LEMMA AlwaysSound == Spec => []IInv
BY InitIInv, NextIInv, PTL DEF Spec

\* The five promises in a state of the invariant.
LEMMA SoundDevice == IInv => DeviceSound
<1> SUFFICES ASSUME IInv PROVE DeviceSound OBVIOUS
<1>t. TypeOK BY DEF IInv
<1>1. InUseIsSaved BY DEF IInv, InUseIsSaved, Device, Fields
<1>2. RestLosesNothing
  <2>1. SUFFICES ASSUME AtRest, app.stored # None, app.stored[1] \notin lost
                 PROVE  disk = app.stored /\ newest[app.stored[1]] = app.stored[2]
    BY DEF RestLosesNothing
  <2>2. app.gen \in Gen /\ ~Active(app.gen) BY <1>t, <2>1, Types DEF AtRest, Active
  <2> QED BY <2>1, <2>2 DEF IInv, Device, Newest, AtRest
<1> QED BY <1>t, <1>1, <1>2 DEF DeviceSound

LEMMA SoundSignOut == IInv => SignOutReachesDisk
<1> SUFFICES ASSUME IInv, app.shown = "signedOut", app.stored = None
             PROVE  \/ disk = None \/ uncleared
                    \/ \E i \in DOMAIN queue : queue[i].kind = "clear" /\ queue[i].gen = app.gen
  BY DEF SignOutReachesDisk
<1>1. app.gen > 0 BY Types DEF IInv, Fields
<1> QED BY <1>1 DEF IInv, SignedOutIsErased, Ops

LEMMA SoundTokens == IInv => OwnTokens
<1> SUFFICES ASSUME IInv PROVE NoSelfReuse BY DEF OwnTokens, IInv
<1>1. SUFFICES ASSUME NEW g \in Gen, refresh[g].pc = "sent", refresh[g].token[1] \notin lost
               PROVE  newest[refresh[g].token[1]] = refresh[g].token[2]
  BY DEF NoSelfReuse
<1>2. Active(g) BY <1>1 DEF Active
<1>3. refresh[g].answer = "none" BY <1>1, <1>2 DEF IInv, Flights
<1>4. newest[refresh[g].token[1]] = Reached(refresh[g]) BY <1>1, <1>2 DEF IInv, Newest
<1>5. refresh[g].token \in Token BY <1>2, Types, Tokens DEF IInv, Flights, Flight
<1> QED BY <1>3, <1>4, <1>5, Tokens DEF Reached

LEMMA SoundWaiting == IInv => NobodyForgotten
<1> SUFFICES ASSUME IInv PROVE NobodyForgotten OBVIOUS
<1>1. \A g \in Gen :
        /\ refresh[g].pc = "saving" <=>
             \E i \in DOMAIN queue :
               queue[i].gen = g /\ queue[i].by = "refresh" /\ queue[i].kind = "write"
        /\ login[g] = "erasing" <=>
             \E i \in DOMAIN queue :
               queue[i].gen = g /\ queue[i].by = "login" /\ queue[i].kind = "clear"
        /\ login[g] = "saving" <=>
             \E i \in DOMAIN queue :
               queue[i].gen = g /\ queue[i].by = "login" /\ queue[i].kind = "write"
  BY DEF IInv, Owing, Queued, Ops
<1>2. /\ \A k \in Call : call[k].pc \in {"opening", "renewing", "reopening"} =>
           call[k].woken # "no" \/ refresh[call[k].gen].pc # "none"
      /\ leaving.pc = "opening" => leaving.woken # "no" \/ refresh[leaving.gen].pc # "none"
  BY DEF IInv, Waiters, Active
<1> QED BY <1>1, <1>2 DEF NobodyForgotten

\* The step that DeliveredToOwner allows.
DeliveredStep ==
  \A k \in Call :
    call[k].pc = "sent" /\ call'[k].pc = "delivered" =>
      app.stored # None /\ call[k].token[1] = app.stored[1]

\* No answer is delivered.
Undelivered == \A k \in Call : call'[k].pc = call[k].pc \/ call'[k].pc # "delivered"

LEMMA UndeliveredIsFine == Undelivered => DeliveredStep
BY DEF Undelivered, DeliveredStep

\* Steps that deliver nothing.
LEMMA ChangedCall ==
  ASSUME IInv, NEW k \in Call, NEW c \in Request, c.pc # "delivered",
         call' = [call EXCEPT ![k] = c]
  PROVE  Undelivered
<1>1. call \in [Call -> Request] BY DEF IInv, TypeOK
<1> QED BY <1>1 DEF Undelivered

LEMMA ReopenedUndelivered ==
  ASSUME IInv, NEW k \in Call, NEW expiring \in BOOLEAN, Reopened(k, expiring)
  PROVE  Undelivered
<1>1. call \in [Call -> Request] /\ app.tokens \in MaybeToken BY Types DEF IInv, TypeOK
<1>2. NoCall \in Request /\ NoCall.pc = "idle" BY IdleTold DEF NoCall
<1>3. PICK r : r = [call[k] EXCEPT !.pc = "reopening", !.woken = "no"] OBVIOUS
<1>4. r \in Request /\ r.pc = "reopening" BY <1>1, <1>3 DEF Request
<1>5. PICK s : s = [call[k] EXCEPT !.pc = "sent", !.again = TRUE, !.token = app.tokens,
                                   !.woken = "no"]
  OBVIOUS
<1>6. s \in Request /\ s.pc = "sent" BY <1>1, <1>5 DEF Request
<1>7. \/ call' = [call EXCEPT ![k] = NoCall]
      \/ call' = [call EXCEPT ![k] = r]
      \/ call' = [call EXCEPT ![k] = s]
  BY <1>1, <1>3, <1>5 DEF Reopened
<1> QED BY <1>2, <1>4, <1>6, <1>7, ChangedCall

LEMMA ScreenUndelivered ==
  ASSUME IInv, Screen
  PROVE  Undelivered
<1>1. CASE call' = call BY <1>1 DEF Undelivered
<1>2. ASSUME NEW expiring \in BOOLEAN, NEW k \in Call, NEW get \in BOOLEAN,
             StartCall(k, get, expiring)
      PROVE  Undelivered
  <2>1. app.gen \in Gen /\ app.tokens \in MaybeToken BY Types DEF IInv
  <2>2. PICK c : c = [NoCall EXCEPT !.gen = app.gen, !.get = get,
                        !.pc = IF Outdated(expiring) THEN "opening" ELSE "sent",
                        !.token = IF Outdated(expiring) THEN None ELSE app.tokens]
    OBVIOUS
  <2>3. NoCall \in Request BY IdleTold
  <2>4. c \in Request /\ c.pc # "delivered" BY <2>1, <2>2, <2>3 DEF Request, MaybeToken
  <2>5. call' = [call EXCEPT ![k] = c] BY <1>2, <2>2 DEF StartCall
  <2> QED BY <2>4, <2>5, ChangedCall
<1> QED BY <1>1, <1>2 DEF Screen, StartLogin, Logout, LogoutAll, Check

LEMMA ReactionUndelivered ==
  ASSUME IInv, Reaction
  PROVE  Undelivered
<1>1. CASE NextOperation
  <2>1. CASE call' = call BY <2>1 DEF Undelivered
  <2>2. CASE call' # call
    <3>1. TypeOK /\ queue # <<>> BY <1>1 DEF IInv, NextOperation
    <3>2. PICK op : op = Head(queue) OBVIOUS
    <3>3. op.gen # app.gen /\ Continue(op, "skipped") BY <1>1, <2>2, <3>2 DEF NextOperation
    <3>4. op \in Operation BY <3>1, <3>2 DEF TypeOK
    <3>6. op.gen \in Gen BY <3>4 DEF Operation
    <3>5. EndFlight(op.gen, "ok") BY <2>2, <3>3 DEF Continue
    <3> QED BY <3>6, <3>5, EndsFlight DEF Undelivered
  <2> QED BY <2>1, <2>2
<1>2. CASE ResumeLogoutAll BY <1>2 DEF ResumeLogoutAll, Undelivered
<1>3. ASSUME NEW k \in Call, ResumeCall(k) PROVE Undelivered
  <2>1. call \in [Call -> Request] /\ app.tokens \in MaybeToken BY Types DEF IInv, TypeOK
  <2>2. NoCall \in Request /\ NoCall.pc = "idle" BY IdleTold DEF NoCall
  <2>3. PICK s : s = [call[k] EXCEPT !.pc = "sent", !.token = app.tokens, !.woken = "no",
                                     !.again = (call[k].pc = "reopening")]
    OBVIOUS
  <2>4. s \in Request /\ s.pc = "sent" BY <2>1, <2>3 DEF Request
  <2>5. \/ call' = [call EXCEPT ![k] = NoCall]
        \/ \E expiring \in BOOLEAN : Reopened(k, expiring)
        \/ call' = [call EXCEPT ![k] = s]
    BY <1>3, <2>1, <2>3 DEF ResumeCall
  <2> QED BY <2>2, <2>4, <2>5, ChangedCall, ReopenedUndelivered
<1> QED BY <1>1, <1>2, <1>3 DEF Reaction

\* Of the answers only that to a request of the current generation delivers.
LEMMA AnsweredDelivers ==
  ASSUME IInv, Answered
  PROVE  DeliveredStep
<1>1. CASE call' = call BY <1>1, UndeliveredIsFine DEF Undelivered
<1>2. ASSUME NEW g \in Gen, RefreshAnswer(g) \/ RefreshFailure(g) PROVE DeliveredStep
  <2>1. call' = call \/ EndFlight(g, "ok") \/ EndFlight(g, "fail")
    BY <1>2 DEF RefreshAnswer, RefreshFailure
  <2> QED BY <1>1, <2>1, EndsFlight, UndeliveredIsFine DEF Undelivered
<1>3. ASSUME NEW outcome \in {"ok", "failed"}, StoreAnswer(outcome) PROVE DeliveredStep
  <2>1. TypeOK /\ queue # <<>> BY <1>3 DEF IInv, Operations, StoreAnswer
  <2>2. PICK op : op = Head(queue) OBVIOUS
  <2>6. op \in Operation BY <2>1, <2>2 DEF TypeOK
  <2>3. op.gen \in Gen BY <2>6 DEF Operation
  <2>4. Continue(op, outcome) BY <1>3, <2>2 DEF StoreAnswer
  <2>5. call' = call \/ EndFlight(op.gen, "ok") \/ EndFlight(op.gen, "fail")
    BY <2>4 DEF Continue
  <2> QED BY <1>1, <2>3, <2>5, EndsFlight, UndeliveredIsFine DEF Undelivered
<1>4. ASSUME NEW k \in Call, CallUnauthorized(k) PROVE DeliveredStep
  <2>1. call \in [Call -> Request] BY DEF IInv, TypeOK
  <2>2. NoCall \in Request /\ NoCall.pc = "idle" BY IdleTold DEF NoCall
  <2>3. PICK r : r = [call[k] EXCEPT !.pc = "renewing"] OBVIOUS
  <2>4. r \in Request /\ r.pc = "renewing" BY <2>1, <2>3 DEF Request
  <2>5. \/ \E expiring \in BOOLEAN : Reopened(k, expiring)
        \/ call' = [call EXCEPT ![k] = NoCall]
        \/ call' = [call EXCEPT ![k] = r]
    BY <1>4, <2>1, <2>3 DEF CallUnauthorized
  <2> QED BY <2>2, <2>4, <2>5, ChangedCall, ReopenedUndelivered, UndeliveredIsFine
<1>5. ASSUME NEW k \in Call, CallFailure(k) PROVE DeliveredStep
  <2>1. NoCall \in Request /\ NoCall.pc = "idle" BY IdleTold DEF NoCall
  <2> QED BY <1>5, <2>1, ChangedCall, UndeliveredIsFine DEF CallFailure
<1>6. ASSUME NEW k \in Call, CallAnswer(k) PROVE DeliveredStep
  <2>1. call[k].pc = "sent" /\ call[k].gen = app.gen BY <1>6 DEF CallAnswer, SameGeneration
  <2>2. app.stored # None /\ call[k].token[1] = app.stored[1] BY <2>1 DEF IInv, Callers
  <2>3. \A j \in Call : j # k => call'[j] = call[j]
    BY <1>6 DEF CallAnswer, IInv, TypeOK
  <2> QED BY <2>2, <2>3 DEF DeliveredStep
<1> QED BY <1>1, <1>2, <1>3, <1>4, <1>5, <1>6
        DEF Answered, Restored, LogoutAllEnds, LoginAnswer, LoginFailure

LEMMA WorldUndelivered ==
  ASSUME IInv, World
  PROVE  Undelivered
<1>1. CASE call' = call BY <1>1 DEF Undelivered
<1>2. CASE Restart
  <2>1. \A k \in Call : call'[k].pc = "idle" BY <1>2 DEF Restart, NoCalls, NoCall
  <2> QED BY <2>1 DEF Undelivered
<1> QED BY <1>1, <1>2 DEF World, ServeRefresh, ResendRefresh, ServeStray, ServerCloses, WaitOver,
                          memory

LEMMA NextDelivers == IInv /\ [Next]_vars => [DeliveredStep]_vars
BY ScreenUndelivered, ReactionUndelivered, AnsweredDelivers, WorldUndelivered, UndeliveredIsFine
   DEF Next

\* What the device holds, in memory and on disk, in every history.
THEOREM DeviceIsSound == Spec => []DeviceSound
BY AlwaysSound, SoundDevice, PTL

\* Signing out erases the credential of the device, or has that queued.
THEOREM SigningOutErases == Spec => []SignOutReachesDisk
BY AlwaysSound, SoundSignOut, PTL

\* The app misuses no token and ends no session but its own.
THEOREM TokensAreOwn == Spec => []OwnTokens
BY AlwaysSound, SoundTokens, PTL

\* Who waits is going to be woken.
THEOREM NobodyIsForgotten == Spec => []NobodyForgotten
BY AlwaysSound, SoundWaiting, PTL

\* An answer reaches its caller only while the login it was asked with is in use.
THEOREM AnswersReachTheirOwner == Spec => DeliveredToOwner
<1>1. Spec => [][DeliveredStep]_vars BY AlwaysSound, NextDelivers, PTL DEF Spec
<1> QED BY <1>1, PTL DEF DeliveredToOwner, DeliveredStep

=============================================================================
