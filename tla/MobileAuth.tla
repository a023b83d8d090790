----------------------------- MODULE MobileAuth -----------------------------
(***************************************************************************)
(* The session manager of the mobile app and the callers it serves, over a *)
(* server that keeps the promise of TokenFamily.  The app is one process:  *)
(* an action is a callback with the synchronous code it runs up to its     *)
(* next await, and resumed promises run before any outside event           *)
(* (Settled).  Answers may be late or lost, storage may fail, and the      *)
(* process may be killed at any time.  A session is its login; its tokens  *)
(* are pairs of the login and a generation of TokenFamily.                 *)
(***************************************************************************)
EXTENDS Naturals, Sequences

CONSTANTS
  Login, Call,
  None,
  MaxToken,   \* bound on the rotations of a login
  Lives       \* the histories explored: [gens, calls, crashes], where gens bounds
              \* SessionManager.generation in the life of a process

ASSUME BoundAssumption ==
  /\ MaxToken \in Nat
  /\ \A l \in Lives : l.gens \in Nat \ {0} /\ l.calls \in BOOLEAN /\ l.crashes \in BOOLEAN
ASSUME NoneAssumption ==
  None \notin Login \X Nat /\ Login \cap {"loading", "signedOut"} = {}

VARIABLES
  family, newest,   \* the server: see TokenFamily
  app,              \* fields of SessionManager
  reading,          \* restore() waits for the stored session
  disk,             \* the stored session: SecureStore
  queue, running,   \* persistence: operations in order, the first has started
  login, refresh,   \* login() and the refresh flight of each generation
  call,             \* requests of the API client
  leaving,          \* logoutAll()
  stray,            \* tokens of refresh requests given up that may yet arrive
  life,             \* the bounds of this history: generations, requests, crashes
  lost,             \* history variable: logins with a lost or dropped answer, or a lost write
  uncleared         \* history variable: the last deletion failed or was cut off

server == <<family, newest>>
memory == <<app, reading, login, refresh, call, leaving>>
store == <<disk, queue, running>>
ghosts == <<lost, uncleared>>
vars == <<server, memory, store, stray, ghosts, life>>

Server == INSTANCE TokenFamily

Gen == 0 .. life.gens
Token == Login \X (1 .. MaxToken + 1)
MaybeToken == Token \cup {None}

App ==
  [gen : Gen, stored : MaybeToken, tokens : MaybeToken,
   shown : Login \cup {"loading", "signedOut"}, error : BOOLEAN, throttled : BOOLEAN]
Reply == {"rotated", "unauthenticated", "limited"}
Flight ==
  [pc : {"none", "sent", "answered", "saving"}, token : MaybeToken,
   answer : Reply \cup {"none"}]
Request ==
  [pc : {"idle", "opening", "renewing", "reopening", "sent", "delivered"}, gen : Gen,
   token : MaybeToken, get : BOOLEAN, again : BOOLEAN, woken : {"no", "ok", "fail"}]
Leaving ==
  [pc : {"none", "opening", "sent"}, gen : Gen, of : Login \cup {None},
   token : MaybeToken, woken : {"no", "ok", "fail"}]
Operation ==
  [kind : {"write", "clear"}, by : {"login", "refresh", "clear"}, gen : Gen, token : MaybeToken]

Boot ==
  [gen |-> 0, stored |-> None, tokens |-> None, shown |-> "loading",
   error |-> FALSE, throttled |-> FALSE]
NoFlight == [pc |-> "none", token |-> None, answer |-> "none"]
NoCall ==
  [pc |-> "idle", gen |-> 0, token |-> None, get |-> FALSE, again |-> FALSE, woken |-> "no"]
NotLeaving == [pc |-> "none", gen |-> 0, of |-> None, token |-> None, woken |-> "no"]

TypeOK ==
  /\ family \in [Login -> {"none", "open", "closed"}]
  /\ newest \in [Login -> 0 .. MaxToken + 1]
  /\ app \in App /\ reading \in BOOLEAN
  /\ disk \in MaybeToken /\ queue \in Seq(Operation) /\ running \in BOOLEAN
  /\ login \in [Gen -> {"none", "erasing", "sent", "saving"}]
  /\ refresh \in [Gen -> Flight]
  /\ call \in [Call -> Request] /\ leaving \in Leaving /\ life \in Lives
  /\ stray \subseteq Token /\ lost \subseteq Login /\ uncleared \in BOOLEAN

NoLogins == [g \in Gen |-> "none"]
NoFlights == [g \in Gen |-> NoFlight]
NoCalls == [k \in Call |-> NoCall]

Init ==
  /\ life \in Lives
  /\ Server!Init
  /\ app = Boot /\ reading = TRUE /\ queue = <<>> /\ running = FALSE
  /\ login = NoLogins /\ refresh = NoFlights /\ call = NoCalls /\ leaving = NotLeaving
  /\ disk = None /\ stray = {} /\ lost = {} /\ uncleared = FALSE

\* No promise reaction is waiting to run.
Settled ==
  /\ queue = <<>> \/ running
  /\ \A k \in Call : call[k].woken = "no"
  /\ leaving.woken = "no"

Cleared(a) ==
  [gen |-> a.gen + 1, stored |-> None, tokens |-> None, shown |-> "signedOut",
   error |-> FALSE, throttled |-> FALSE]
Erase(g, by) == [kind |-> "clear", by |-> by, gen |-> g, token |-> None]

\* Mutant: the deletion is queued under the generation that ends.
Clear_OldGeneration == app' = Cleared(app) /\ queue' = Append(queue, Erase(app.gen, "clear"))

Clear == app' = Cleared(app) /\ queue' = Append(queue, Erase(app.gen + 1, "clear"))
ClearIfCurrent(g) == IF g = app.gen THEN Clear ELSE UNCHANGED <<app, queue>>

\* refresh(): join the flight of this generation, be rejected, or start it.
Flying_Unshared == FALSE
Flying == refresh[app.gen].pc # "none"
Rejected == app.throttled /\ ~Flying
Joined ==
  IF Flying THEN refresh
  ELSE [refresh EXCEPT ![app.gen] = [pc |-> "sent", token |-> app.stored, answer |-> "none"]]

\* check() refreshes; expiring: the access token expires within a minute.
Outdated(expiring) == app.tokens = None \/ app.error \/ expiring

Waiting_Openings(g) == {k \in Call : call[k].gen = g /\ call[k].pc = "opening"}
Waiting(g) == {k \in Call : call[k].gen = g /\ call[k].pc \in {"opening", "renewing", "reopening"}}

EndFlight(g, outcome) ==
  /\ refresh' = [refresh EXCEPT ![g] = NoFlight]
  /\ call' = [k \in Call |-> IF k \in Waiting(g) THEN [call[k] EXCEPT !.woken = outcome]
                             ELSE call[k]]
  /\ leaving' = IF leaving.pc = "opening" /\ leaving.gen = g
                THEN [leaving EXCEPT !.woken = outcome] ELSE leaving

-----------------------------------------------------------------------------
(* Start, login, and the two ways out.                                     *)

Restored ==
  /\ Settled /\ reading
  /\ reading' = FALSE
  /\ \/ Clear /\ UNCHANGED refresh        \* nothing stored, or expired
     \/ /\ disk # None
        /\ app' = [app EXCEPT !.stored = disk]
        /\ refresh' = [refresh EXCEPT ![0] = [pc |-> "sent", token |-> disk, answer |-> "none"]]
        /\ UNCHANGED queue
  /\ UNCHANGED <<server, disk, running, login, call, leaving, stray, ghosts, life>>

StartLogin ==
  /\ Settled /\ app.shown = "signedOut" /\ \A g \in Gen : login[g] = "none"
  /\ app.gen + 2 <= life.gens
  /\ app' = [app EXCEPT !.gen = app.gen + 1, !.stored = None, !.tokens = None, !.error = FALSE]
  /\ login' = [login EXCEPT ![app.gen + 1] = "erasing"]
  /\ queue' = Append(queue, Erase(app.gen + 1, "login"))
  /\ UNCHANGED <<server, reading, refresh, call, leaving, disk, running, stray, ghosts, life>>

\* accept() up to its await: t is in use from here on, and queued for saving.
Accepting_Published(t, g, by) ==
  /\ app' = [app EXCEPT !.stored = t, !.tokens = t]
  /\ queue' = Append(queue, [kind |-> "write", by |-> by, gen |-> g, token |-> t])
Accepting_OldSnapshot(t, g, by) ==
  /\ app' = [app EXCEPT !.stored = t]
  /\ queue' = Append(queue, [kind |-> "write", by |-> by, gen |-> g,
                             token |-> IF by = "refresh" THEN app.stored ELSE t])
Accepting(t, g, by) ==
  /\ app' = [app EXCEPT !.stored = t]
  /\ queue' = Append(queue, [kind |-> "write", by |-> by, gen |-> g, token |-> t])

LoginAnswer(g) ==
  /\ Settled /\ login[g] = "sent"
  /\ \E s \in Login :
       /\ Server!Open(s)
       /\ IF g = app.gen
          THEN Accepting(<<s, 1>>, g, "login") /\ login' = [login EXCEPT ![g] = "saving"]
          ELSE login' = [login EXCEPT ![g] = "none"] /\ UNCHANGED <<app, queue>>
  /\ UNCHANGED <<reading, refresh, call, leaving, disk, running, stray, ghosts, life>>

LoginFailure(g) ==
  /\ Settled /\ login[g] = "sent"
  /\ login' = [login EXCEPT ![g] = "none"]
  /\ app' = IF g = app.gen THEN [app EXCEPT !.shown = "signedOut", !.error = TRUE] ELSE app
  /\ UNCHANGED <<server, reading, refresh, call, leaving, store, stray, ghosts, life>>

\* The profile screen of a login disables both buttons while its logoutAll is busy.
MayLogout_Always == app.shown \in Login
MayLogout == app.shown \in Login /\ (leaving.pc # "none" => leaving.gen # app.gen)

Logout ==
  /\ Settled /\ MayLogout
  /\ Clear
  /\ UNCHANGED <<server, reading, login, refresh, call, leaving, disk, running, stray, ghosts, life>>

Dispatch(g, of, t) ==
  leaving' = [pc |-> "sent", gen |-> g, of |-> of, token |-> t, woken |-> "no"]

\* One logoutAll at a time: a bound of the model.
LogoutAll(expiring) ==
  /\ Settled /\ MayLogout /\ leaving.pc = "none"
  /\ IF app.error \/ (Outdated(expiring) /\ Rejected)
     THEN Clear /\ UNCHANGED <<refresh, leaving>>
     ELSE /\ IF Outdated(expiring)
             THEN /\ refresh' = Joined
                  /\ leaving' = [NotLeaving EXCEPT !.pc = "opening", !.gen = app.gen,
                                                   !.of = app.stored[1]]
             ELSE Dispatch(app.gen, app.stored[1], app.tokens) /\ UNCHANGED refresh
          /\ UNCHANGED <<app, queue>>
  /\ UNCHANGED <<server, reading, login, call, disk, running, stray, ghosts, life>>

ResumeLogoutAll ==
  /\ leaving.woken # "no"
  /\ IF leaving.woken = "ok" /\ app.tokens # None
     THEN Dispatch(leaving.gen, leaving.of, app.tokens) /\ UNCHANGED <<app, queue>>
     ELSE ClearIfCurrent(leaving.gen) /\ leaving' = NotLeaving
  /\ UNCHANGED <<server, reading, login, refresh, call, disk, running, stray, ghosts, life>>

\* Whatever the answer is, or if none comes.
LogoutAllEnds ==
  /\ Settled /\ leaving.pc = "sent"
  /\ ClearIfCurrent(leaving.gen)
  /\ leaving' = NotLeaving
  /\ UNCHANGED <<server, reading, login, refresh, call, disk, running, stray, ghosts, life>>

-----------------------------------------------------------------------------
(* The shared refresh.                                                     *)

\* The app comes to the foreground, or the user asks to try again.
Check(expiring) ==
  /\ Settled /\ app.stored # None /\ Outdated(expiring) /\ ~Rejected
  /\ refresh' = Joined
  /\ UNCHANGED <<server, app, reading, login, call, leaving, store, stray, ghosts, life>>

\* The server handles a request for the token after t and answers.
Exchanged(t, answer) ==
  \/ /\ newest[t[1]] = t[2] /\ t[2] <= MaxToken
     /\ Server!Exchange(t[1])
     /\ answer = "rotated"
  \/ /\ newest[t[1]] # t[2] /\ family[t[1]] = "open"
     /\ Server!Close({t[1]}) \/ UNCHANGED server     \* within the leeway: no more than 401
     /\ answer = "unauthenticated"
  \/ /\ answer \in {"unauthenticated", "limited"}    \* expired, revoked, too many
     /\ newest[t[1]] = t[2] \/ family[t[1]] # "open"
     /\ UNCHANGED server

ServeRefresh(g) ==
  /\ refresh[g].pc = "sent"
  /\ \E answer \in Reply :
       /\ Exchanged(refresh[g].token, answer)
       /\ refresh' = [refresh EXCEPT ![g].pc = "answered", ![g].answer = answer]
  /\ UNCHANGED <<app, reading, login, call, leaving, store, stray, ghosts, life>>

\* The answer is lost and the native layer sends the request again.
ResendRefresh(g) ==
  /\ refresh[g].pc = "answered"
  /\ refresh' = [refresh EXCEPT ![g].pc = "sent", ![g].answer = "none"]
  /\ lost' = lost \cup {refresh[g].token[1]}
  /\ UNCHANGED <<server, app, reading, login, call, leaving, store, stray, uncleared, life>>

RefreshAnswer(g) ==
  LET f == refresh[g] IN
  /\ Settled /\ f.pc = "answered"
  /\ IF f.answer = "rotated" /\ g = app.gen
     THEN /\ Accepting(<<f.token[1], f.token[2] + 1>>, g, "refresh")
          /\ refresh' = [refresh EXCEPT ![g].pc = "saving"]
          /\ UNCHANGED <<call, leaving>>
     ELSE /\ EndFlight(g, IF f.answer = "rotated" THEN "ok" ELSE "fail")
          /\ IF f.answer = "unauthenticated" THEN ClearIfCurrent(g)
             ELSE /\ app' = IF g = app.gen /\ f.answer = "limited"
                            THEN [app EXCEPT !.throttled = TRUE, !.error = TRUE,
                                             !.shown = f.token[1]]
                            ELSE app
                  /\ UNCHANGED queue
  /\ lost' = IF g = app.gen THEN lost ELSE lost \cup {f.token[1]}
  /\ UNCHANGED <<server, reading, login, disk, running, stray, uncleared, life>>

\* A token of a closed login changes nothing when it arrives: it is forgotten.
Effective(tokens) == {t \in tokens : family[t[1]] = "open"}

\* Timeout, network failure or 503: the server may or may not have seen the request.
RefreshFailure(g) ==
  LET f == refresh[g] IN
  /\ Settled /\ f.pc \in {"sent", "answered"}
  /\ EndFlight(g, "fail")
  /\ app' = IF g = app.gen THEN [app EXCEPT !.error = TRUE, !.shown = f.token[1]] ELSE app
  /\ stray' = IF f.pc = "sent" THEN stray \cup Effective({f.token}) ELSE stray
  /\ lost' = lost \cup {f.token[1]}
  /\ UNCHANGED <<server, reading, login, store, uncleared, life>>

\* retryAt has passed.
WaitOver ==
  /\ Settled /\ app.throttled
  /\ app' = [app EXCEPT !.throttled = FALSE]
  /\ UNCHANGED <<server, reading, login, refresh, call, leaving, store, stray, ghosts, life>>

-----------------------------------------------------------------------------
(* The persistence queue.                                                  *)

\* accept() after its await, or the handlers of its failure.
Saved_Offline(op, outcome) ==
  IF op.gen = app.gen /\ outcome = "failed" THEN [app EXCEPT !.shown = "offline"]
  ELSE app
Saved(op, outcome) ==
  IF op.gen # app.gen THEN app
  ELSE IF outcome = "failed"
  THEN [app EXCEPT !.error = TRUE,
                   !.shown = IF op.by = "login" THEN "signedOut" ELSE op.token[1]]
  ELSE [app EXCEPT !.stored = op.token, !.tokens = op.token, !.shown = op.token[1],
                   !.error = FALSE, !.throttled = FALSE]

\* What runs once the operation at the head of the queue is done, or skipped.
Continue(op, outcome) ==
  \/ /\ op.by = "clear"
     /\ UNCHANGED <<app, login, refresh, call, leaving>>
  \/ /\ op.by = "login" /\ op.kind = "clear"
     /\ login' = [login EXCEPT ![op.gen] = IF outcome = "failed" THEN "none" ELSE "sent"]
     /\ UNCHANGED <<app, refresh, call, leaving>>
  \/ /\ op.by = "login" /\ op.kind = "write"
     /\ login' = [login EXCEPT ![op.gen] = "none"]
     /\ app' = Saved(op, outcome)
     /\ UNCHANGED <<refresh, call, leaving>>
  \/ /\ op.by = "refresh"
     /\ EndFlight(op.gen, IF outcome = "failed" THEN "fail" ELSE "ok")
     /\ app' = Saved(op, outcome)
     /\ UNCHANGED login

Written(op) == IF op.kind = "write" THEN {op.token[1]} ELSE {}

NextOperation ==
  /\ queue # <<>> /\ ~running
  /\ IF Head(queue).gen = app.gen
     THEN running' = TRUE /\ UNCHANGED <<app, login, refresh, call, leaving, queue, lost>>
     ELSE /\ Continue(Head(queue), "skipped")
          /\ queue' = Tail(queue)
          /\ lost' = lost \cup Written(Head(queue))
          /\ UNCHANGED running
  /\ UNCHANGED <<server, reading, disk, stray, uncleared, life>>

\* A failure is the caller's; the operations behind it are carried out.
Following_FailureSpreads(outcome) == IF outcome = "failed" THEN <<>> ELSE Tail(queue)
Following(outcome) == Tail(queue)

\* A failed operation may have taken effect.
StoreAnswer(outcome) ==
  LET op == Head(queue) IN
  /\ Settled /\ running
  /\ \/ disk' = op.token
     \/ outcome = "failed" /\ UNCHANGED disk
  /\ Continue(op, outcome)
  /\ queue' = Following(outcome) /\ running' = FALSE
  /\ lost' = IF outcome = "failed" THEN lost \cup Written(op) ELSE lost
  /\ uncleared' = (outcome = "failed" /\ (op.kind = "clear" \/ uncleared))
  /\ UNCHANGED <<server, reading, stray, life>>

-----------------------------------------------------------------------------
(* A request of the API client (from a protected screen).                  *)

StartCall(k, get, expiring) ==
  /\ life.calls /\ Settled /\ app.shown \in Login /\ call[k].pc \in {"idle", "delivered"}
  /\ ~app.error /\ ~(Outdated(expiring) /\ Rejected)
  /\ call' = [call EXCEPT ![k] =
       [NoCall EXCEPT !.gen = app.gen, !.get = get,
                      !.pc = IF Outdated(expiring) THEN "opening" ELSE "sent",
                      !.token = IF Outdated(expiring) THEN None ELSE app.tokens]]
  /\ refresh' = IF Outdated(expiring) THEN Joined ELSE refresh
  /\ UNCHANGED <<server, app, reading, login, leaving, store, stray, ghosts, life>>

\* getAccessToken() before a GET is sent again.
Reopened(k, expiring) ==
  IF app.error \/ (Outdated(expiring) /\ Rejected)
  THEN call' = [call EXCEPT ![k] = NoCall] /\ UNCHANGED refresh
  ELSE IF Outdated(expiring)
  THEN /\ refresh' = Joined
       /\ call' = [call EXCEPT ![k].pc = "reopening", ![k].woken = "no"]
  ELSE /\ UNCHANGED refresh
       /\ call' = [call EXCEPT ![k].pc = "sent", ![k].again = TRUE,
                               ![k].token = app.tokens, ![k].woken = "no"]

ResumeCall(k) ==
  LET c == call[k] IN
  /\ c.woken # "no"
  /\ IF c.woken = "fail" \/ c.gen # app.gen \/ (c.pc = "renewing" /\ ~c.get)
     THEN call' = [call EXCEPT ![k] = NoCall] /\ UNCHANGED refresh
     ELSE IF c.pc = "renewing" THEN \E expiring \in BOOLEAN : Reopened(k, expiring)
     ELSE /\ call' = [call EXCEPT ![k].pc = "sent", ![k].token = app.tokens,
                                  ![k].woken = "no", ![k].again = (c.pc = "reopening")]
          /\ UNCHANGED refresh
  /\ UNCHANGED <<server, app, reading, login, leaving, store, stray, ghosts, life>>

SameGeneration_Ignored(c) == TRUE
SameGeneration(c) == c.gen = app.gen

\* A response other than 401, handed to the caller.
CallAnswer(k) ==
  /\ Settled /\ call[k].pc = "sent" /\ SameGeneration(call[k])
  /\ call' = [call EXCEPT ![k] = [NoCall EXCEPT !.pc = "delivered"]]
  /\ UNCHANGED <<server, app, reading, login, refresh, leaving, store, stray, ghosts, life>>

\* The first 401: refreshAfterUnauthorized.
CallUnauthorized(k) ==
  LET c == call[k] IN
  /\ Settled /\ c.pc = "sent" /\ SameGeneration(c) /\ ~c.again /\ ~app.error
  /\ IF app.tokens # c.token
     THEN /\ IF c.get THEN \E expiring \in BOOLEAN : Reopened(k, expiring)
             ELSE call' = [call EXCEPT ![k] = NoCall] /\ UNCHANGED refresh
     ELSE /\ ~Rejected
          /\ refresh' = Joined
          /\ call' = [call EXCEPT ![k].pc = "renewing"]
  /\ UNCHANGED <<server, app, reading, login, leaving, store, stray, ghosts, life>>

\* No answer, an answer for another generation, or a 401 that is not retried.
CallFailure(k) ==
  /\ Settled /\ call[k].pc = "sent"
  /\ call' = [call EXCEPT ![k] = NoCall]
  /\ UNCHANGED <<server, app, reading, login, refresh, leaving, store, stray, ghosts, life>>

-----------------------------------------------------------------------------
(* The rest of the world.                                                  *)

\* A refresh that was given up reaches the server after all.
ServeStray(m) ==
  /\ stray' = stray \ {m}
  /\ \E answer \in Reply : Exchanged(m, answer)
  /\ UNCHANGED <<memory, store, ghosts, life>>

\* A login ends: a request of logout() or logoutAll() arrives, from this device
\* or another, an administrator intervenes, or the cleanup runs.
ServerCloses(s) ==
  /\ family[s] = "open" /\ Server!Close({s})
  /\ stray' = {t \in stray : t[1] # s}
  /\ UNCHANGED <<memory, store, ghosts, life>>

\* The process is killed and started again.
Restart ==
  /\ life.crashes
  /\ app' = Boot /\ reading' = TRUE /\ queue' = <<>> /\ running' = FALSE
  /\ login' = NoLogins /\ refresh' = NoFlights /\ call' = NoCalls /\ leaving' = NotLeaving
  /\ \/ UNCHANGED disk
     \/ running /\ disk' = Head(queue).token
  /\ stray' = stray \cup
       Effective({refresh[g].token : g \in {x \in Gen : refresh[x].pc = "sent"}})
  /\ lost' = lost \cup {refresh[g].token[1] : g \in {x \in Gen : refresh[x].pc # "none"}}
                  \cup UNION {Written(queue[i]) : i \in DOMAIN queue}
  /\ uncleared' = (uncleared \/ \E i \in DOMAIN queue : queue[i].kind = "clear")
  /\ UNCHANGED <<server, life>>

Screen ==
  \/ StartLogin \/ Logout
  \/ \E expiring \in BOOLEAN :
       \/ LogoutAll(expiring) \/ Check(expiring)
       \/ \E k \in Call, get \in BOOLEAN : StartCall(k, get, expiring)

Reaction ==
  \/ NextOperation \/ ResumeLogoutAll
  \/ \E k \in Call : ResumeCall(k)

Answered ==
  \/ Restored \/ LogoutAllEnds
  \/ \E g \in Gen :
       LoginAnswer(g) \/ LoginFailure(g) \/ RefreshAnswer(g) \/ RefreshFailure(g)
  \/ \E outcome \in {"ok", "failed"} : StoreAnswer(outcome)
  \/ \E k \in Call : CallAnswer(k) \/ CallUnauthorized(k) \/ CallFailure(k)

World ==
  \/ \E g \in Gen : ServeRefresh(g) \/ ResendRefresh(g)
  \/ \E m \in stray : ServeStray(m)
  \/ \E s \in Login : ServerCloses(s)
  \/ WaitOver \/ Restart

Next == Screen \/ Reaction \/ Answered \/ World

Spec == Init /\ [][Next]_vars

-----------------------------------------------------------------------------
(* Properties.                                                             *)

\* The session in use is the one a restart finds: access tokens are used only
\* once their login has been saved, and neither a late write of another
\* session nor a late deletion replaces it.
InUseIsSaved ==
  app.tokens # None =>
    /\ app.stored # None /\ app.stored[1] = app.tokens[1]
    /\ disk # None /\ disk[1] = app.tokens[1] /\ disk[2] >= app.tokens[2]

\* Signing out, by whatever path, erases the device's credential or has that
\* queued in a way nothing later can cancel, unless the store failed.
SignOutReachesDisk ==
  app.shown = "signedOut" /\ app.stored = None =>
    \/ disk = None \/ uncleared
    \/ \E i \in DOMAIN queue : queue[i].kind = "clear" /\ queue[i].gen = app.gen

\* The app never gives the server reason to close a login for reuse of a
\* token, unless an answer or a write of that login was lost.
NoSelfReuse ==
  \A g \in Gen : LET t == refresh[g].token IN
    refresh[g].pc = "sent" /\ family[t[1]] = "open" => newest[t[1]] = t[2] \/ t[1] \in lost

AtRest ==
  queue = <<>> /\ \A g \in Gen : login[g] = "none" /\ refresh[g].pc = "none"

\* When nothing is under way, a restart continues with the newest token.
RestLosesNothing ==
  AtRest /\ app.stored # None /\ app.stored[1] \notin lost =>
    disk = app.stored /\ newest[app.stored[1]] = app.stored[2]

\* logoutAll ends the sessions of the account on whose screen it was pressed,
\* although getAccessToken() hands out whatever token there is after its wait.
LogoutAllOwn ==
  leaving.pc = "sent" => leaving.token[1] = leaving.of

\* No request of the app misuses a token: none is presented again that was
\* exchanged, none of another login is given up.
OwnTokens == NoSelfReuse /\ LogoutAllOwn

\* An answer reaches its caller only while the login it was asked with is the
\* one in use, however long it was under way.
DeliveredToOwner ==
  [][\A k \in Call :
       call[k].pc = "sent" /\ call'[k].pc = "delivered" =>
         app.stored # None /\ call[k].token[1] = app.stored[1]]_vars

\* Whoever waits is going to be woken: requests and logoutAll() wait for a refresh
\* that is under way, and what a login or a refresh has to write or erase is in
\* the queue, although queue and refresh outlive sign-outs and failures.
NobodyForgotten ==
  /\ \A k \in Call : call[k].pc \in {"opening", "renewing", "reopening"} =>
       call[k].woken # "no" \/ refresh[call[k].gen].pc # "none"
  /\ leaving.pc = "opening" => leaving.woken # "no" \/ refresh[leaving.gen].pc # "none"
  /\ \A g \in Gen :
       LET Queued(by, kind) ==
             \E i \in DOMAIN queue : queue[i].gen = g /\ queue[i].by = by /\ queue[i].kind = kind IN
       /\ refresh[g].pc = "saving" <=> Queued("refresh", "write")
       /\ login[g] = "erasing" <=> Queued("login", "clear")
       /\ login[g] = "saving" <=> Queued("login", "write")

\* What the device holds, in memory and on disk.
DeviceSound == TypeOK /\ InUseIsSaved /\ RestLosesNothing
=============================================================================
