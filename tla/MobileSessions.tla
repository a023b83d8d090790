--------------------------- MODULE MobileSessions ---------------------------
(***************************************************************************)
(* Mobile logins on the server.  A login is a row with the hashes of its   *)
(* current and previous refresh token; consumed tokens stay in a history   *)
(* table while the row lives.  Each operation is one SQL statement, but a  *)
(* statement reads its candidates from a snapshot and decides later, under *)
(* row locks, on the newest version of the row; several requests overlap.  *)
(* A token is abstracted to its login and its generation in that login.    *)
(***************************************************************************)
EXTENDS Naturals

CONSTANTS
  User, Session, Handler,
  Gone,          \* no such account
  AccessLife,    \* ACCESS_TOKEN_LIFETIME_MS
  RefreshLife,   \* REFRESH_TOKEN_LIFETIME_MS
  AbsoluteLife,  \* ABSOLUTE_SESSION_LIFETIME_MS
  Leeway,        \* REFRESH_REUSE_LEEWAY_MS
  TouchEvery,    \* LAST_USED_INTERVAL_MS
  NoUser,        \* placeholder in rows that do not exist
  NoSession,     \* placeholder in requests
  MaxTime, MaxVersion, MaxGen   \* bounds of an instance

ASSUME LifetimeAssumption ==
  /\ AccessLife \in Nat \ {0} /\ RefreshLife \in Nat /\ AbsoluteLife \in Nat
  /\ AccessLife <= RefreshLife /\ RefreshLife <= AbsoluteLife
  /\ Leeway \in Nat /\ TouchEvery \in Nat \ {0}
ASSUME BoundAssumption == MaxTime \in Nat /\ MaxVersion \in Nat /\ MaxGen \in Nat
ASSUME NoneAssumption == Gone \notin Nat /\ NoUser \notin User /\ NoSession \notin Session

VARIABLES
  now,       \* clock_timestamp()
  account,   \* users.session_version, or Gone
  session,   \* mobile_sessions
  history,   \* mobile_session_refresh_history: consumed <<login, generation>>
  request,   \* local state of each request in flight
  proven,    \* history variable: account version the password was checked at
  granted,   \* history variable: <<presented token, token given for it>>
  closed     \* history variable: logins whose logout has been answered

vars == <<now, account, session, history, request, proven, granted, closed>>

Row ==
  [state : {"unborn", "stored", "deleted"}, user : User \cup {NoUser}, version : Nat,
   cur : Nat, prev : Nat, created : Nat, rotated : Nat, used : Nat,
   accessExp : Nat, refreshExp : Nat, absExp : Nat,
   revoked : {"no", "LOGOUT", "LOGOUT_ALL", "REUSE_DETECTED"}]

Unborn ==
  [state |-> "unborn", user |-> NoUser, version |-> 0, cur |-> 0, prev |-> 0,
   created |-> 0, rotated |-> 0, used |-> 0, accessExp |-> 0, refreshExp |-> 0,
   absExp |-> 0, revoked |-> "no"]

RequestRow ==
  [pc : {"idle", "insert", "decide", "logout", "touch", "authorized", "logoutAll", "permitted"},
   user : User \cup {NoUser}, version : Nat, session : Session \cup {NoSession}, gen : Nat,
   mayRotate : BOOLEAN, instant : Nat, ids : SUBSET Session]

Idle ==
  [pc |-> "idle", user |-> NoUser, version |-> 0, session |-> NoSession, gen |-> 0,
   mayRotate |-> FALSE, instant |-> 0, ids |-> {}]

Token == Session \X Nat

TypeOK ==
  /\ now \in Nat
  /\ account \in [User -> Nat \cup {Gone}]
  /\ session \in [Session -> Row]
  /\ history \subseteq Token
  /\ request \in [Handler -> RequestRow]
  /\ proven \in [Session -> Nat]
  /\ granted \subseteq Token \X Token
  /\ closed \subseteq Session

Stored(s) == session[s].state = "stored"
Revoked(s) == session[s].revoked # "no"

\* The versions of the login and of its account agree.
Current(s) == session[s].version = account[session[s].user]

Expired(s) == session[s].refreshExp <= now \/ session[s].absExp <= now

\* The three index look-ups by which a statement finds the login of a token.
Known_NoHistory(s, g) == Stored(s) /\ g \in {session[s].cur, session[s].prev}
Known(s, g) == Stored(s) /\ (g \in {session[s].cur, session[s].prev} \/ <<s, g>> \in history)

\* Tokens that were handed out: generation 0 stands for NULL.
Issued(s, g) == session[s].state # "unborn" /\ g \in 1 .. session[s].cur

Earlier(a, b) == IF a <= b THEN a ELSE b

Init ==
  /\ now = 0
  /\ account = [u \in User |-> 0]
  /\ session = [s \in Session |-> Unborn]
  /\ history = {}
  /\ request = [h \in Handler |-> Idle]
  /\ proven = [s \in Session |-> 0]
  /\ granted = {}
  /\ closed = {}

Answer(h) == request' = [request EXCEPT ![h] = Idle]
ghosts == <<proven, granted, closed>>

-----------------------------------------------------------------------------
(* Login: the password is checked against one read of the account, the row *)
(* is inserted by a later statement.                                       *)

StartLogin(h, u, s) ==
  /\ request[h].pc = "idle"
  /\ account[u] # Gone
  /\ session[s].state = "unborn"
  /\ \A o \in Handler : request[o].pc = "insert" => request[o].session # s
  /\ request' = [request EXCEPT ![h] =
       [Idle EXCEPT !.pc = "insert", !.user = u, !.version = account[u], !.session = s]]
  /\ UNCHANGED <<now, account, session, history, ghosts>>

SameAccount_VersionUnchecked(u, v) == account[u] # Gone
SameAccount(u, v) == account[u] = v

NewRow(u) ==
  [state |-> "stored", user |-> u, version |-> account[u], cur |-> 1, prev |-> 0,
   created |-> now, rotated |-> now, used |-> now, accessExp |-> now + AccessLife,
   refreshExp |-> now + RefreshLife, absExp |-> now + AbsoluteLife, revoked |-> "no"]

InsertSession(h) ==
  LET q == request[h] IN
  /\ q.pc = "insert"
  /\ SameAccount(q.user, q.version)
  /\ session' = [session EXCEPT ![q.session] = NewRow(q.user)]
  /\ proven' = [proven EXCEPT ![q.session] = q.version]
  /\ Answer(h)
  /\ UNCHANGED <<now, account, history, granted, closed>>

RefuseLogin(h) ==
  /\ request[h].pc = "insert"
  /\ ~SameAccount(request[h].user, request[h].version)
  /\ Answer(h)
  /\ UNCHANGED <<now, account, session, history, ghosts>>

-----------------------------------------------------------------------------
(* Refresh.                                                                *)

\* The rate limits have been consulted (mayRotate is what is left of the
\* session's budget) and the statement has read its candidates.
StartRefresh(h, s, g) ==
  /\ request[h].pc = "idle"
  /\ Issued(s, g) /\ Known(s, g)
  /\ \E may \in BOOLEAN :
       /\ session[s].cur >= MaxGen => ~may
       /\ request' = [request EXCEPT ![h] =
            [Idle EXCEPT !.pc = "decide", !.session = s, !.gen = g, !.mayRotate = may]]
  /\ UNCHANGED <<now, account, session, history, ghosts>>

Newest_Leeway(s, g) ==
  session[s].cur = g \/ (session[s].prev = g /\ now <= session[s].rotated + Leeway)
Newest(s, g) == session[s].cur = g

\* The decision, on the row as it is once both locks are held.
Reason_RevokedLast(s, g, may) ==
  IF Expired(s) THEN "EXPIRED"
  ELSE IF account[session[s].user] = Gone THEN "INVALID"
  ELSE IF ~Current(s) THEN "VERSION_MISMATCH"
  ELSE IF Newest(s, g) THEN IF may THEN "ROTATED" ELSE "THROTTLED"
  ELSE IF Revoked(s) THEN "REVOKED" ELSE "REUSE_DETECTED"
Reason(s, g, may) ==
  IF Revoked(s) THEN "REVOKED"
  ELSE IF Expired(s) THEN "EXPIRED"
  ELSE IF account[session[s].user] = Gone THEN "INVALID"
  ELSE IF ~Current(s) THEN "VERSION_MISMATCH"
  ELSE IF Newest(s, g) THEN IF may THEN "ROTATED" ELSE "THROTTLED"
  ELSE IF session[s].prev = g /\ now <= session[s].rotated + Leeway THEN "WITHIN_LEEWAY"
  ELSE "REUSE_DETECTED"

RotatedRow(s) ==
  [session[s] EXCEPT !.prev = session[s].cur, !.cur = session[s].cur + 1,
     !.rotated = now, !.used = now,
     !.accessExp = Earlier(now + AccessLife, session[s].absExp),
     !.refreshExp = Earlier(now + RefreshLife, session[s].absExp)]

Rotate(h) ==
  LET s == request[h].session
      g == request[h].gen IN
  /\ request[h].pc = "decide" /\ Stored(s)
  /\ Reason(s, g, request[h].mayRotate) = "ROTATED"
  /\ session' = [session EXCEPT ![s] = RotatedRow(s)]
  /\ history' = history \cup {<<s, session[s].cur>>}
  /\ granted' = granted \cup {<< <<s, g>>, <<s, session[s].cur + 1>> >>}
  /\ Answer(h)
  /\ UNCHANGED <<now, account, proven, closed>>

RevokeReused(h) ==
  LET s == request[h].session IN
  /\ request[h].pc = "decide" /\ Stored(s)
  /\ Reason(s, request[h].gen, request[h].mayRotate) = "REUSE_DETECTED"
  /\ session' = [session EXCEPT ![s].revoked = "REUSE_DETECTED"]
  /\ Answer(h)
  /\ UNCHANGED <<now, account, history, ghosts>>

\* The row is gone by the time it could be locked, or the decision changes nothing.
RefuseRefresh(h) ==
  LET s == request[h].session IN
  /\ request[h].pc = "decide"
  /\ Stored(s) =>
       Reason(s, request[h].gen, request[h].mayRotate) \notin {"ROTATED", "REUSE_DETECTED"}
  /\ Answer(h)
  /\ UNCHANGED <<now, account, session, history, ghosts>>

-----------------------------------------------------------------------------
(* Logout with a refresh token of any generation.                          *)

StartLogout(h, s, g) ==
  /\ request[h].pc = "idle"
  /\ Issued(s, g)
  /\ IF Known(s, g)
     THEN /\ request' = [request EXCEPT ![h] =
               [Idle EXCEPT !.pc = "logout", !.session = s, !.gen = g]]
          /\ UNCHANGED closed
     ELSE closed' = closed \cup {s} /\ UNCHANGED request
  /\ UNCHANGED <<now, account, session, history, proven, granted>>

RevokedAs_UnlistedReason(S, why) ==
  [s \in Session |-> IF s \in S /\ Stored(s) /\ ~Revoked(s)
                     THEN [session[s] EXCEPT !.revoked = "CLOSED"] ELSE session[s]]
RevokedAs_CurrentOnly(S, why) ==
  [s \in Session |-> IF s \in S /\ Stored(s) /\ ~Revoked(s) /\ Current(s)
                     THEN [session[s] EXCEPT !.revoked = why] ELSE session[s]]
RevokedAs(S, why) ==
  [s \in Session |-> IF s \in S /\ Stored(s) /\ ~Revoked(s)
                     THEN [session[s] EXCEPT !.revoked = why] ELSE session[s]]

Logout(h) ==
  /\ request[h].pc = "logout"
  /\ session' = RevokedAs({request[h].session}, "LOGOUT")
  /\ closed' = closed \cup {request[h].session}
  /\ Answer(h)
  /\ UNCHANGED <<now, account, history, proven, granted>>

-----------------------------------------------------------------------------
(* Requests with an access token.                                          *)

\* The test of findAccessPrincipal, on the statement's snapshot.
ValidAccess(s, g) ==
  /\ Stored(s) /\ session[s].cur = g /\ ~Revoked(s) /\ Current(s)
  /\ session[s].accessExp > now /\ ~Expired(s)

StartAccess(h, s, g) ==
  /\ request[h].pc = "idle"
  /\ Issued(s, g) /\ ValidAccess(s, g)
  /\ request' = [request EXCEPT ![h] =
       [Idle EXCEPT !.pc = "touch", !.session = s, !.user = session[s].user,
          !.version = account[session[s].user], !.instant = now]]
  /\ UNCHANGED <<now, account, session, history, ghosts>>

\* FOR UPDATE SKIP LOCKED re-evaluates the interval on the newest row.
Touchable_Snapshot(s, t) == Stored(s)
Touchable(s, t) == Stored(s) /\ session[s].used + TouchEvery <= t

Touch(h) ==
  LET s == request[h].session IN
  /\ request[h].pc = "touch"
  /\ Touchable(s, request[h].instant)
  /\ session' = [session EXCEPT ![s].used = request[h].instant]
  /\ request' = [request EXCEPT ![h].pc = "authorized"]
  /\ UNCHANGED <<now, account, history, ghosts>>

SkipTouch(h) ==
  /\ request[h].pc = "touch"
  /\ request' = [request EXCEPT ![h].pc = "authorized"]
  /\ UNCHANGED <<now, account, session, history, ghosts>>

\* findValidMobileSession, before the request acts.
StillValid_VersionOnly(s, v) ==
  Stored(s) /\ session[s].version = v /\ account[session[s].user] = v /\ ~Expired(s)
StillValid(s, v) ==
  /\ Stored(s) /\ ~Revoked(s) /\ ~Expired(s)
  /\ session[s].version = v /\ account[session[s].user] = v

Checkpoint(h) ==
  /\ request[h].pc \in {"authorized", "permitted"}
  /\ request' = [request EXCEPT ![h] =
       IF StillValid(request[h].session, request[h].version)
       THEN [request[h] EXCEPT !.pc = "permitted"] ELSE Idle]
  /\ UNCHANGED <<now, account, session, history, ghosts>>

Finish(h) ==
  /\ request[h].pc = "permitted"
  /\ Answer(h)
  /\ UNCHANGED <<now, account, session, history, ghosts>>

StartLogoutAll(h) ==
  /\ request[h].pc = "authorized"
  /\ request' = [request EXCEPT ![h] =
       [Idle EXCEPT !.pc = "logoutAll",
          !.ids = {s \in Session : Stored(s) /\ session[s].user = request[h].user}]]
  /\ UNCHANGED <<now, account, session, history, ghosts>>

LogoutAll(h) ==
  /\ request[h].pc = "logoutAll"
  /\ session' = RevokedAs(request[h].ids, "LOGOUT_ALL")
  /\ closed' = closed \cup request[h].ids
  /\ Answer(h)
  /\ UNCHANGED <<now, account, history, proven, granted>>

-----------------------------------------------------------------------------
(* The rest of the system.                                                 *)

Deleted(S) == [s \in Session |-> IF s \in S THEN [session[s] EXCEPT !.state = "deleted"]
                                 ELSE session[s]]

\* updateGroup moves the version; deleteUser cascades to logins and history.
BumpVersion(u) ==
  /\ account[u] # Gone /\ account[u] < MaxVersion
  /\ account' = [account EXCEPT ![u] = account[u] + 1]
  /\ UNCHANGED <<now, session, history, request, ghosts>>

DeleteUser(u) ==
  LET S == {s \in Session : Stored(s) /\ session[s].user = u} IN
  /\ account[u] # Gone
  /\ account' = [account EXCEPT ![u] = Gone]
  /\ session' = Deleted(S)
  /\ history' = {t \in history : t[1] \notin S}
  /\ UNCHANGED <<now, request, ghosts>>

\* One cleanup run: the batch limit and SKIP LOCKED may leave any row out.
Purge(S) ==
  /\ S # {} /\ \A s \in S : Stored(s) /\ (Expired(s) \/ Revoked(s))
  /\ session' = Deleted(S)
  /\ history' = {t \in history : t[1] \notin S}
  /\ UNCHANGED <<now, account, request, ghosts>>

\* The statement is aborted (deadlock with a cascading deletion, lost
\* connection) or the function ends early: nothing has been written.
StorageFailure(h) ==
  /\ request[h].pc # "idle"
  /\ Answer(h)
  /\ UNCHANGED <<now, account, session, history, ghosts>>

Tick ==
  /\ now < MaxTime
  /\ now' = now + 1
  /\ UNCHANGED <<account, session, history, request, ghosts>>

Arrive(h) ==
  \/ \E u \in User, s \in Session : StartLogin(h, u, s)
  \/ \E s \in Session : \E g \in 1 .. session[s].cur :
       StartRefresh(h, s, g) \/ StartLogout(h, s, g) \/ StartAccess(h, s, g)

Handle(h) ==
  \/ InsertSession(h) \/ RefuseLogin(h)
  \/ Rotate(h) \/ RevokeReused(h) \/ RefuseRefresh(h)
  \/ Logout(h) \/ Touch(h) \/ SkipTouch(h) \/ Checkpoint(h) \/ Finish(h)
  \/ StartLogoutAll(h) \/ LogoutAll(h) \/ StorageFailure(h)

Next ==
  \/ \E h \in Handler : Arrive(h) \/ Handle(h)
  \/ \E u \in User : BumpVersion(u) \/ DeleteUser(u)
  \/ \E S \in SUBSET Session : Purge(S)
  \/ Tick

Spec == Init /\ [][Next]_vars

-----------------------------------------------------------------------------
(* Properties.                                                             *)

\* mobile_sessions_time_order_check never rejects a statement: also a touch
\* that lost a race against a rotation leaves the times of a row in order.
TimeOrder ==
  \A s \in Session : Stored(s) =>
    /\ session[s].created <= session[s].rotated
    /\ session[s].rotated <= session[s].used
    /\ session[s].rotated < session[s].accessExp
    /\ session[s].accessExp <= session[s].refreshExp
    /\ session[s].refreshExp <= session[s].absExp

\* However often and from wherever a refresh token is presented, it is
\* exchanged at most once (rotateSessionHash).
SingleUse ==
  \A a, b \in granted : a[1] = b[1] => a[2] = b[2]

\* Every token ever handed out for a stored login leads back to that login,
\* so that a token of any generation can be recognised as reused or can log
\* the login out (prev_refresh_hash and the consumption history).
FamilyRecognized ==
  \A s \in Session : \A g \in 1 .. session[s].cur : Stored(s) => Known(s, g)

\* A login whose logout was answered stays closed, whichever generation of
\* its token was presented and whatever was in flight at the time.
LogoutHolds ==
  \A s \in closed : session[s].state # "unborn" /\ (Stored(s) => Revoked(s))

\* A login carries the account version at which its password was checked: no
\* change of the account between check and insertion is slept through.
LiveProven ==
  \A s \in Session : Stored(s) => session[s].version = proven[s]

\* The rows of the logins: their times are in order, no token is exchanged
\* twice or lost track of, and none was opened for an account that changed.
RowsSound ==
  /\ TypeOK
  /\ TimeOrder
  /\ SingleUse
  /\ FamilyRecognized
  /\ LiveProven

\* The end of a login is final, and what was fixed at its birth never moves:
\* a revoked row is not revived, rotated or prolonged, a deleted one does not
\* come back, and no rotation extends the absolute lifetime.
EndedIsFinal ==
  [][\A s \in Session :
       /\ session[s].state = "deleted" => session'[s] = session[s]
       /\ Stored(s) =>
            /\ session'[s].absExp = session[s].absExp
            /\ session'[s].version = session[s].version
            /\ Revoked(s) => \E d \in {"stored", "deleted"} :
                 session'[s] = [session[s] EXCEPT !.state = d, !.used = session'[s].used]]_vars

\* Refresh tokens as their holders see them: the statements implement families
\* of tokens of which only the newest can be exchanged, and of which none can
\* once the login was logged out, revoked for reuse, purged or deleted.
FamilyState(s) ==
  IF session[s].state = "unborn" THEN "none"
  ELSE IF Stored(s) /\ ~Revoked(s) THEN "open" ELSE "closed"

Families == INSTANCE TokenFamily WITH
  Login <- Session,
  family <- [s \in Session |-> FamilyState(s)],
  newest <- [s \in Session |-> session[s].cur]

ImplementsFamilies == Families!Spec

\* A request that passes an authorization checkpoint holds a login that
\* nobody has closed, at the version its password was checked at.
CheckpointCurrent ==
  [][\A h \in Handler :
       request[h].pc = "authorized" /\ request'[h].pc = "permitted" =>
         LET s == request[h].session IN
           s \notin closed /\ account[session[s].user] = proven[s]]_vars
=============================================================================
