------------------------ MODULE MobileSessions_proofs ------------------------
(***************************************************************************)
(* The server side of mobile logins, for any number of accounts, logins    *)
(* and overlapping requests and for any lifetimes: the constraint on the   *)
(* times of a row is never violated, no refresh token is exchanged twice,  *)
(* no token of a stored login is lost track of, and what was closed stays  *)
(* closed.                                                                 *)
(***************************************************************************)
EXTENDS MobileSessions, TLAPS

\* What the local state of a request says about the logins it works on.
RequestOK(q, sessions) ==
  /\ q.pc = "insert" =>
       /\ q.session \in Session /\ q.user \in User
       /\ sessions[q.session].state = "unborn"
  /\ q.pc \in {"decide", "logout", "touch", "authorized", "permitted"} =>
       q.session \in Session /\ sessions[q.session].state # "unborn"
  /\ q.pc = "logoutAll" => \A s \in q.ids : sessions[s].state # "unborn"

RequestsOK == \A h \in Handler : RequestOK(request[h], session)

\* Two pending logins never become the same row.
OneInsert ==
  \A h, o \in Handler :
    request[h].pc = "insert" /\ request[o].pc = "insert"
      /\ request[h].session = request[o].session => h = o

\* All but the newest token of a stored login are in the history.
Consumed ==
  \A s \in Session : Stored(s) =>
    \A g \in 1 .. session[s].cur : g = session[s].cur \/ <<s, g>> \in history

\* The exchanges form a chain.
Chain == \A a \in granted : a[1][1] = a[2][1] /\ a[2][2] = a[1][2] + 1

Born == \A s \in Session : Stored(s) => session[s].created <= now

IInv ==
  /\ TypeOK /\ RequestsOK /\ OneInsert
  /\ Born /\ TimeOrder
  /\ Chain /\ Consumed
  /\ LogoutHolds /\ LiveProven

LEMMA InitIInv == Init => IInv
<1> SUFFICES ASSUME Init PROVE IInv OBVIOUS
<1> USE DEF Init, Stored
<1>1. TypeOK BY DEF TypeOK, Row, Unborn, RequestRow, Idle
<1>2. \A s \in Session : session[s].state = "unborn" BY DEF Unborn
<1>3. \A h \in Handler : request[h].pc = "idle" BY DEF Idle
<1> QED BY <1>1, <1>2, <1>3
     DEF IInv, RequestsOK, RequestOK, OneInsert, Born, TimeOrder, Chain, Consumed,
         LogoutHolds, LiveProven

LEMMA IInvImplies == IInv => SingleUse /\ FamilyRecognized
<1> SUFFICES ASSUME IInv PROVE SingleUse /\ FamilyRecognized OBVIOUS
<1>1. SingleUse
  <2> SUFFICES ASSUME NEW a \in granted, NEW b \in granted, a[1] = b[1] PROVE a[2] = b[2]
    BY DEF SingleUse
  <2>1. a \in Token \X Token /\ b \in Token \X Token BY DEF IInv, TypeOK
  <2>2. a[2] \in Session \X Nat /\ b[2] \in Session \X Nat BY <2>1 DEF Token
  <2>3. a[2] = <<a[2][1], a[2][2]>> /\ b[2] = <<b[2][1], b[2][2]>> BY <2>2
  <2>4. a[2][1] = b[2][1] /\ a[2][2] = b[2][2] BY DEF IInv, Chain
  <2> QED BY <2>3, <2>4
<1>2. FamilyRecognized BY DEF IInv, Consumed, FamilyRecognized, Known
<1> QED BY <1>1, <1>2

-----------------------------------------------------------------------------
(* Steps that create and rotate nothing.                                   *)

\* What such a step may do to one row.
TameRow(s) ==
  /\ Stored(s)
  /\ session'[s].state \in {"stored", "deleted"}
  /\ session'[s].cur = session[s].cur /\ session'[s].version = session[s].version
  /\ session'[s].created = session[s].created /\ session'[s].rotated = session[s].rotated
  /\ session'[s].accessExp = session[s].accessExp
  /\ session'[s].refreshExp = session[s].refreshExp
  /\ session'[s].absExp = session[s].absExp
  /\ session'[s].used >= session[s].used
  /\ Revoked(s) => session'[s].revoked # "no"

Tame ==
  /\ session' \in [Session -> Row]
  /\ \A s \in Session : session'[s] = session[s] \/ TameRow(s)
  /\ history' \subseteq history
  /\ \A t \in history : t \in history' \/ session'[t[1]].state # "stored"
  /\ now' \in Nat /\ now' >= now
  /\ account' \in [User -> Nat \cup {Gone}]
  /\ UNCHANGED <<proven, granted>>

\* The requests after a step of h, or of nobody.
NewRequest(h, q) ==
  /\ request' = [request EXCEPT ![h] = q]
  /\ q \in RequestRow /\ RequestOK(q, session)
  /\ q.pc = "insert" => \A o \in Handler \ {h} :
       request[o].pc = "insert" => request[o].session # q.session

\* What may be added to the closed logins.
Closable == {s \in Session : session[s].state # "unborn"
                             /\ (session'[s].state = "stored" => session'[s].revoked # "no")}

LEMMA TameStep ==
  ASSUME IInv, Tame, closed' \subseteq closed \cup Closable,
         request' = request \/ (\E h \in Handler, q \in RequestRow : NewRequest(h, q))
  PROVE  IInv'
<1> USE DEF IInv, Tame
<1>0. \A s \in Session : session[s] \in Row /\ session'[s] \in Row BY DEF TypeOK
<1>1. request' \in [Handler -> RequestRow] BY DEF TypeOK, NewRequest
<1>2. closed' \subseteq Session BY DEF TypeOK, Closable
<1>3. TypeOK' BY <1>1, <1>2 DEF TypeOK
<1>4. \A s \in Session : (session'[s].state = "unborn") <=> (session[s].state = "unborn")
  BY DEF TameRow, Stored
<1>5. \A q \in RequestRow : RequestOK(q, session) => RequestOK(q, session')
  BY <1>4 DEF RequestOK, RequestRow
<1>6. RequestsOK'
  <2>1. CASE request' = request BY <1>5, <2>1 DEF RequestsOK, TypeOK
  <2>2. CASE \E h \in Handler, q \in RequestRow : NewRequest(h, q)
    <3>1. PICK h \in Handler, q \in RequestRow : NewRequest(h, q) BY <2>2
    <3>2. \A o \in Handler : request'[o] = IF o = h THEN q ELSE request[o]
      BY <3>1 DEF NewRequest, TypeOK
    <3>3. RequestOK(q, session) BY <3>1 DEF NewRequest
    <3>4. \A o \in Handler : RequestOK(request'[o], session')
      BY <1>5, <3>2, <3>3 DEF RequestsOK, TypeOK
    <3> QED BY <3>4 DEF RequestsOK
  <2> QED BY <2>1, <2>2
<1>7. OneInsert'
  <2>1. CASE request' = request BY <2>1 DEF OneInsert
  <2>2. CASE \E h \in Handler, q \in RequestRow : NewRequest(h, q)
    <3>1. PICK h \in Handler, q \in RequestRow : NewRequest(h, q) BY <2>2
    <3>2. \A o \in Handler : request'[o] = IF o = h THEN q ELSE request[o]
      BY <3>1 DEF NewRequest, TypeOK
    <3> QED BY <3>1, <3>2 DEF OneInsert, NewRequest
  <2> QED BY <2>1, <2>2
<1>8. Born' /\ TimeOrder'
  <2> SUFFICES ASSUME NEW s \in Session, session'[s].state = "stored"
               PROVE  /\ session'[s].created <= now'
                      /\ session'[s].created <= session'[s].rotated
                      /\ session'[s].rotated <= session'[s].used
                      /\ session'[s].rotated < session'[s].accessExp
                      /\ session'[s].accessExp <= session'[s].refreshExp
                      /\ session'[s].refreshExp <= session'[s].absExp
    BY DEF Born, TimeOrder, Stored
  <2>1. Stored(s) BY DEF TameRow, Stored
  <2>2. session[s].created <= now /\ now \in Nat BY <2>1 DEF Born, TypeOK
  <2> QED BY <1>0, <2>1, <2>2 DEF TameRow, TimeOrder, Row
<1>9. Consumed'
  <2> SUFFICES ASSUME NEW s \in Session, session'[s].state = "stored",
                      NEW g \in 1 .. session'[s].cur, g # session'[s].cur
               PROVE  <<s, g>> \in history'
    BY DEF Consumed, Stored
  <2>1. Stored(s) /\ session'[s].cur = session[s].cur BY DEF TameRow, Stored
  <2>2. <<s, g>> \in history BY <2>1 DEF Consumed
  <2>3. <<s, g>>[1] = s OBVIOUS
  <2> QED BY <2>2, <2>3
<1>10. Chain' BY DEF Chain
<1>11. LogoutHolds'
  <2> SUFFICES ASSUME NEW s \in closed'
               PROVE  /\ session'[s].state # "unborn"
                      /\ session'[s].state = "stored" => session'[s].revoked # "no"
    BY DEF LogoutHolds, Stored, Revoked
  <2>1. CASE s \in Closable BY <1>4, <2>1 DEF Closable
  <2>2. CASE s \in closed BY <1>4, <2>2 DEF LogoutHolds, TypeOK, TameRow, Stored, Revoked
  <2> QED BY <2>1, <2>2
<1>12. LiveProven' BY DEF LiveProven, TameRow, Stored
<1> QED BY <1>3, <1>6, <1>7, <1>8, <1>9, <1>10, <1>11, <1>12

-----------------------------------------------------------------------------
(* The two steps that are not tame: an insertion and a rotation.           *)

LEMMA InsertStep ==
  ASSUME IInv, NEW h \in Handler, InsertSession(h)
  PROVE  IInv'
<1> USE LifetimeAssumption DEF IInv, InsertSession, Answer
<1> DEFINE q == request[h]
           s == q.session
<1>1. s \in Session /\ q.user \in User /\ session[s].state = "unborn"
  BY DEF RequestsOK, RequestOK
<1>2. account[q.user] = q.version /\ q.version \in Nat
  BY DEF SameAccount, TypeOK, RequestRow
<1>3. NewRow(q.user) \in Row BY <1>1, <1>2 DEF NewRow, Row, TypeOK
<1>4. \A x \in Session : session'[x] = IF x = s THEN NewRow(q.user) ELSE session[x]
  BY <1>1 DEF TypeOK
<1>5. \A o \in Handler : request'[o] = IF o = h THEN Idle ELSE request[o]
  BY DEF TypeOK
<1>6. proven'[s] = q.version /\ \A x \in Session : x # s => proven'[x] = proven[x]
  BY <1>1 DEF TypeOK
<1>7. Idle \in RequestRow BY DEF Idle, RequestRow
<1>8. TypeOK' BY <1>1, <1>2, <1>3, <1>7 DEF TypeOK
<1>9. RequestsOK'
  <2> SUFFICES ASSUME NEW o \in Handler, o # h PROVE RequestOK(request[o], session')
    BY <1>5 DEF RequestsOK, RequestOK, Idle
  <2>1. RequestOK(request[o], session) BY DEF RequestsOK
  <2>2. request[o].pc = "insert" => request[o].session # s BY DEF OneInsert
  <2>3. request[o] \in RequestRow BY DEF TypeOK
  <2>4. \A x \in Session : session[x].state # "unborn" => session'[x].state # "unborn"
    BY <1>4 DEF NewRow
  <2> QED BY <1>1, <1>4, <2>1, <2>2, <2>3, <2>4 DEF RequestOK, RequestRow
<1>10. OneInsert' BY <1>5 DEF OneInsert, Idle
<1>11. Born' /\ TimeOrder' BY <1>1, <1>4 DEF Born, TimeOrder, Stored, NewRow, TypeOK
<1>12. Chain' BY DEF Chain
<1>13. Consumed' BY <1>1, <1>4 DEF Consumed, Stored, NewRow
<1>14. LogoutHolds' BY <1>1, <1>4 DEF LogoutHolds, Stored, Revoked, TypeOK
<1>15. LiveProven' BY <1>1, <1>2, <1>4, <1>6 DEF LiveProven, Stored, NewRow
<1> QED BY <1>8, <1>9, <1>10, <1>11, <1>12, <1>13, <1>14, <1>15

LEMMA RotateStep ==
  ASSUME IInv, NEW h \in Handler, Rotate(h)
  PROVE  IInv'
<1> USE LifetimeAssumption DEF IInv, Rotate, Answer
<1> DEFINE s == request[h].session
           g == request[h].gen
<1>1. s \in Session /\ Stored(s) /\ session[s] \in Row /\ g \in Nat
  BY DEF RequestsOK, RequestOK, TypeOK, RequestRow
<1>2. ~Revoked(s) /\ ~Expired(s) /\ session[s].cur = g
  BY DEF Reason, Newest
<1>3. RotatedRow(s) \in Row
  <2> DEFINE row == session[s]
             until(life) == Earlier(now + life, row.absExp)
  <2>1. now \in Nat /\ row.absExp \in Nat /\ row.cur \in Nat /\ row.cur + 1 \in Nat
    BY <1>1 DEF TypeOK, Row
  <2>2. until(AccessLife) \in Nat /\ until(RefreshLife) \in Nat BY <2>1 DEF Earlier
  <2>3. RotatedRow(s) = [row EXCEPT !.prev = row.cur, !.cur = row.cur + 1,
                           !.rotated = now, !.used = now, !.accessExp = until(AccessLife),
                           !.refreshExp = until(RefreshLife)]
    BY DEF RotatedRow
  <2>4. row \in Row BY <1>1
  <2> HIDE DEF row, until
  <2> QED
    <3> USE <2>1, <2>2, <2>4 DEF Row
    <3>1. [row EXCEPT !.prev = row.cur, !.cur = row.cur + 1,
             !.rotated = now, !.used = now, !.accessExp = until(AccessLife),
             !.refreshExp = until(RefreshLife)] \in Row
      OBVIOUS
    <3> QED BY <2>3, <3>1
<1>4. \A x \in Session : session'[x] = IF x = s THEN RotatedRow(s) ELSE session[x]
  BY <1>1 DEF TypeOK
<1>5. \A o \in Handler : request'[o] = IF o = h THEN Idle ELSE request[o]
  BY DEF TypeOK
<1>6. Idle \in RequestRow BY DEF Idle, RequestRow
<1>7. RotatedRow(s).state = "stored" /\ RotatedRow(s).cur = session[s].cur + 1
      /\ RotatedRow(s).version = session[s].version
      /\ RotatedRow(s).created = session[s].created
      /\ RotatedRow(s).revoked = session[s].revoked
  BY <1>1 DEF RotatedRow, Row, Stored
<1>8. TypeOK'
  <2>1. <<s, session[s].cur>> \in Token /\ <<s, session[s].cur + 1>> \in Token
        /\ <<s, g>> \in Token
    BY <1>1 DEF Token, Row
  <2> QED BY <1>1, <1>3, <1>6, <2>1 DEF TypeOK
<1>9. RequestsOK'
  <2> SUFFICES ASSUME NEW o \in Handler, o # h PROVE RequestOK(request[o], session')
    BY <1>5 DEF RequestsOK, RequestOK, Idle
  <2>1. RequestOK(request[o], session) BY DEF RequestsOK
  <2>2. request[o] \in RequestRow BY DEF TypeOK
  <2>3. \A x \in Session : (session[x].state = "unborn") <=> (session'[x].state = "unborn")
    BY <1>1, <1>4, <1>7 DEF Stored
  <2> QED BY <2>1, <2>2, <2>3 DEF RequestOK, RequestRow
<1>10. OneInsert' BY <1>5 DEF OneInsert, Idle
<1>11. Born' BY <1>1, <1>4, <1>7 DEF Born, Stored
<1>12. TimeOrder'
  <2>1. now \in Nat /\ session[s].created <= now /\ session[s].refreshExp > now
        /\ session[s].absExp > now
    BY <1>1, <1>2 DEF Born, Expired, TypeOK, Row
  <2>2. /\ RotatedRow(s).created <= RotatedRow(s).rotated
        /\ RotatedRow(s).rotated <= RotatedRow(s).used
        /\ RotatedRow(s).rotated < RotatedRow(s).accessExp
        /\ RotatedRow(s).accessExp <= RotatedRow(s).refreshExp
        /\ RotatedRow(s).refreshExp <= RotatedRow(s).absExp
    BY <1>1, <2>1 DEF RotatedRow, Earlier, Row
  <2> QED BY <1>4, <2>2 DEF TimeOrder, Stored
<1>13. Chain'
  <2>1. granted' = granted \cup {<< <<s, g>>, <<s, g + 1>> >>} BY <1>2
  <2> QED BY <1>1, <2>1 DEF Chain
<1>14. Consumed'
  <2> SUFFICES ASSUME NEW x \in Session, session'[x].state = "stored",
                      NEW n \in 1 .. session'[x].cur, n # session'[x].cur
               PROVE  <<x, n>> \in history'
    BY DEF Consumed, Stored
  <2>1. CASE x = s
    <3>1. n \in 1 .. session[s].cur BY <1>1, <1>4, <1>7, <2>1 DEF Row
    <3> QED BY <1>1, <2>1, <3>1 DEF Consumed
  <2>2. CASE x # s BY <1>4, <2>2 DEF Consumed, Stored
  <2> QED BY <2>1, <2>2
<1>15. LogoutHolds'
  BY <1>1, <1>2, <1>4, <1>7 DEF LogoutHolds, Stored, Revoked, TypeOK
<1>16. LiveProven' BY <1>1, <1>4, <1>7 DEF LiveProven, Stored
<1> QED BY <1>8, <1>9, <1>10, <1>11, <1>12, <1>13, <1>14, <1>15, <1>16

-----------------------------------------------------------------------------
(* The tame steps, in groups.                                              *)

\* A step that touches no table.
LEMMA LocalStep ==
  ASSUME IInv, UNCHANGED <<account, session, history, proven, granted>>,
         now' \in Nat, now' >= now, closed' \subseteq closed \cup Closable,
         request' = request \/ (\E h \in Handler, q \in RequestRow : NewRequest(h, q))
  PROVE  IInv'
<1>1. Tame BY DEF Tame, IInv, TypeOK
<1> QED BY <1>1, TameStep

LEMMA AnswerIsNew ==
  ASSUME NEW h \in Handler, Answer(h)
  PROVE  \E o \in Handler, q \in RequestRow : NewRequest(o, q)
<1>1. Idle \in RequestRow BY DEF Idle, RequestRow
<1>2. NewRequest(h, Idle) BY <1>1 DEF NewRequest, RequestOK, Idle, Answer
<1> QED BY <1>1, <1>2

LEMMA AnsweringSteps ==
  ASSUME IInv, NEW h \in Handler,
         RefuseLogin(h) \/ RefuseRefresh(h) \/ Finish(h) \/ StorageFailure(h)
  PROVE  IInv'
<1>1. Answer(h) /\ UNCHANGED <<now, account, session, history, ghosts>>
  BY DEF RefuseLogin, RefuseRefresh, Finish, StorageFailure
<1>2. now' \in Nat /\ now' >= now BY <1>1 DEF IInv, TypeOK
<1> QED BY <1>1, <1>2, AnswerIsNew, LocalStep DEF ghosts

LEMMA ArrivalSteps ==
  ASSUME IInv, NEW h \in Handler, Arrive(h)
  PROVE  IInv'
<1>1. now \in Nat /\ now >= now BY DEF IInv, TypeOK
<1>2. CASE \E u \in User, s \in Session : StartLogin(h, u, s)
  <2>1. PICK u \in User, s \in Session : StartLogin(h, u, s) BY <1>2
  <2> DEFINE q == [Idle EXCEPT !.pc = "insert", !.user = u, !.version = account[u], !.session = s]
  <2>2. account[u] \in Nat BY <2>1 DEF StartLogin, IInv, TypeOK
  <2>3. q \in RequestRow BY <2>2 DEF Idle, RequestRow
  <2>4. NewRequest(h, q) BY <2>1, <2>3 DEF NewRequest, RequestOK, StartLogin, Idle
  <2> QED BY <1>1, <2>1, <2>3, <2>4, LocalStep DEF StartLogin, ghosts
<1>3. ASSUME NEW s \in Session, NEW g \in 1 .. session[s].cur, StartRefresh(h, s, g)
      PROVE  IInv'
  <2>1. PICK may \in BOOLEAN : request' = [request EXCEPT ![h] =
          [Idle EXCEPT !.pc = "decide", !.session = s, !.gen = g, !.mayRotate = may]]
    BY <1>3 DEF StartRefresh
  <2> DEFINE q == [Idle EXCEPT !.pc = "decide", !.session = s, !.gen = g, !.mayRotate = may]
  <2>2. g \in Nat BY DEF IInv, TypeOK, Row
  <2>3. q \in RequestRow BY <2>2 DEF Idle, RequestRow
  <2>4. NewRequest(h, q)
    BY <1>3, <2>1, <2>3 DEF NewRequest, RequestOK, StartRefresh, Issued, Idle
  <2> QED BY <1>1, <1>3, <2>3, <2>4, LocalStep DEF StartRefresh, ghosts
<1>4. ASSUME NEW s \in Session, NEW g \in 1 .. session[s].cur, StartLogout(h, s, g)
      PROVE  IInv'
  <2>1. CASE Known(s, g)
    <3> DEFINE q == [Idle EXCEPT !.pc = "logout", !.session = s, !.gen = g]
    <3>1. g \in Nat BY DEF IInv, TypeOK, Row
    <3>2. q \in RequestRow BY <3>1 DEF Idle, RequestRow
    <3>3. NewRequest(h, q)
      BY <1>4, <2>1, <3>2 DEF NewRequest, RequestOK, StartLogout, Issued, Idle
    <3> QED BY <1>1, <1>4, <2>1, <3>2, <3>3, LocalStep DEF StartLogout
  <2>2. CASE ~Known(s, g)
    <3>1. ~Stored(s) BY <2>2, IInvImplies DEF FamilyRecognized
    <3>2. s \in Closable BY <1>4, <3>1 DEF Closable, Stored, StartLogout, Issued
    <3>3. closed' \subseteq closed \cup Closable BY <1>4, <2>2, <3>2 DEF StartLogout
    <3> QED BY <1>1, <1>4, <2>2, <3>3, LocalStep DEF StartLogout
  <2> QED BY <2>1, <2>2
<1>5. ASSUME NEW s \in Session, NEW g \in 1 .. session[s].cur, StartAccess(h, s, g)
      PROVE  IInv'
  <2> DEFINE q == [Idle EXCEPT !.pc = "touch", !.session = s, !.user = session[s].user,
                     !.version = account[session[s].user], !.instant = now]
  <2>1. session[s] \in Row /\ session[s].version = account[session[s].user]
    BY <1>5 DEF StartAccess, ValidAccess, Current, IInv, TypeOK
  <2>2. account[session[s].user] \in Nat /\ session[s].user \in User \cup {NoUser}
    BY <2>1 DEF Row
  <2>3. q \in RequestRow BY <1>1, <2>2 DEF Idle, RequestRow
  <2>4. NewRequest(h, q)
    BY <1>5, <2>3 DEF NewRequest, RequestOK, StartAccess, Issued, Idle
  <2> QED BY <1>1, <1>5, <2>3, <2>4, LocalStep DEF StartAccess, ghosts
<1> QED BY <1>2, <1>3, <1>4, <1>5 DEF Arrive

\* The steps of a request with an access token that only move its local state.
LEMMA AccessSteps ==
  ASSUME IInv, NEW h \in Handler, SkipTouch(h) \/ Checkpoint(h) \/ StartLogoutAll(h)
  PROVE  IInv'
<1>1. now \in Nat /\ now >= now BY DEF IInv, TypeOK
<1>2. request[h] \in RequestRow /\ RequestOK(request[h], session)
  BY DEF IInv, TypeOK, RequestsOK
<1>3. CASE SkipTouch(h)
  <2> DEFINE q == [request[h] EXCEPT !.pc = "authorized"]
  <2>1. q \in RequestRow BY <1>2 DEF RequestRow
  <2>2. NewRequest(h, q) BY <1>2, <1>3, <2>1 DEF NewRequest, RequestOK, SkipTouch, RequestRow
  <2> QED BY <1>1, <1>3, <2>1, <2>2, LocalStep DEF SkipTouch, ghosts
<1>4. CASE Checkpoint(h)
  <2> DEFINE q == [request[h] EXCEPT !.pc = "permitted"]
  <2>1. q \in RequestRow BY <1>2 DEF RequestRow
  <2>2. CASE StillValid(request[h].session, request[h].version)
    <3>1. NewRequest(h, q)
      BY <1>2, <1>4, <2>1, <2>2 DEF NewRequest, RequestOK, Checkpoint, RequestRow
    <3> QED BY <1>1, <1>4, <2>1, <3>1, LocalStep DEF Checkpoint, ghosts
  <2>3. CASE ~StillValid(request[h].session, request[h].version)
    <3>1. Answer(h) BY <1>4, <2>3 DEF Checkpoint, Answer
    <3> QED BY <1>1, <1>4, <3>1, AnswerIsNew, LocalStep DEF Checkpoint, ghosts
  <2> QED BY <2>2, <2>3
<1>5. CASE StartLogoutAll(h)
  <2> DEFINE ids == {s \in Session : Stored(s) /\ session[s].user = request[h].user}
             q == [Idle EXCEPT !.pc = "logoutAll", !.ids = ids]
  <2>1. q \in RequestRow BY DEF Idle, RequestRow
  <2>2. NewRequest(h, q)
    BY <1>5, <2>1 DEF NewRequest, RequestOK, StartLogoutAll, Idle, Stored
  <2> QED BY <1>1, <1>5, <2>1, <2>2, LocalStep DEF StartLogoutAll, ghosts
<1> QED BY <1>3, <1>4, <1>5

\* Revoking any set of logins.
LEMMA RevokingSteps ==
  ASSUME IInv, NEW S \in SUBSET Session, NEW why \in {"LOGOUT", "LOGOUT_ALL"},
         session' = RevokedAs(S, why), UNCHANGED <<now, account, history, proven, granted>>
  PROVE  Tame /\ \A s \in S : session[s].state # "unborn" => s \in Closable
<1>1. \A s \in Session : session[s] \in Row BY DEF IInv, TypeOK
<1>2. \A s \in Session : [session[s] EXCEPT !.revoked = why] \in Row BY <1>1 DEF Row
<1>3. \A s \in Session : session'[s] = IF s \in S /\ Stored(s) /\ ~Revoked(s)
        THEN [session[s] EXCEPT !.revoked = why] ELSE session[s]
  BY DEF RevokedAs
<1>4. session' \in [Session -> Row] BY <1>1, <1>2 DEF RevokedAs
<1>5. \A s \in Session : session'[s] = session[s] \/ TameRow(s)
  <2> SUFFICES ASSUME NEW s \in Session, s \in S, Stored(s), ~Revoked(s) PROVE TameRow(s)
    BY <1>3
  <2>1. session'[s] = [session[s] EXCEPT !.revoked = why] BY <1>3
  <2> QED BY <1>1, <2>1 DEF TameRow, Row, Stored
<1>6. ASSUME NEW s \in S, session[s].state # "unborn" PROVE s \in Closable
  <2>1. CASE Stored(s) /\ ~Revoked(s)
    <3>1. session'[s] = [session[s] EXCEPT !.revoked = why] BY <1>3, <2>1
    <3>2. session'[s].revoked = why BY <1>1, <3>1 DEF Row
    <3> QED BY <1>6, <3>2 DEF Closable
  <2>2. CASE ~(Stored(s) /\ ~Revoked(s))
    BY <1>3, <1>6, <2>2 DEF Closable, Stored, Revoked
  <2> QED BY <2>1, <2>2
<1> QED BY <1>4, <1>5, <1>6 DEF Tame, IInv, TypeOK

\* Deleting any set of stored logins, with their history.
LEMMA DeletingSteps ==
  ASSUME IInv, NEW S \in SUBSET Session, \A s \in S : Stored(s),
         session' = Deleted(S), history' = {t \in history : t[1] \notin S},
         account' \in [User -> Nat \cup {Gone}], UNCHANGED <<now, proven, granted>>
  PROVE  Tame
<1>1. \A s \in Session : session[s] \in Row BY DEF IInv, TypeOK
<1>2. \A s \in Session : [session[s] EXCEPT !.state = "deleted"] \in Row BY <1>1 DEF Row
<1>3. session' \in [Session -> Row] BY <1>1, <1>2 DEF Deleted
<1>4. \A s \in Session : session'[s] = session[s] \/ TameRow(s)
  <2> SUFFICES ASSUME NEW s \in S PROVE TameRow(s) BY DEF Deleted
  <2>1. session'[s] = [session[s] EXCEPT !.state = "deleted"] BY DEF Deleted
  <2> QED BY <1>1, <2>1 DEF TameRow, Row, Revoked
<1>5. \A t \in history : t \in history' \/ session'[t[1]].state # "stored"
  <2> SUFFICES ASSUME NEW t \in history, t[1] \in S PROVE session'[t[1]].state # "stored"
    OBVIOUS
  <2>1. session'[t[1]] = [session[t[1]] EXCEPT !.state = "deleted"] BY DEF Deleted
  <2>2. session[t[1]] \in Row BY <1>1
  <2> QED BY <2>1, <2>2 DEF Row
<1> QED BY <1>3, <1>4, <1>5 DEF Tame, IInv, TypeOK

LEMMA TableSteps ==
  ASSUME IInv, NEW h \in Handler,
         RevokeReused(h) \/ Logout(h) \/ Touch(h) \/ LogoutAll(h)
  PROVE  IInv'
<1> DEFINE q == request[h]
           s == q.session
<1>1. q \in RequestRow /\ RequestOK(q, session) BY DEF IInv, TypeOK, RequestsOK
<1>2. CASE RevokeReused(h)
  <2>1. s \in Session /\ Stored(s) /\ ~Revoked(s) /\ session[s] \in Row
    BY <1>1, <1>2 DEF RevokeReused, RequestOK, Reason, IInv, TypeOK
  <2>2. [session[s] EXCEPT !.revoked = "REUSE_DETECTED"] \in Row BY <2>1 DEF Row
  <2>3. \A x \in Session : session'[x] =
          IF x = s THEN [session[s] EXCEPT !.revoked = "REUSE_DETECTED"] ELSE session[x]
    BY <1>2, <2>1 DEF RevokeReused, IInv, TypeOK
  <2>4. TameRow(s) BY <2>1, <2>3 DEF TameRow, Row, Stored
  <2>5. session' \in [Session -> Row] BY <1>2, <2>2 DEF RevokeReused, IInv, TypeOK
  <2>6. \A x \in Session : session'[x] = session[x] \/ TameRow(x) BY <2>3, <2>4
  <2>7. Tame BY <1>2, <2>5, <2>6 DEF Tame, RevokeReused, IInv, TypeOK, ghosts
  <2> QED BY <1>2, <2>7, AnswerIsNew, TameStep DEF RevokeReused, ghosts
<1>3. CASE Logout(h)
  <2>1. s \in Session /\ session[s].state # "unborn" BY <1>1, <1>3 DEF Logout, RequestOK
  <2>2. session' = RevokedAs({s}, "LOGOUT") /\ closed' = closed \cup {s}
    BY <1>3 DEF Logout
  <2>3. Tame /\ s \in Closable BY <1>3, <2>1, <2>2, RevokingSteps DEF Logout
  <2> QED BY <1>3, <2>2, <2>3, AnswerIsNew, TameStep DEF Logout
<1>4. CASE Touch(h)
  <2>1. s \in Session /\ Stored(s) /\ session[s] \in Row /\ q.instant \in Nat
    BY <1>1, <1>4 DEF Touch, Touchable, RequestOK, RequestRow, IInv, TypeOK
  <2>2. q.instant >= session[s].used
    BY <1>4, <2>1, LifetimeAssumption DEF Touch, Touchable, Row
  <2>3. [session[s] EXCEPT !.used = q.instant] \in Row BY <2>1 DEF Row
  <2>4. \A x \in Session : session'[x] =
          IF x = s THEN [session[s] EXCEPT !.used = q.instant] ELSE session[x]
    BY <1>4, <2>1 DEF Touch, IInv, TypeOK
  <2>5. TameRow(s) BY <2>1, <2>2, <2>4 DEF TameRow, Row, Stored, Revoked
  <2>6. Tame
    <3>1. session' \in [Session -> Row] BY <1>4, <2>3 DEF Touch, IInv, TypeOK
    <3>2. \A x \in Session : session'[x] = session[x] \/ TameRow(x) BY <2>4, <2>5
    <3> QED BY <1>4, <3>1, <3>2 DEF Tame, Touch, IInv, TypeOK, ghosts
  <2> DEFINE n == [q EXCEPT !.pc = "authorized"]
  <2>7. n \in RequestRow BY <1>1 DEF RequestRow
  <2>8. NewRequest(h, n)
    BY <1>1, <1>4, <2>7 DEF NewRequest, RequestOK, Touch, RequestRow
  <2> QED BY <1>4, <2>6, <2>7, <2>8, TameStep DEF Touch, ghosts
<1>5. CASE LogoutAll(h)
  <2>1. q.ids \in SUBSET Session /\ \A x \in q.ids : session[x].state # "unborn"
    BY <1>1, <1>5 DEF LogoutAll, RequestOK, RequestRow
  <2>2. session' = RevokedAs(q.ids, "LOGOUT_ALL") /\ closed' = closed \cup q.ids
    BY <1>5 DEF LogoutAll
  <2>3. Tame /\ \A x \in q.ids : x \in Closable
    BY <1>5, <2>1, <2>2, RevokingSteps DEF LogoutAll
  <2>4. closed' \subseteq closed \cup Closable BY <2>2, <2>3
  <2> QED BY <1>5, <2>3, <2>4, AnswerIsNew, TameStep DEF LogoutAll
<1> QED BY <1>2, <1>3, <1>4, <1>5

LEMMA SystemSteps ==
  ASSUME IInv,
         \/ \E u \in User : BumpVersion(u) \/ DeleteUser(u)
         \/ \E S \in SUBSET Session : Purge(S)
         \/ Tick
  PROVE  IInv'
<1>1. now \in Nat /\ account \in [User -> Nat \cup {Gone}] BY DEF IInv, TypeOK
<1>2. ASSUME NEW u \in User, BumpVersion(u) PROVE IInv'
  <2>1. account[u] + 1 \in Nat BY <1>1, <1>2 DEF BumpVersion
  <2>2. account' \in [User -> Nat \cup {Gone}] BY <1>1, <1>2, <2>1 DEF BumpVersion
  <2>3. Tame BY <1>1, <1>2, <2>2 DEF Tame, BumpVersion, IInv, TypeOK, ghosts
  <2> QED BY <1>2, <2>3, TameStep DEF BumpVersion, ghosts
<1>3. ASSUME NEW u \in User, DeleteUser(u) PROVE IInv'
  <2> DEFINE S == {s \in Session : Stored(s) /\ session[s].user = u}
  <2>1. account' \in [User -> Nat \cup {Gone}] BY <1>1, <1>3 DEF DeleteUser
  <2>2. Tame BY <1>3, <2>1, DeletingSteps DEF DeleteUser, ghosts
  <2> QED BY <1>3, <2>2, TameStep DEF DeleteUser, ghosts
<1>4. ASSUME NEW S \in SUBSET Session, Purge(S) PROVE IInv'
  <2>1. Tame BY <1>1, <1>4, DeletingSteps DEF Purge, ghosts
  <2> QED BY <1>4, <2>1, TameStep DEF Purge, ghosts
<1>5. CASE Tick BY <1>1, <1>5, LocalStep DEF Tick, ghosts
<1> QED BY <1>2, <1>3, <1>4, <1>5

LEMMA NextIInv == IInv /\ [Next]_vars => IInv'
<1> SUFFICES ASSUME IInv, [Next]_vars PROVE IInv' OBVIOUS
<1>1. CASE UNCHANGED vars
  BY <1>1, LocalStep DEF vars, IInv, TypeOK
<1>2. ASSUME NEW h \in Handler, Handle(h) PROVE IInv'
  BY <1>2, InsertStep, RotateStep, AnsweringSteps, AccessSteps, TableSteps DEF Handle
<1> QED BY <1>1, <1>2, ArrivalSteps, SystemSteps DEF Next

-----------------------------------------------------------------------------
(* What one step may do to a login that has ended, and to an authorization.*)

FinalRow(s) ==
  /\ session[s].state = "deleted" => session'[s] = session[s]
  /\ Stored(s) =>
       /\ session'[s].absExp = session[s].absExp
       /\ session'[s].version = session[s].version
       /\ Revoked(s) => \E d \in {"stored", "deleted"} :
            session'[s] = [session[s] EXCEPT !.state = d, !.used = session'[s].used]

LEMMA SameRowFinal ==
  ASSUME IInv, NEW s \in Session, session'[s] = session[s]
  PROVE  FinalRow(s)
<1>1. session[s] \in Row BY DEF IInv, TypeOK
<1>2. session[s] = [session[s] EXCEPT !.state = session[s].state, !.used = session[s].used]
  BY <1>1 DEF Row
<1> QED BY <1>2 DEF FinalRow, Stored

LEMMA StepFinal ==
  ASSUME IInv, Next, NEW s \in Session
  PROVE  FinalRow(s)
<1>1. session[s] \in Row BY DEF IInv, TypeOK
<1>2. CASE session' = session BY <1>2, SameRowFinal
<1>3. ASSUME NEW h \in Handler, InsertSession(h) PROVE FinalRow(s)
  <2>1. session[request[h].session].state = "unborn"
    BY <1>3 DEF InsertSession, IInv, RequestsOK, RequestOK
  <2>2. CASE s = request[h].session BY <2>1, <2>2 DEF FinalRow, Stored
  <2>3. CASE s # request[h].session
    <3>1. session'[s] = session[s] BY <1>3, <2>3 DEF InsertSession, IInv, TypeOK
    <3> QED BY <3>1, SameRowFinal
  <2> QED BY <2>2, <2>3
<1>4. ASSUME NEW h \in Handler, Rotate(h) PROVE FinalRow(s)
  <2>1. Stored(request[h].session) /\ ~Revoked(request[h].session)
    BY <1>4 DEF Rotate, Reason
  <2>2. CASE s = request[h].session
    <3>1. session'[s] = RotatedRow(s) BY <1>4, <2>2 DEF Rotate, IInv, TypeOK
    <3> QED BY <1>1, <2>1, <2>2, <3>1 DEF FinalRow, RotatedRow, Row, Stored
  <2>3. CASE s # request[h].session
    <3>1. session'[s] = session[s] BY <1>4, <2>3 DEF Rotate, IInv, TypeOK
    <3> QED BY <3>1, SameRowFinal
  <2> QED BY <2>2, <2>3
<1>5. ASSUME NEW h \in Handler, RevokeReused(h) PROVE FinalRow(s)
  <2>1. Stored(request[h].session) /\ ~Revoked(request[h].session)
    BY <1>5 DEF RevokeReused, Reason
  <2>2. CASE s = request[h].session
    <3>1. session'[s] = [session[s] EXCEPT !.revoked = "REUSE_DETECTED"]
      BY <1>5, <2>2 DEF RevokeReused, IInv, TypeOK
    <3> QED BY <1>1, <2>1, <2>2, <3>1 DEF FinalRow, Row, Stored
  <2>3. CASE s # request[h].session
    <3>1. session'[s] = session[s] BY <1>5, <2>3 DEF RevokeReused, IInv, TypeOK
    <3> QED BY <3>1, SameRowFinal
  <2> QED BY <2>2, <2>3
<1>6. ASSUME NEW S, NEW why, session' = RevokedAs(S, why) PROVE FinalRow(s)
  <2>1. CASE Stored(s) /\ ~Revoked(s) /\ s \in S
    <3>1. session'[s] = [session[s] EXCEPT !.revoked = why] BY <1>6, <2>1 DEF RevokedAs
    <3> QED BY <1>1, <2>1, <3>1 DEF FinalRow, Row, Stored
  <2>2. CASE ~(Stored(s) /\ ~Revoked(s) /\ s \in S)
    <3>1. session'[s] = session[s] BY <1>6, <2>2 DEF RevokedAs
    <3> QED BY <3>1, SameRowFinal
  <2> QED BY <2>1, <2>2
<1>7. ASSUME NEW h \in Handler, Touch(h) PROVE FinalRow(s)
  <2>1. Stored(request[h].session) BY <1>7 DEF Touch, Touchable
  <2>2. CASE s = request[h].session
    <3>1. session'[s] = [session[s] EXCEPT !.used = request[h].instant]
      BY <1>7, <2>2 DEF Touch, IInv, TypeOK
    <3>2. session'[s].used = request[h].instant BY <1>1, <3>1 DEF Row
    <3>3. session[s].state = "stored" BY <2>1, <2>2 DEF Stored
    <3>4. [session[s] EXCEPT !.used = session'[s].used] =
            [session[s] EXCEPT !.state = "stored", !.used = session'[s].used]
      BY <1>1, <3>3 DEF Row
    <3>5. session'[s] = [session[s] EXCEPT !.state = "stored", !.used = session'[s].used]
      BY <3>1, <3>2, <3>4
    <3> QED BY <1>1, <2>1, <2>2, <3>1, <3>5 DEF FinalRow, Row, Stored
  <2>3. CASE s # request[h].session
    <3>1. session'[s] = session[s] BY <1>7, <2>3 DEF Touch, IInv, TypeOK
    <3> QED BY <3>1, SameRowFinal
  <2> QED BY <2>2, <2>3
<1>8. ASSUME NEW S, \A x \in S : Stored(x), session' = Deleted(S) PROVE FinalRow(s)
  <2>1. CASE s \in S
    <3>1. session'[s] = [session[s] EXCEPT !.state = "deleted"] BY <1>8, <2>1 DEF Deleted
    <3>2. session'[s] = [session[s] EXCEPT !.state = "deleted", !.used = session'[s].used]
      BY <1>1, <3>1 DEF Row
    <3> QED BY <1>1, <1>8, <2>1, <3>1, <3>2 DEF FinalRow, Row, Stored
  <2>2. CASE s \notin S
    <3>1. session'[s] = session[s] BY <1>8, <2>2 DEF Deleted
    <3> QED BY <3>1, SameRowFinal
  <2> QED BY <2>1, <2>2
<1>9. ASSUME NEW h \in Handler, Arrive(h) \/ Handle(h) PROVE FinalRow(s)
  <2>1. CASE Logout(h) BY <1>6, <2>1 DEF Logout
  <2>2. CASE LogoutAll(h) BY <1>6, <2>2 DEF LogoutAll
  <2>3. CASE Arrive(h)
    BY <1>2, <2>3 DEF Arrive, StartLogin, StartRefresh, StartLogout, StartAccess
  <2>4. CASE \/ RefuseLogin(h) \/ RefuseRefresh(h) \/ SkipTouch(h) \/ Checkpoint(h)
             \/ Finish(h) \/ StartLogoutAll(h) \/ StorageFailure(h)
    BY <1>2, <2>4 DEF RefuseLogin, RefuseRefresh, SkipTouch, Checkpoint, Finish,
         StartLogoutAll, StorageFailure
  <2> QED BY <1>3, <1>4, <1>5, <1>7, <1>9, <2>1, <2>2, <2>3, <2>4 DEF Handle
<1>10. ASSUME NEW u \in User, BumpVersion(u) \/ DeleteUser(u) PROVE FinalRow(s)
  <2>1. CASE BumpVersion(u) BY <1>2, <2>1 DEF BumpVersion
  <2>2. CASE DeleteUser(u) BY <1>8, <2>2 DEF DeleteUser
  <2> QED BY <1>10, <2>1, <2>2
<1>11. ASSUME NEW S \in SUBSET Session, Purge(S) PROVE FinalRow(s)
  BY <1>8, <1>11 DEF Purge
<1>12. CASE Tick BY <1>2, <1>12 DEF Tick
<1> QED BY <1>9, <1>10, <1>11, <1>12 DEF Next

\* Permission comes from a checkpoint only.
LEMMA OnlyCheckpointPermits ==
  ASSUME IInv, Next, NEW h \in Handler,
         request[h].pc = "authorized", request'[h].pc = "permitted"
  PROVE  Checkpoint(h)
<1>1. \A o \in Handler : request[o] \in RequestRow BY DEF IInv, TypeOK
<1>2. request'[h] # request[h] /\ request'[h] # Idle /\ request' # request BY DEF Idle
<1>3. request \in [Handler -> RequestRow] BY DEF IInv, TypeOK
<1>4. ASSUME NEW o \in Handler, Answer(o) PROVE FALSE
  BY <1>2, <1>3, <1>4 DEF Answer
<1>5. ASSUME NEW o \in Handler, Arrive(o) PROVE FALSE
  <2>1. o # h BY <1>5 DEF Arrive, StartLogin, StartRefresh, StartLogout, StartAccess
  <2>2. request'[h] = request[h]
    BY <1>3, <1>5, <2>1 DEF Arrive, StartLogin, StartRefresh, StartLogout, StartAccess
  <2> QED BY <1>2, <2>2
<1>6. ASSUME NEW o \in Handler, Touch(o) \/ SkipTouch(o) PROVE FALSE
  <2>1. o # h BY <1>6 DEF Touch, SkipTouch
  <2> QED BY <1>2, <1>3, <1>6, <2>1 DEF Touch, SkipTouch
<1>7. ASSUME NEW o \in Handler, StartLogoutAll(o) PROVE FALSE
  <2> DEFINE q == [Idle EXCEPT !.pc = "logoutAll",
                     !.ids = {s \in Session : Stored(s) /\ session[s].user = request[o].user}]
  <2>1. request' = [request EXCEPT ![o] = q] BY <1>7 DEF StartLogoutAll
  <2>2. q.pc = "logoutAll" BY DEF Idle
  <2> HIDE DEF q
  <2> QED BY <1>2, <1>3, <2>1, <2>2
<1>8. ASSUME NEW o \in Handler, Checkpoint(o) PROVE o = h
  BY <1>2, <1>3, <1>8 DEF Checkpoint
<1>9. ASSUME NEW o \in Handler, Handle(o) PROVE o = h /\ Checkpoint(o)
  BY <1>4, <1>6, <1>7, <1>8, <1>9
     DEF Handle, InsertSession, RefuseLogin, Rotate, RevokeReused, RefuseRefresh, Logout,
         Finish, LogoutAll, StorageFailure
<1> QED BY <1>2, <1>5, <1>9 DEF Next, BumpVersion, DeleteUser, Purge, Tick

LEMMA StepCheckpoint ==
  ASSUME IInv, Next, NEW h \in Handler,
         request[h].pc = "authorized", request'[h].pc = "permitted"
  PROVE  LET s == request[h].session IN
           s \notin closed /\ account[session[s].user] = proven[s]
<1> DEFINE s == request[h].session
<1>1. Checkpoint(h) BY OnlyCheckpointPermits
<1>2. s \in Session BY DEF IInv, RequestsOK, RequestOK
<1>3. StillValid(s, request[h].version)
  BY <1>1 DEF Checkpoint, Idle, IInv, TypeOK
<1>4. s \notin closed BY <1>3 DEF StillValid, IInv, LogoutHolds
<1>5. session[s].version = proven[s] BY <1>2, <1>3 DEF StillValid, IInv, LiveProven
<1> QED BY <1>3, <1>4, <1>5 DEF StillValid

-----------------------------------------------------------------------------
(* Every step is a step of the families of tokens, or none.                *)

\* What a step other than insertion and rotation may do to the family of s.
MayClose(s) ==
  /\ session'[s].cur = session[s].cur
  /\ FamilyState(s)' # FamilyState(s) => FamilyState(s) # "none" /\ FamilyState(s)' = "closed"

FamilyStep == Families!Next \/ UNCHANGED <<[s \in Session |-> FamilyState(s)],
                                            [s \in Session |-> session[s].cur]>>

LEMMA ClosingStep ==
  ASSUME \A s \in Session : MayClose(s)
  PROVE  FamilyStep
<1> DEFINE S == {s \in Session : FamilyState(s)' # FamilyState(s)}
<1>1. \A s \in Session : FamilyState(s)' = IF s \in S THEN "closed" ELSE FamilyState(s)
  BY DEF MayClose
<1>2. \A s \in S : FamilyState(s) # "none" BY DEF MayClose
<1>3. \A s \in Session : session'[s].cur = session[s].cur BY DEF MayClose
<1> HIDE DEF S
<1>4. S \in SUBSET Session BY DEF S
<1>5. Families!Close(S) BY <1>1, <1>2, <1>3, <1>4 DEF Families!Close
<1> QED BY <1>4, <1>5 DEF FamilyStep, Families!Next

\* One row is replaced.
LEMMA RowStep ==
  ASSUME IInv, NEW x \in Session, NEW row, session' = [session EXCEPT ![x] = row]
  PROVE  /\ session'[x] = row
         /\ \A s \in Session \ {x} :
              session'[s].cur = session[s].cur /\ FamilyState(s)' = FamilyState(s)
BY DEF IInv, TypeOK, FamilyState, Stored, Revoked

LEMMA OpeningStep ==
  ASSUME IInv, NEW h \in Handler, InsertSession(h)
  PROVE  FamilyStep
<1>1. PICK x \in Session : x = request[h].session /\ session[x].state = "unborn"
  BY DEF InsertSession, IInv, RequestsOK, RequestOK
<1>2. PICK row : row = NewRow(request[h].user) OBVIOUS
<1>3. session' = [session EXCEPT ![x] = row] BY <1>1, <1>2 DEF InsertSession
<1>4. row.cur = 1 /\ row.state = "stored" /\ row.revoked = "no" BY <1>2 DEF NewRow
<1>5. session'[x] = row BY <1>3, RowStep
<1>6. FamilyState(x) = "none" /\ FamilyState(x)' = "open" /\ session'[x].cur = 1
  BY <1>1, <1>4, <1>5 DEF FamilyState, Stored, Revoked
<1>7. \A s \in Session \ {x} :
        session'[s].cur = session[s].cur /\ FamilyState(s)' = FamilyState(s)
  BY <1>3, RowStep
<1>8. Families!Open(x) BY <1>6, <1>7 DEF Families!Open
<1>9. Families!Next BY <1>8, Zenon DEF Families!Next
<1> QED BY <1>9 DEF FamilyStep

LEMMA ExchangingStep ==
  ASSUME IInv, NEW h \in Handler, Rotate(h)
  PROVE  FamilyStep
<1>1. PICK x \in Session : x = request[h].session
  BY DEF Rotate, IInv, RequestsOK, RequestOK
<1>2. PICK row : row = RotatedRow(x) OBVIOUS
<1>3. Stored(x) /\ ~Revoked(x) BY <1>1 DEF Rotate, Reason
<1>4. session' = [session EXCEPT ![x] = row] BY <1>1, <1>2 DEF Rotate
<1>5. /\ row.cur = session[x].cur + 1
      /\ row.state = session[x].state /\ row.revoked = session[x].revoked
  <2>1. session[x] \in Row BY DEF IInv, TypeOK
  <2> QED BY <1>2, <2>1 DEF RotatedRow, Row
<1>6. session'[x] = row BY <1>4, RowStep
<1>7. FamilyState(x) = "open" /\ FamilyState(x)' = "open"
      /\ session'[x].cur = session[x].cur + 1
  BY <1>3, <1>5, <1>6 DEF FamilyState, Stored, Revoked
<1>8. \A s \in Session \ {x} :
        session'[s].cur = session[s].cur /\ FamilyState(s)' = FamilyState(s)
  BY <1>4, RowStep
<1>9. Families!Exchange(x) BY <1>7, <1>8 DEF Families!Exchange
<1>10. Families!Next BY <1>9, Zenon DEF Families!Next
<1> QED BY <1>10 DEF FamilyStep

LEMMA StepFamily == IInv /\ [Next]_vars => FamilyStep
<1> SUFFICES ASSUME IInv, [Next]_vars PROVE FamilyStep OBVIOUS
<1>1. \A s \in Session : session[s] \in Row BY DEF IInv, TypeOK
<1>2. CASE session' = session
  <2>1. \A s \in Session : MayClose(s)
    BY <1>2 DEF MayClose, FamilyState, Stored, Revoked
  <2> QED BY <2>1, ClosingStep
<1>3. ASSUME NEW h \in Handler, RevokeReused(h) PROVE FamilyStep
  <2>1. Stored(request[h].session) /\ ~Revoked(request[h].session)
        /\ request[h].session \in Session
    BY <1>3 DEF RevokeReused, Reason, IInv, RequestsOK, RequestOK
  <2>2. session' = [session EXCEPT ![request[h].session] =
                      [session[request[h].session] EXCEPT !.revoked = "REUSE_DETECTED"]]
    BY <1>3, <2>1 DEF RevokeReused, IInv, TypeOK
  <2>3. \A s \in Session : MayClose(s)
    BY <1>1, <2>1, <2>2, RowStep DEF MayClose, FamilyState, Stored, Revoked, Row
  <2> QED BY <2>3, ClosingStep
<1>4. ASSUME NEW S, NEW why \in {"LOGOUT", "LOGOUT_ALL"}, session' = RevokedAs(S, why)
      PROVE FamilyStep
  <2>1. \A s \in Session : MayClose(s)
    BY <1>1, <1>4 DEF RevokedAs, MayClose, FamilyState, Stored, Revoked, Row
  <2> QED BY <2>1, ClosingStep
<1>5. ASSUME NEW h \in Handler, Touch(h) PROVE FamilyStep
  <2>1. request[h].session \in Session BY <1>5 DEF Touch, IInv, RequestsOK, RequestOK
  <2>2. session' = [session EXCEPT ![request[h].session] =
                      [session[request[h].session] EXCEPT !.used = request[h].instant]]
    BY <1>5, <2>1 DEF Touch, IInv, TypeOK
  <2>3. \A s \in Session : MayClose(s)
    BY <1>1, <2>1, <2>2, RowStep DEF MayClose, FamilyState, Stored, Revoked, Row
  <2> QED BY <2>3, ClosingStep
<1>6. ASSUME NEW S, \A x \in S : Stored(x), session' = Deleted(S) PROVE FamilyStep
  <2>1. \A s \in Session : MayClose(s)
    BY <1>1, <1>6 DEF Deleted, MayClose, FamilyState, Stored, Revoked, Row
  <2> QED BY <2>1, ClosingStep
<1>7. ASSUME NEW h \in Handler, Arrive(h) \/ Handle(h) PROVE FamilyStep
  <2>1. CASE Logout(h) BY <1>4, <2>1 DEF Logout
  <2>2. CASE LogoutAll(h) BY <1>4, <2>2 DEF LogoutAll
  <2>3. CASE Arrive(h)
    BY <1>2, <2>3 DEF Arrive, StartLogin, StartRefresh, StartLogout, StartAccess
  <2>4. CASE \/ RefuseLogin(h) \/ RefuseRefresh(h) \/ SkipTouch(h) \/ Checkpoint(h)
             \/ Finish(h) \/ StartLogoutAll(h) \/ StorageFailure(h)
    BY <1>2, <2>4 DEF RefuseLogin, RefuseRefresh, SkipTouch, Checkpoint, Finish,
         StartLogoutAll, StorageFailure
  <2> QED BY OpeningStep, ExchangingStep, <1>3, <1>5, <1>7, <2>1, <2>2, <2>3, <2>4 DEF Handle
<1>8. ASSUME NEW u \in User, BumpVersion(u) \/ DeleteUser(u) PROVE FamilyStep
  <2>1. CASE BumpVersion(u) BY <1>2, <2>1 DEF BumpVersion
  <2>2. CASE DeleteUser(u) BY <1>6, <2>2 DEF DeleteUser
  <2> QED BY <1>8, <2>1, <2>2
<1>9. ASSUME NEW S \in SUBSET Session, Purge(S) PROVE FamilyStep
  BY <1>6, <1>9 DEF Purge
<1>10. CASE Tick BY <1>2, <1>10 DEF Tick
<1>11. CASE UNCHANGED vars BY <1>2, <1>11 DEF vars
<1> QED BY <1>7, <1>8, <1>9, <1>10, <1>11 DEF Next

-----------------------------------------------------------------------------
(* The theorems.                                                           *)

\* The inductive invariant holds throughout every execution.
THEOREM Invariance == Spec => []IInv
BY InitIInv, NextIInv, PTL DEF Spec

\* Every variable keeps its type: the rows of mobile_sessions and the local
\* state of the route handlers.
THEOREM TypeCorrect == Spec => []TypeOK
<1>1. IInv => TypeOK BY DEF IInv
<1> QED BY <1>1, Invariance, PTL

\* No statement is ever rejected by mobile_sessions_time_order_check, for
\* any lifetimes with AccessLife <= RefreshLife <= AbsoluteLife.
THEOREM TimesInOrder == Spec => []TimeOrder
<1>1. IInv => TimeOrder BY DEF IInv
<1> QED BY <1>1, Invariance, PTL

\* However many requests overlap, rotateSessionHash gives at most one
\* successor for a refresh token.
THEOREM ExchangedOnce == Spec => []SingleUse
<1>1. IInv => SingleUse BY IInvImplies
<1> QED BY <1>1, Invariance, PTL

\* Every token handed out for a stored login is found again by one of the
\* three look-ups, whatever its generation.
THEOREM NoTokenLost == Spec => []FamilyRecognized
<1>1. IInv => FamilyRecognized BY IInvImplies
<1> QED BY <1>1, Invariance, PTL

\* A login whose logout or logout-all was answered is never valid again.
THEOREM StaysLoggedOut == Spec => []LogoutHolds
<1>1. IInv => LogoutHolds BY DEF IInv
<1> QED BY <1>1, Invariance, PTL

\* A stored login carries the account version its password was checked at.
THEOREM BornAtProvenVersion == Spec => []LiveProven
<1>1. IInv => LiveProven BY DEF IInv
<1> QED BY <1>1, Invariance, PTL

\* The invariants of the rows, together (mobile_sessions and its statements).
THEOREM Invariants == Spec => []RowsSound
BY TypeCorrect, TimesInOrder, ExchangedOnce, NoTokenLost, BornAtProvenVersion, PTL
   DEF RowsSound

\* No step revives, rotates or prolongs a login that has ended, and none
\* moves the absolute expiry or the version of one that has not.
THEOREM EndIsFinal == Spec => EndedIsFinal
<1>1. IInv /\ [Next]_vars => [\A s \in Session : FinalRow(s)]_vars BY StepFinal
<1>2. IInv /\ [Next]_vars =>
        [\A s \in Session :
           /\ session[s].state = "deleted" => session'[s] = session[s]
           /\ Stored(s) =>
                /\ session'[s].absExp = session[s].absExp
                /\ session'[s].version = session[s].version
                /\ Revoked(s) => \E d \in {"stored", "deleted"} :
                     session'[s] = [session[s] EXCEPT !.state = d, !.used = session'[s].used]]_vars
  BY <1>1 DEF FinalRow
<1> QED BY <1>2, Invariance, PTL DEF Spec, EndedIsFinal

\* What revalidateMobilePrincipalOverride lets pass is a login that nobody
\* has closed, of an account still at the version the password was checked at.
THEOREM CheckpointHolds == Spec => CheckpointCurrent
<1>1. IInv /\ [Next]_vars =>
        [\A h \in Handler :
           request[h].pc = "authorized" /\ request'[h].pc = "permitted" =>
             LET s == request[h].session IN
               s \notin closed /\ account[session[s].user] = proven[s]]_vars
  BY StepCheckpoint
<1> QED BY <1>1, Invariance, PTL DEF Spec, CheckpointCurrent

\* The session server implements TokenFamily: seen through their state and
\* newest generation, the logins open, are exchanged and closed atomically.
THEOREM Refinement == Spec => ImplementsFamilies
<1>1. Init => Families!Init
  BY DEF Init, Families!Init, FamilyState, Unborn
<1>2. IInv /\ [Next]_vars =>
        [Families!Next]_<<[s \in Session |-> FamilyState(s)], [s \in Session |-> session[s].cur]>>
  BY StepFamily DEF FamilyStep
<1> QED BY <1>1, <1>2, Invariance, PTL DEF Spec, ImplementsFamilies, Families!Spec
=============================================================================
