-------------------------- MODULE MCAcademicRegistry --------------------------
EXTENDS AcademicRegistry

CONSTANTS s1, s2, u1, u2, boss, c1, c2, e1, t1, t2, t3,
          enrol, join, linkA, linkB, new, editA, editB, open, shut

Plain == [kind |-> "close", student |-> None, cohort |-> None, links |-> <<>>,
          body |-> NoBody, version |-> 0, targets |-> {}]
Registers(s, c) == [Plain EXCEPT !.kind = "register", !.student = s, !.cohort = c]
Drafts(kind, t, c, e) ==
  [Plain EXCEPT !.kind = kind, !.body = [text |-> t, cohort |-> c, event |-> e]]
K(s, u, c) == [student |-> s, user |-> u, cohort |-> c, role |-> "MEMBER", was |-> None]
Links(plan) == [Plain EXCEPT !.kind = "link", !.links = plan]

MCReq == {enrol, join, linkA, linkB, new, editA, editB, open, shut}
MCForm == [r \in MCReq |->
  CASE r = enrol -> {Registers(s1, c1), Registers(s1, c2)}
    [] r = join  -> {Registers(s1, c1)}
    [] r = linkA -> {Links(<<K(s1, u1, c1), K(s2, u2, c1)>>)}
    [] r = linkB -> {Links(<<K(s2, u2, c1), K(s1, u1, c1)>>), Links(<<K(s2, u1, c2)>>)}
    [] r = new   -> {Drafts("create", t1, c1, e1)}
    [] r = editA -> {Drafts("update", t2, c1, e1), Drafts("update", t2, c2, None)}
    [] r = editB -> {Drafts("update", t3, c1, e1)}
    [] r = open  -> {[Plain EXCEPT !.kind = "publish"]}
    [] r = shut  -> {Plain}]

\* Some registrations are served by a deployment that still has the former approver.
MCActor == [r \in MCReq |-> IF r = enrol THEN u2 ELSE boss]

\* Calls made of the requests of a small instance, and changes by others.
Uses(n, others) ==
  [calls |-> [r \in MCReq |-> IF r \in DOMAIN n THEN n[r] ELSE 0], changes |-> others]
MCScenario == {
  Uses(enrol :> 2 @@ join :> 1, 0),
  Uses(linkA :> 2 @@ linkB :> 1, 1),
  Uses(linkA :> 1 @@ linkB :> 2, 0),
  Uses(enrol :> 1 @@ linkA :> 2, 1),
  Uses(new :> 1 @@ editA :> 2 @@ editB :> 1, 1),
  Uses(new :> 1 @@ editA :> 1 @@ open :> 2, 1),
  Uses(new :> 1 @@ enrol :> 1 @@ open :> 2, 0),
  Uses(new :> 1 @@ linkA :> 1 @@ open :> 1, 1),
  Uses(new :> 2 @@ open :> 1 @@ shut :> 2, 1)}
MCIdOf == s1 :> 1 @@ s2 :> 2 @@ u1 :> 3 @@ u2 :> 4 @@ boss :> 5
=============================================================================
