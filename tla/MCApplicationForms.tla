--------------------------- MODULE MCApplicationForms ---------------------------
(* Small instances of ApplicationForms. *)
EXTENDS ApplicationForms

CONSTANTS ip, email, applicant

MCAxis == {ip, email}
MCRank == ip :> 2 @@ email :> 1
MCLimit == ip :> 2 @@ email :> 1
MCWindow == ip :> 1 @@ email :> 2
MCAsked == {{ip, email}, {ip}}
MCForgivable == {{ip, email}}

\* One axis keeps the states of an application few; logins reserve two.
MCAxesOf == applicant :> {ip}

Nothing == [applications |-> 0, logins |-> 0, saves |-> 0, openings |-> 0, switches |-> 0,
            decisions |-> 0, ticks |-> 0, disturbed |-> TRUE]

\* What the requests do: reserve, fail and be released while the clock runs;
\* reserve, be refused, wait as told and come back, overtaken or not, while the
\* clock runs past the longest window and the daily job deletes; apply under two
\* editors that save; save under a reload; apply while the form is saved, closed,
\* opened and deleted; apply twice while administrators decide and delete.
MCScenario == {
  [Nothing EXCEPT !.logins = 3, !.ticks = 2],
  [Nothing EXCEPT !.logins = 4, !.ticks = 5, !.disturbed = FALSE],
  [Nothing EXCEPT !.applications = 1, !.saves = 2],
  [Nothing EXCEPT !.saves = 2, !.openings = 1],
  [Nothing EXCEPT !.applications = 1, !.saves = 1, !.switches = 2],
  [Nothing EXCEPT !.applications = 2, !.decisions = 2]}
=============================================================================
