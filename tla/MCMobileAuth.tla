---------------------------- MODULE MCMobileAuth ----------------------------
(* Small instances of MobileAuth. *)
EXTENDS MobileAuth, TLC

\* Requests under way while the logins follow each other; the process killed at
\* any step; logoutAll waiting for a refresh over a longer history.
BusyLife == [gens |-> 4, calls |-> TRUE, crashes |-> FALSE]
FragileLife == [gens |-> 3, calls |-> FALSE, crashes |-> TRUE]
LongLife == [gens |-> 5, calls |-> FALSE, crashes |-> FALSE]

MCLives == {BusyLife, FragileLife, LongLife}

Symmetry == Permutations(Login) \cup Permutations(Call)
=============================================================================
