-------------------------- MODULE MCMobileSessions --------------------------
(* Small instances of MobileSessions. *)
EXTENDS MobileSessions, TLC

Symmetry == Permutations(User) \cup Permutations(Session) \cup Permutations(Handler)
=============================================================================
