------------------------ MODULE MCUserAdministration ------------------------
(* Small instances of UserAdministration. *)
EXTENDS UserAdministration, TLC

Symmetry == Permutations(User) \cup Permutations(Request) \cup Permutations(Group \ {Admin})
=============================================================================
