--------------------------- MODULE MCUserDeletion ----------------------------
(* Instances of UserDeletion for TLC. *)
EXTENDS UserDeletion, TLC

CONSTANT Uni    \* the university everybody belongs to

MCUniversityOf == [u \in Users |-> Uni]
MCSymmetry == Permutations(Users) \cup Permutations(Rooms)
=============================================================================
