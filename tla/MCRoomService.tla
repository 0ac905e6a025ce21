--------------------------- MODULE MCRoomService ----------------------------
(* Instances of RoomService for TLC. *)
EXTENDS RoomService, TLC

CONSTANT Uni    \* the university everybody belongs to

MCUniversityOf == [u \in Users |-> Uni]
MCSymmetry == Permutations(Users) \cup Permutations(Rooms) \cup Permutations(Votes)

=============================================================================
