------------------------- MODULE MCRoomTransactions -------------------------
(* Instances of RoomTransactions for TLC. *)
EXTENDS RoomTransactions, TLC

CONSTANT Uni    \* the university everybody belongs to

MCUniversityOf == [u \in Users |-> Uni]
MCSymmetry == Permutations(Users \ {Founder}) \cup Permutations(Calls)
=============================================================================
