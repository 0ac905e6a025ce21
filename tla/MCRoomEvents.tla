---------------------------- MODULE MCRoomEvents -----------------------------
(* Instances of RoomEvents for TLC. *)
EXTENDS RoomEvents

CONSTANTS Uni, u1, u2, s1, s2, s3

MCUniversityOf == [u \in Users |-> Uni]
MCOwnerOf == s1 :> u1 @@ s2 :> u2 @@ s3 :> u2
=============================================================================
