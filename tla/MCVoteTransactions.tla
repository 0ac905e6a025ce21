------------------------- MODULE MCVoteTransactions --------------------------
(* Instances of VoteTransactions for TLC. *)
EXTENDS VoteTransactions, TLC

CONSTANT Uni    \* the university everybody belongs to

MCUniversityOf == [u \in Users |-> Uni]
=============================================================================
