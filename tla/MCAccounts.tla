----------------------------- MODULE MCAccounts ------------------------------
(* Instances of Accounts for TLC. *)
EXTENDS Accounts, TLC

MCSymmetry == Permutations(Sessions) \cup Permutations(OauthIds)
                \cup Permutations(UserIds) \cup Permutations(Requests)
=============================================================================
