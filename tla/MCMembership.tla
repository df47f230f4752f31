---------------------------- MODULE MCMembership ----------------------------
(* Membership with its users and requests interchangeable.                 *)
EXTENDS Membership, TLC

Interchangeable == Permutations(Users) \cup Permutations(Requests)
=============================================================================
