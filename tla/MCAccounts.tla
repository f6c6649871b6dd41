----------------------------- MODULE MCAccounts -----------------------------
(* An instance of Accounts: interchangeable requests. *)
EXTENDS Accounts, TLC

Symmetry == Permutations(Requests)
=============================================================================
