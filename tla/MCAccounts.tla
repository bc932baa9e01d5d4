----------------------------- MODULE MCAccounts -----------------------------
(***************************************************************************)
(* The instance of Accounts for TLC: two administrators and a user.        *)
(***************************************************************************)
EXTENDS Accounts, TLC

CONSTANTS ann, bob, eve, t1, t2
Symmetry == Permutations(Threads) \cup Permutations(Admins)
=============================================================================
