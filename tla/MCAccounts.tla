---------------------------- MODULE MCAccounts ----------------------------
(* Accounts on small instances.                                              *)
EXTENDS Accounts, TLC

CONSTANTS w1, w2, alice, p1, p2

(* Threads and passwords are interchangeable.                                *)
Perms == Permutations(Workers) \cup Permutations(Passwords)
=============================================================================
