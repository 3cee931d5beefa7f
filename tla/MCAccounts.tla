----------------------------- MODULE MCAccounts -----------------------------
(***************************************************************************)
(* Instances of Accounts for TLC: a few addresses, ids and invites, and    *)
(* two requests under way at once.                                         *)
(***************************************************************************)
EXTENDS Accounts, TLC

CONSTANTS e1, e2, e3, i1, i2, i3, v1, v2, r1, r2

\* Addresses, ids, invites and requests are interchangeable.
Alike == Permutations(Email) \cup Permutations(Id) \cup Permutations(Invite) \cup Permutations(Request)
=============================================================================
