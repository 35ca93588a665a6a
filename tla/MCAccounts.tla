----------------------------- MODULE MCAccounts -----------------------------
(* Two requests at once, links for a sign-up, a resend and a reset, and a   *)
(* password to change to.                                                   *)
EXTENDS Accounts, TLC

Symmetry == Permutations(Links) \cup Permutations(Passwords) \cup Permutations(Requests)
=============================================================================
