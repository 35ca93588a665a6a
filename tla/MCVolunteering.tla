--------------------------- MODULE MCVolunteering ---------------------------
(* Two managers, a member and a visitor: with one seat they race for it, and *)
(* with two an edit can bring the capacity down while both are decided.      *)
EXTENDS Volunteering, TLC

Symmetry == Permutations(Managers) \cup Permutations(Volunteers)
=============================================================================
