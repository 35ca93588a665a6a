------------------------------ MODULE MCMedia ------------------------------
(* Two requests over three public ids: an attachment more than the post may *)
(* have, a logo that replaces another, and one of each kind besides.        *)
EXTENDS Media, TLC

Symmetry == Permutations(Files) \cup Permutations(Requests)
=============================================================================
