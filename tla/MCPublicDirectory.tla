------------------------- MODULE MCPublicDirectory -------------------------
(* Admins that decide while the owner edits, and a visitor over two rows of  *)
(* one kind at a time with one need to a page.                               *)
EXTENDS PublicDirectory

Symmetry == Permutations(Admins) \cup Permutations(Rows)
=============================================================================
