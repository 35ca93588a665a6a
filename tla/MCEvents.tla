------------------------------ MODULE MCEvents ------------------------------
(* Two requests over the end of a week, used again and again: edits,       *)
(* deactivations and attendances on a Saturday and a Sunday, and at the    *)
(* midnight between the two.                                               *)
EXTENDS Events, TLC

\* Saturdays, and Saturdays with Sundays.
Weekends == {{6}, {6, 0}}

Symmetry == Permutations(Requests)
=============================================================================
