--------------------------- MODULE MCNeedCoverage ---------------------------
(* Two donations that may credit the same two needs in opposite order, one  *)
(* of them twice, or something that nobody asked for, and an edit that      *)
(* overlaps with them.                                                      *)
EXTENDS NeedCoverage

CONSTANTS n1, n2, s1

For(s, n) == [supplyId |-> s, needId |-> n, quantity |-> 1]

MCBaskets ==
  {<<For(s1, n1), For(s1, n2)>>, <<For(s1, n2), For(s1, NoNeed), For(s1, n1)>>,
   <<For(s1, n1), For(s1, n1)>>}
=============================================================================
