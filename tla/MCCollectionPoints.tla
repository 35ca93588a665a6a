------------------------- MODULE MCCollectionPoints -------------------------
(* Two people, two entries, the name `store` and the name `st\ore`, which as *)
(* a pattern matches the first and not itself, over a week of two days.      *)
EXTENDS CollectionPoints

CONSTANTS store, escaped

MCLower == [n \in {store, escaped} |-> n]

MCLike == {<<store, store>>, <<escaped, store>>}

Day(d, c, from, to) == [day |-> d, closed |-> c, open |-> from, close |-> to]

\* A week out of order whose closed day comes with hours; and one that has a day
\* twice, one that ends before it starts, and one that never opens.
MCSchedules ==
  {<<Day(1, FALSE, 8, 12), Day(0, TRUE, 8, 12)>>,
   <<Day(0, FALSE, 8, 12), Day(0, FALSE, 8, 12)>>,
   <<Day(0, FALSE, 12, 8), Day(1, TRUE, NoTime, NoTime)>>,
   <<Day(0, TRUE, NoTime, NoTime), Day(1, TRUE, NoTime, NoTime)>>}
=============================================================================
