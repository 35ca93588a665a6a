---------------------------- MODULE TypeOrmSave ----------------------------
(***************************************************************************)
(* What `repository.save(entity)` of TypeORM does to a row that exists.    *)
(* It reads the row again, compares it with the entity column by column    *)
(* and then updates the columns that differ.  The services read an entity  *)
(* in one query, change some columns in memory and save it in another:     *)
(* a column the service never touched is written back with its old value   *)
(* if somebody changed it between the two, and is left alone if somebody   *)
(* changes it between the comparison and the update.                       *)
(***************************************************************************)

\* The columns the update will set, decided by the second read.
Dirty(entity, row) == {c \in DOMAIN row : entity[c] # row[c]}

\* The row after the update of those columns.
Written(row, entity, cols) ==
  [c \in DOMAIN row |-> IF c \in cols THEN entity[c] ELSE row[c]]
=============================================================================
