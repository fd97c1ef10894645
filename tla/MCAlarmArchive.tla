--------------------------- MODULE MCAlarmArchive ---------------------------
(***************************************************************************)
(* Instances of AlarmArchive for TLC: rows of one month in two tables, one *)
(* of them late, and a row of the next month.                              *)
(***************************************************************************)
EXTENDS ArchivedHistory

Rows      == {"first", "other", "late", "next"}
Tables    == [r \in Row |-> IF r = "other" THEN 2 ELSE 1]
Months    == [r \in Row |-> IF r = "next" THEN 2 ELSE 1]
Faulty    == Row
LateRows  == {"late"}

(* Areas differ between the tables, device types and fault types do not. *)
Groups ==
  [k \in Statistic |-> [r \in Row |-> IF k = 1 THEN TableOf[r] ELSE 1]]
=============================================================================
