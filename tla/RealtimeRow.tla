----------------------------- MODULE RealtimeRow -----------------------------
(***************************************************************************)
(* One row of device_realtime_status, keyed by (source_table, node_id),    *)
(* and the two statements SinkWorker runs against it: the seed at start-up *)
(* and the upsert that follows every history insert (src/sink.rs,          *)
(* build_realtime_seed_sql and build_realtime_upsert_sql).                 *)
(*                                                                         *)
(* Of the columns the row keeps last_fault_at in whole seconds (0 stands   *)
(* for NULL), whether tag_value is a fault, and fault_count; the others    *)
(* are written under the same condition as tag_value.  seeded is no column: *)
(* it remembers that the seed made the row, which decides what its first   *)
(* sample counts.                                                          *)
(***************************************************************************)
EXTENDS Naturals

Absent == [exists |-> FALSE, seeded |-> FALSE, at |-> 0, alarm |-> FALSE, count |-> 0]
Seeded == [exists |-> TRUE, seeded |-> TRUE, at |-> 0, alarm |-> FALSE, count |-> 0]

(* What the statements leave behind. *)
Row ==
  {row \in [exists : BOOLEAN, seeded : BOOLEAN, at : Nat, alarm : BOOLEAN, count : Nat] :
     /\ row.exists = FALSE => row.at = 0 /\ row.seeded = FALSE
     /\ row.exists = TRUE /\ row.at = 0 => row.seeded = TRUE
     /\ row.at = 0 => row.alarm = FALSE /\ row.count = 0
     /\ row.alarm = TRUE => row.count > 0}

(* ON DUPLICATE KEY UPDATE of the seed touches descriptive columns only. *)
Seed(row) == IF row.exists THEN row ELSE Seeded

(* accepts_newer: `last_fault_at` IS NULL OR VALUES(..) >= `last_fault_at`. *)
AcceptsNewer(row, at) == row.at = 0 \/ at >= row.at

(* A fault begins: was_not_fault AND is_fault, or is_fault in a new row. *)
Begins(before, now) == IF now /\ ~before THEN 1 ELSE 0

Inserted(at, alarm) ==
  [exists |-> TRUE, seeded |-> FALSE, at |-> at, alarm |-> alarm,
   count |-> Begins(FALSE, alarm)]

(* A row that takes over a sample and counts n more faults. *)
Replaced(row, at, alarm, n) ==
  [exists |-> TRUE, seeded |-> row.seeded, at |-> at, alarm |-> alarm,
   count |-> row.count + n]

(* fault_count = IF(accepts_newer AND was_not_fault AND is_fault, + 1, ..) *)
(* with accepts_newer spliced in without parentheses: AND binds tighter    *)
(* than its OR, so a row whose last_fault_at is NULL counts any sample.    *)
CountsNow(row, alarm) == IF row.at = 0 THEN 1 ELSE Begins(row.alarm, alarm)

(* Faulty variants of Updated: the time is not compared; a fault counts     *)
(* whether or not the row showed one.                                      *)
UpdatedUnguarded(row, at, alarm) == Replaced(row, at, alarm, CountsNow(row, alarm))

UpdatedRecounting(row, at, alarm) ==
  IF AcceptsNewer(row, at) THEN Replaced(row, at, alarm, Begins(FALSE, alarm)) ELSE row

(* MySQL evaluates the assignments from left to right: fault_count looks at *)
(* the old tag_value, and every column at the old last_fault_at.           *)
Updated(row, at, alarm) ==
  IF AcceptsNewer(row, at) THEN Replaced(row, at, alarm, CountsNow(row, alarm)) ELSE row

Upsert(row, at, alarm) ==
  IF row.exists THEN Updated(row, at, alarm) ELSE Inserted(at, alarm)
=============================================================================
