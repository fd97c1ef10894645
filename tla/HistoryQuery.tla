---------------------------- MODULE HistoryQuery ----------------------------
(***************************************************************************)
(* The choice of physical tables for a query of the alarm history          *)
(* (src/history.rs): build_history_query walks through the months of a     *)
(* time range, from its first to the last one that begins before its end,  *)
(* and takes the hot table for the current month and the archive table of  *)
(* every month before it.  One step is one iteration of the loop.          *)
(*                                                                         *)
(* A time is a month and an instant of it; instant 0 is midnight of the    *)
(* first day.  current_month is a first day, as in the tests: nothing else *)
(* in the repository calls the function yet.                               *)
(***************************************************************************)
EXTENDS Integers, Sequences, FiniteSets

CONSTANTS
  Years,    (* years of the times that occur *)
  Instants  (* instants of a month           *)

ASSUME HistoryAssumption ==
  /\ Years \subseteq Nat
  /\ \A y, z \in Years : y .. z \subseteq Years
  /\ Instants \in Nat \ {0}

YearMonth == [year : Nat, month : 1 .. 12]
Month == [year : Years, month : 1 .. 12]

(* NaiveDateTime *)
Time == [year : Years, month : 1 .. 12, instant : 0 .. Instants - 1]

VARIABLES
  base,     (* whether base_table is an identifier: then so are the names *)
            (* derived from it                   *)
  start,    (* start_at                          *)
  end,      (* end_at                            *)
  current,  (* current_month                     *)
  month,    (* the month the loop has come to    *)
  tables,   (* the tables selected so far        *)
  pc        (* where build_history_query is      *)

inputs == <<base, start, end, current>>
vars == <<inputs, month, tables, pc>>

MonthBefore(m, n) == m.year < n.year \/ (m.year = n.year /\ m.month < n.month)

Before(s, t) ==
  MonthBefore(s, t) \/ (s.year = t.year /\ s.month = t.month /\ s.instant < t.instant)

MonthIn(t) == [year |-> t.year, month |-> t.month]

(* month.and_hms_opt(0, 0, 0) *)
Midnight(m) == [year |-> m.year, month |-> m.month, instant |-> 0]

NextMonth(m) ==
  IF m.month = 12
  THEN [year |-> m.year + 1, month |-> 1]
  ELSE [m EXCEPT !.month = @ + 1]

(* The tables a plan is made of. *)
Hot == [archive |-> FALSE, month |-> current]
Archive(m) == [archive |-> TRUE, month |-> m]

(* Vec::dedup: every element that equals the one before it is left out. *)
Dedup(s) ==
  LET kept == {i \in DOMAIN s : i = 1 \/ s[i] # s[i - 1]}
  IN  [j \in 1 .. Cardinality(kept) |->
         s[CHOOSE i \in kept : Cardinality({k \in kept : k <= i}) = j]]

Init ==
  /\ base \in BOOLEAN
  /\ start \in Time /\ end \in Time
  /\ current \in Month
  /\ month = MonthIn(start)
  /\ tables = <<>>
  /\ pc = "check"

(* The base table's name and the range are checked first. *)
Check ==
  /\ pc = "check"
  /\ pc' = IF ~ base THEN "InvalidTable"
           ELSE IF Before(start, end) THEN "loop" ELSE "EmptyTimeRange"
  /\ UNCHANGED <<inputs, month, tables>>

(* Faulty variant of Reached: a month that begins at the end counts. *)
ReachedInclusive == ~ Before(end, Midnight(month))

(* The condition of the while loop. *)
Reached == Before(Midnight(month), end)

SelectHot ==
  /\ pc = "loop" /\ Reached
  /\ month = current
  /\ tables' = Append(tables, Hot)
  /\ month' = NextMonth(month)
  /\ UNCHANGED <<inputs, pc>>

SelectArchive ==
  /\ pc = "loop" /\ Reached
  /\ MonthBefore(month, current)
  /\ tables' = Append(tables, Archive(month))
  /\ month' = NextMonth(month)
  /\ UNCHANGED <<inputs, pc>>

(* A month that is still to come has no table. *)
SkipFuture ==
  /\ pc = "loop" /\ Reached
  /\ MonthBefore(current, month)
  /\ month' = NextMonth(month)
  /\ UNCHANGED <<inputs, tables, pc>>

Finish ==
  /\ pc = "loop" /\ ~ Reached
  /\ tables' = Dedup(tables)
  /\ pc' = IF tables' = <<>> THEN "NoTables" ELSE "planned"
  /\ UNCHANGED <<inputs, month>>

Next == Check \/ SelectHot \/ SelectArchive \/ SkipFuture \/ Finish

Spec == Init /\ [][Next]_vars
-----------------------------------------------------------------------------
HistoryTypeOK ==
  /\ base \in BOOLEAN
  /\ start \in Time /\ end \in Time
  /\ current \in Month /\ month \in YearMonth
  /\ tables \in Seq([archive : BOOLEAN, month : YearMonth])
  /\ pc \in {"check", "loop", "planned", "NoTables", "EmptyTimeRange", "InvalidTable"}

InRange(t) == ~ Before(t, start) /\ Before(t, end)

Selected == pc \in {"planned", "NoTables"}

(* Where the rows of a month are: in the hot table if it is the current    *)
(* one, else in its archive.                                               *)
TableFor(m) == IF m = current THEN Hot ELSE Archive(m)

(* Every time of the range up to the end of the current month has a table  *)
(* in the plan: hot for the current month, its month's archive before it.  *)
EveryTimeHasItsTable ==
  \A t \in Time :
    InRange(t) /\ ~ MonthBefore(current, MonthIn(t)) =>
      \E i \in DOMAIN tables : tables[i] = TableFor(MonthIn(t))

(* Every table of the plan has a time of the range in its month: an end at *)
(* midnight of the first day does not take that month's table, which may   *)
(* not exist.                                                              *)
NoTableForNothing ==
  \A i \in DOMAIN tables : \E t \in Time : InRange(t) /\ MonthIn(t) = tables[i].month

(* The branches of the UNION ALL are in the order of their months and no   *)
(* table is read twice; dedup has nothing to do.                           *)
TablesAscend ==
  \A i, j \in DOMAIN tables : i < j => MonthBefore(tables[i].month, tables[j].month)

(* A plan has the tables its range needs and no other, in order            *)
(* (README.md:288, select_history_tables).                                 *)
PlanIsExact ==
  Selected => EveryTimeHasItsTable /\ NoTableForNothing /\ TablesAscend

(* The inductive invariant behind it. *)

(* What is in the plan belongs there. *)
Sound ==
  \A i \in DOMAIN tables :
    LET m == tables[i].month
    IN  /\ tables[i] = TableFor(m)
        /\ ~ MonthBefore(m, MonthIn(start)) /\ Before(Midnight(m), end)
        /\ MonthBefore(m, month)

(* The months the loop has passed are in the plan unless still to come. *)
Complete ==
  \A m \in Month :
    ~ MonthBefore(m, MonthIn(start)) /\ MonthBefore(m, month) /\ ~ MonthBefore(current, m) =>
      \E i \in DOMAIN tables : tables[i] = TableFor(m)

PlanInv ==
  /\ HistoryTypeOK
  /\ TablesAscend
  /\ Sound
  /\ Complete
  /\ ~ MonthBefore(month, MonthIn(start))
  /\ pc = "loop" \/ Selected => Before(start, end)
  /\ Selected => ~ Reached
=============================================================================
