--------------------------- MODULE ArchivedHistory --------------------------
(***************************************************************************)
(* What a history query (build_history_query, src/history.rs) reads from   *)
(* the tables that AlarmArchive moves rows between.  The query is one      *)
(* SELECT, which reads one snapshot of the tables; it was planned with a   *)
(* current month of its own, which may be over when it is executed.        *)
(* HistoryQuery shows which tables the plan holds.                         *)
(***************************************************************************)
EXTENDS AlarmArchive

(* A query of one base table: the months of its range and current_month. *)
MonthRange == {a .. b : a \in Month, b \in Month} \ {{}}
Query == [table : Table, months : MonthRange, current : Month]

(* The months with a branch in the UNION ALL. *)
Branches(q) == {m \in q.months : m <= q.current}

(* A physical table that does not exist is an error of the whole query. *)
Executable(q) == \A m \in Branches(q) : m < q.current => <<q.table, m>> \in created

(* Faulty variant of InBranch: a branch has the range of its own month. *)
InOwnBranch(q, m, r) ==
  /\ MonthOf[r] = m
  /\ IF m = q.current
     THEN r \in {s \in hot : TableOf[s] = q.table}
     ELSE r \in Part(archived, q.table, m)

(* Whether the branch of a month returns a row: each has the full range in *)
(* its WHERE.                                                              *)
InBranch(q, m, r) ==
  /\ MonthOf[r] \in q.months
  /\ IF m = q.current
     THEN r \in {s \in hot : TableOf[s] = q.table}
     ELSE r \in Part(archived, q.table, m)

(* The branches that return a row. *)
Found(q, r) == {m \in Branches(q) : InBranch(q, m, r)}

(* The rows a query is meant to find. *)
Sought(q) ==
  {r \in OnTime : TableOf[r] = q.table /\ MonthOf[r] \in q.months /\ MonthOf[r] <= q.current}

Archived(t, m) == RunsOf(t, m) # {} /\ \A i \in RunsOf(t, m) : runs[i].status = "completed"
-----------------------------------------------------------------------------
(* A query that reaches into its current month misses no row that came in  *)
(* time, at whatever statement an archive of the months before is, or has  *)
(* failed: what has not been moved yet is found by the hot branch.         *)
NothingMissed ==
  \A q \in Query :
    q.current = now /\ now \in q.months /\ Executable(q) =>
      \A r \in Sought(q) : Found(q, r) # {}

(* When the past months of a query have been archived and its current one  *)
(* has not, as it may be when the query was planned a month ago, every row *)
(* that came in time is found by exactly one branch (README.md:288).       *)
FoundOnce ==
  \A q \in Query :
    /\ q.current <= now
    /\ \A m \in Branches(q) :
         IF m = q.current THEN RunsOf(q.table, m) = {} ELSE Archived(q.table, m)
    => Executable(q) /\ \A r \in Sought(q) : \E m \in Month : Found(q, r) = {m}
=============================================================================
