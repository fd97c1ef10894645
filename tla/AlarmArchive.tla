---------------------------- MODULE AlarmArchive ----------------------------
(***************************************************************************)
(* Monthly archive and daily statistics of the alarm history (migrations   *)
(* 202605180001 and 202605180003).  The hot tables take every row; on the  *)
(* first day of a month a MySQL event refreshes the statistics of the day  *)
(* before and then moves the rows of the month before to tables of their   *)
(* own.  Both procedures can also be called by hand.  Nothing opens a      *)
(* transaction: every statement commits by itself, and WCS and the sink    *)
(* insert rows in between.                                                 *)
(*                                                                         *)
(* A row falls in the month of its create_at.  The sink sets create_at     *)
(* when it inserts; WCS rows carry the time of the fault and may come when *)
(* their month has been archived, as may a sink batch that is committed    *)
(* after midnight.  Days are abstracted: a month has one day whose         *)
(* statistics are refreshed.  A group of rows in a statistics table is the *)
(* set of the rows it counts.                                              *)
(***************************************************************************)
EXTENDS Integers, Sequences, FiniteSets

CONSTANTS
  Session,     (* MySQL sessions: runs of the events, and operators          *)
  NTables,     (* the tables of alarm_archive_tables, in the cursor's order  *)
  Row,         (* the history rows                                           *)
  TableOf,     (* the hot table a row is inserted into                       *)
  MonthOf,     (* the month of its create_at                                 *)
  FaultRow,    (* rows with a tag_value other than '0'                       *)
  GroupOf,     (* the key of a row in each of the statistics tables          *)
  Late,        (* rows that may be inserted after their month                *)
  BatchSize,   (* LIMIT of a DELETE (5000)                                   *)
  LastMonth,   (* bounds the model                                           *)
  MaxCalls,    (* calls by hand (bounds the model)                           *)
  MaxFaults    (* failing statements, lost sessions and missed events        *)
               (* (bounds the model)                                         *)

Table == 1 .. NTables
Month == 1 .. LastMonth

(* daily_area_fault_stats, daily_device_type_fault_stats and               *)
(* daily_fault_type_stats.                                                 *)
Statistic == 1 .. 3

ASSUME ArchiveAssumption ==
  /\ NTables \in Nat \ {0}
  /\ LastMonth \in Nat \ {0}
  /\ BatchSize \in Nat \ {0}
  /\ MaxCalls \in Nat
  /\ IsFiniteSet(Row)
  /\ TableOf \in [Row -> Table]
  /\ MonthOf \in [Row -> Month]
  /\ FaultRow \subseteq Row
  /\ Late \subseteq Row
  /\ DOMAIN GroupOf = Statistic
  /\ MaxFaults \in Nat

VARIABLES
  now,       (* the current month                                           *)
  due,       (* whether the archive event of this month is still to run     *)
  stored,    (* every row inserted so far                                   *)
  hot,       (* rows in the hot tables                                      *)
  created,   (* the archive tables there are: <<table, month>>              *)
  archived,  (* rows in the archive tables                                  *)
  runs,      (* alarm_archive_runs                                          *)
  stats,     (* the rows counted in each statistics table for each month    *)
  pc,        (* the statement each session executes next                    *)
  month,     (* the month it works on                                       *)
  at,        (* its place in the loop over the tables                       *)
  chained,   (* whether its refresh is followed by the archive              *)
  chosen,    (* v_query_table: whether it names the hot or the archive table *)
  tmp,       (* tmp_daily_alarm_rows                                        *)
  counted,   (* the rows of @archive_source_count                           *)
  run,       (* v_run_id                                                    *)
  broken,    (* months with a refresh that overlapped or broke off          *)
  calls,     (* calls by hand so far                                        *)
  faults     (* faults so far                                               *)

rowVars == <<stored, hot, created, archived, runs>>
statVars == <<stats, broken>>
sessionVars == <<pc, month, at, chained, chosen, tmp, counted, run>>
vars == <<now, due, rowVars, statVars, sessionVars, calls, faults>>

Refreshing == {"choose", "gather", "clear", "fill"}
Archiving == {"begin", "create", "copy", "countSource", "countTarget", "delete", "complete"}
Label == {"idle", "fail"} \cup Refreshing \cup Archiving

Goto(p, label) == pc' = [pc EXCEPT ![p] = label]

Fault ==
  /\ faults < MaxFaults
  /\ faults' = faults + 1

(* Rows of a set that belong to one table and one month. *)
Part(rows, t, m) == {r \in rows : TableOf[r] = t /\ MonthOf[r] = m}

(* The part a session archives. *)
Own(p, rows) == Part(rows, at[p], month[p])

Init ==
  /\ now = 1
  /\ due = FALSE
  /\ stored = {} /\ hot = {} /\ created = {} /\ archived = {}
  /\ runs = <<>>
  /\ stats = [k \in Statistic |-> [m \in Month |-> {}]]
  /\ broken = {}
  /\ pc = [p \in Session |-> "idle"]
  /\ month = [p \in Session |-> 1]
  /\ at = [p \in Session |-> 1]
  /\ chained = [p \in Session |-> FALSE]
  /\ chosen = [p \in Session |-> "hot"]
  /\ tmp = [p \in Session |-> {}]
  /\ counted = [p \in Session |-> {}]
  /\ run = [p \in Session |-> 0]
  /\ calls = 0
  /\ faults = 0
-----------------------------------------------------------------------------
MonthPasses ==
  /\ now < LastMonth
  /\ ~ due
  /\ now' = now + 1
  /\ due' = TRUE
  /\ UNCHANGED <<rowVars, statVars, sessionVars, calls, faults>>

(* The sink or sp_process_wcs_alarm_event inserts a history row. *)
Arrive(r) ==
  /\ r \notin stored
  /\ IF r \in Late THEN MonthOf[r] <= now ELSE MonthOf[r] = now
  /\ stored' = stored \cup {r}
  /\ hot' = hot \cup {r}
  /\ UNCHANGED <<now, due, created, archived, runs, statVars, sessionVars, calls, faults>>
-----------------------------------------------------------------------------
(* sp_refresh_daily_fault_stats. *)
Refresh(p, m) ==
  /\ pc[p] = "idle"
  /\ Goto(p, "choose")
  /\ month' = [month EXCEPT ![p] = m]
  /\ at' = [at EXCEPT ![p] = 1]
  /\ tmp' = [tmp EXCEPT ![p] = {}]
  /\ broken' = IF \E q \in Session : pc[q] \in Refreshing /\ month[q] = m
               THEN broken \cup {m} ELSE broken
  /\ UNCHANGED <<now, rowVars, stats, chosen, counted, run, faults>>

CallRefresh(p, m) ==
  /\ calls < MaxCalls
  /\ calls' = calls + 1
  /\ m <= now
  /\ Refresh(p, m)
  /\ chained' = [chained EXCEPT ![p] = FALSE]
  /\ UNCHANGED due

(* ev_archive_alarm_month on the first day of a month. *)
ArchiveEvent(p) ==
  /\ due
  /\ due' = FALSE
  /\ Refresh(p, now - 1)
  /\ chained' = [chained EXCEPT ![p] = TRUE]
  /\ UNCHANGED calls

(* The event scheduler was off at the time. *)
MissedEvent ==
  /\ due
  /\ due' = FALSE
  /\ Fault
  /\ UNCHANGED <<now, rowVars, statVars, sessionVars, calls>>

(* On to the next round of a loop, or to what follows the loop. *)
Loop(p, rounds, again, next) ==
  IF at[p] < rounds
  THEN at' = [at EXCEPT ![p] = @ + 1] /\ Goto(p, again)
  ELSE at' = [at EXCEPT ![p] = 1] /\ Goto(p, next)

(* Faulty variant of QueryTable: a past month is always read from its      *)
(* archive table.                                                          *)
QueryTableArchive(t, m) == IF m < now THEN "archive" ELSE "hot"

(* v_query_table: the archive table of a past month if there is one.       *)
QueryTable(t, m) == IF m < now /\ <<t, m>> \in created THEN "archive" ELSE "hot"

(* INFORMATION_SCHEMA is asked in a statement of its own: by the time the  *)
(* table is read the month may have been archived.                         *)
ChooseTable(p) ==
  /\ pc[p] = "choose"
  /\ chosen' = [chosen EXCEPT ![p] = QueryTable(at[p], month[p])]
  /\ Goto(p, "gather")
  /\ UNCHANGED <<now, due, rowVars, statVars, month, at, chained, tmp, counted, run, calls, faults>>

(* The rows of a day in the table that was chosen. *)
Source(choice, t, m) == Part(IF choice = "archive" THEN archived ELSE hot, t, m)

Gather(p) ==
  /\ pc[p] = "gather"
  /\ tmp' = [tmp EXCEPT ![p] = @ \cup (Source(chosen[p], at[p], month[p]) \cap FaultRow)]
  /\ Loop(p, NTables, "choose", "clear")
  /\ UNCHANGED <<now, due, rowVars, statVars, month, chained, chosen, counted, run, calls, faults>>

Clear(p) ==
  /\ pc[p] = "clear"
  /\ stats' = [stats EXCEPT ![at[p]][month[p]] = {}]
  /\ Loop(p, 3, "clear", "fill")
  /\ UNCHANGED <<now, due, rowVars, broken, month, chained, chosen, tmp, counted, run, calls,
                 faults>>

(* The primary key of a statistics table is the day and the group. *)
Collides(k, rows, others) ==
  \E r \in rows, s \in others : GroupOf[k][r] = GroupOf[k][s]

(* Faulty variant of Fill: it reads the history once more. *)
FillAgain(p) ==
  /\ pc[p] = "fill"
  /\ stats' = [stats EXCEPT ![at[p]][month[p]] =
                 @ \cup (UNION {Source(QueryTable(t, month[p]), t, month[p]) : t \in Table}
                           \cap FaultRow)]
  /\ tmp' = [tmp EXCEPT ![p] = IF at[p] < 3 THEN @ ELSE {}]
  /\ Loop(p, 3, "fill", IF chained[p] THEN "begin" ELSE "idle")
  /\ UNCHANGED <<now, due, rowVars, broken, month, chained, chosen, counted, run, calls, faults>>

Fill(p) ==
  /\ pc[p] = "fill"
  /\ ~ Collides(at[p], tmp[p], stats[at[p]][month[p]])
  /\ stats' = [stats EXCEPT ![at[p]][month[p]] = @ \cup tmp[p]]
  /\ tmp' = [tmp EXCEPT ![p] = IF at[p] < 3 THEN @ ELSE {}]
  /\ Loop(p, 3, "fill", IF chained[p] THEN "begin" ELSE "idle")
  /\ UNCHANGED <<now, due, rowVars, broken, month, chained, chosen, counted, run, calls, faults>>

(* A refresh has no handler: it ends where it is, and the event with it. *)
BreakOff(p) ==
  /\ Goto(p, "idle")
  /\ broken' = broken \cup {month[p]}
  /\ UNCHANGED <<now, due, rowVars, stats, month, at, chained, chosen, tmp, counted, run, calls>>

DuplicateKey(p) ==
  /\ pc[p] = "fill"
  /\ Collides(at[p], tmp[p], stats[at[p]][month[p]])
  /\ BreakOff(p)
  /\ UNCHANGED faults

RefreshError(p) ==
  /\ pc[p] \in Refreshing
  /\ Fault
  /\ BreakOff(p)
-----------------------------------------------------------------------------
(* sp_archive_alarm_month. *)

(* Faulty variant of CallArchive: the current month is not refused. *)
CallArchiveAnyMonth(p, m) ==
  /\ pc[p] = "idle"
  /\ calls < MaxCalls
  /\ calls' = calls + 1
  /\ m <= now
  /\ Goto(p, "begin")
  /\ month' = [month EXCEPT ![p] = m]
  /\ at' = [at EXCEPT ![p] = 1]
  /\ UNCHANGED <<now, due, rowVars, statVars, chained, chosen, tmp, counted, run, faults>>

CallArchive(p, m) ==
  /\ pc[p] = "idle"
  /\ calls < MaxCalls
  /\ calls' = calls + 1
  /\ m < now
  /\ Goto(p, "begin")
  /\ month' = [month EXCEPT ![p] = m]
  /\ at' = [at EXCEPT ![p] = 1]
  /\ UNCHANGED <<now, due, rowVars, statVars, chained, chosen, tmp, counted, run, faults>>

BeginRun(p) ==
  /\ pc[p] = "begin"
  /\ runs' = Append(runs, [table |-> at[p], month |-> month[p], status |-> "running"])
  /\ run' = [run EXCEPT ![p] = Len(runs')]
  /\ Goto(p, "create")
  /\ UNCHANGED <<now, due, stored, hot, created, archived, statVars, month, at, chained, chosen,
                 tmp, counted, calls, faults>>

CreateTarget(p) ==
  /\ pc[p] = "create"
  /\ created' = created \cup {<<at[p], month[p]>>}
  /\ Goto(p, "copy")
  /\ UNCHANGED <<now, due, stored, hot, archived, runs, statVars, month, at, chained, chosen,
                 tmp, counted, run, calls, faults>>

Copy(p) ==
  /\ pc[p] = "copy"
  /\ archived' = archived \cup Own(p, hot)
  /\ Goto(p, "countSource")
  /\ UNCHANGED <<now, due, stored, hot, created, runs, statVars, month, at, chained, chosen,
                 tmp, counted, run, calls, faults>>

CountSource(p) ==
  /\ pc[p] = "countSource"
  /\ counted' = [counted EXCEPT ![p] = Own(p, hot)]
  /\ Goto(p, "countTarget")
  /\ UNCHANGED <<now, due, rowVars, statVars, month, at, chained, chosen, tmp, run, calls, faults>>

(* Faulty variant of CountTarget: the counts are not compared. *)
CountTargetOnly(p) ==
  /\ pc[p] = "countTarget"
  /\ Goto(p, "delete")
  /\ UNCHANGED <<now, due, rowVars, statVars, month, at, chained, chosen, tmp, counted, run,
                 calls, faults>>

CountTarget(p) ==
  /\ pc[p] = "countTarget"
  /\ Goto(p, IF Cardinality(Own(p, archived)) < Cardinality(counted[p])
             THEN "fail" ELSE "delete")
  /\ UNCHANGED <<now, due, rowVars, statVars, month, at, chained, chosen, tmp, counted, run,
                 calls, faults>>

(* A DELETE of at most BatchSize rows; which of them go first is left open. *)
Batch(p) ==
  LET rows == Own(p, hot)
  IN  IF Cardinality(rows) <= BatchSize THEN {rows}
      ELSE {some \in SUBSET rows : Cardinality(some) = BatchSize}

(* Faulty variant of Delete: one DELETE and no loop. *)
DeleteOnce(p) ==
  /\ pc[p] = "delete"
  /\ \E rows \in Batch(p) : hot' = hot \ rows
  /\ Goto(p, "complete")
  /\ UNCHANGED <<now, due, stored, created, archived, runs, statVars, month, at, chained, chosen,
                 tmp, counted, run, calls, faults>>

Delete(p) ==
  /\ pc[p] = "delete"
  /\ \E rows \in Batch(p) :
       /\ hot' = hot \ rows
       /\ IF rows = {} THEN Goto(p, "complete") ELSE UNCHANGED pc
  /\ UNCHANGED <<now, due, stored, created, archived, runs, statVars, month, at, chained, chosen,
                 tmp, counted, run, calls, faults>>

(* Faulty variant of Complete: the loop ends with the first table. *)
CompleteFirst(p) ==
  /\ pc[p] = "complete"
  /\ runs' = [runs EXCEPT ![run[p]].status = "completed"]
  /\ Goto(p, "idle")
  /\ UNCHANGED <<now, due, stored, hot, created, archived, statVars, month, at, chained, chosen,
                 tmp, counted, run, calls, faults>>

Complete(p) ==
  /\ pc[p] = "complete"
  /\ runs' = [runs EXCEPT ![run[p]].status = "completed"]
  /\ IF at[p] < NTables
     THEN at' = [at EXCEPT ![p] = @ + 1] /\ Goto(p, "begin")
     ELSE Goto(p, "idle") /\ UNCHANGED at
  /\ UNCHANGED <<now, due, stored, hot, created, archived, statVars, month, chained, chosen, tmp,
                 counted, run, calls, faults>>

(* The EXIT HANDLER, which also gives up the tables after this one. *)
Fail(p) ==
  /\ pc[p] = "fail"
  /\ runs' = [runs EXCEPT ![run[p]].status = "failed"]
  /\ Goto(p, "idle")
  /\ UNCHANGED <<now, due, stored, hot, created, archived, statVars, month, at, chained, chosen,
                 tmp, counted, run, calls, faults>>

(* A statement fails; without a row in alarm_archive_runs there is nothing *)
(* to mark.                                                                *)
ArchiveError(p) ==
  /\ pc[p] \in Archiving
  /\ Fault
  /\ Goto(p, IF pc[p] = "begin" THEN "idle" ELSE "fail")
  /\ UNCHANGED <<now, due, rowVars, statVars, month, at, chained, chosen, tmp, counted, run, calls>>

(* The session ends between two statements. *)
Crash(p) ==
  /\ pc[p] # "idle"
  /\ Fault
  /\ Goto(p, "idle")
  /\ broken' = IF pc[p] \in Refreshing THEN broken \cup {month[p]} ELSE broken
  /\ UNCHANGED <<now, due, rowVars, stats, month, at, chained, chosen, tmp, counted, run, calls>>
-----------------------------------------------------------------------------
Statement(p) ==
  \/ ChooseTable(p) \/ Gather(p) \/ Clear(p) \/ Fill(p) \/ DuplicateKey(p)
  \/ BeginRun(p) \/ CreateTarget(p) \/ Copy(p) \/ CountSource(p) \/ CountTarget(p)
  \/ Delete(p) \/ Complete(p) \/ Fail(p)

Step(p) ==
  \/ \E m \in Month : CallRefresh(p, m) \/ CallArchive(p, m)
  \/ ArchiveEvent(p)
  \/ Statement(p)
  \/ RefreshError(p) \/ ArchiveError(p) \/ Crash(p)

Next ==
  \/ MonthPasses
  \/ \E r \in Row : Arrive(r)
  \/ MissedEvent
  \/ \E p \in Session : Step(p)

Spec == Init /\ [][Next]_vars

(* MySQL executes the statements of a session, and its event scheduler     *)
(* runs the event when it is due.                                          *)
FairSpec ==
  /\ Spec
  /\ \A p \in Session : WF_vars(Statement(p))
  /\ WF_vars(\E p \in Session : ArchiveEvent(p))
-----------------------------------------------------------------------------
RunRows ==
  Seq([table : Table, month : Month, status : {"running", "completed", "failed"}])

ArchiveTypeOK ==
  /\ now \in Month
  /\ due \in BOOLEAN
  /\ stored \subseteq Row /\ hot \subseteq Row /\ archived \subseteq Row
  /\ created \subseteq Table \X Month
  /\ runs \in RunRows
  /\ stats \in [Statistic -> [Month -> SUBSET Row]]
  /\ broken \subseteq Month
  /\ pc \in [Session -> Label]
  /\ month \in [Session -> Month]
  /\ at \in [Session -> Nat \ {0}]
  /\ chained \in [Session -> BOOLEAN]
  /\ chosen \in [Session -> {"hot", "archive"}]
  /\ tmp \in [Session -> SUBSET Row]
  /\ counted \in [Session -> SUBSET Row]
  /\ run \in [Session -> 0 .. Len(runs)]
  /\ calls \in Nat
  /\ faults \in Nat

(* The runs of one table and month. *)
RunsOf(t, m) == {i \in DOMAIN runs : runs[i].table = t /\ runs[i].month = m}

OnTime == stored \ Late

(* No row that came within its month is ever lost, whatever fails and      *)
(* however many sessions archive at once (README.md:260: rows are deleted  *)
(* after they were copied and counted).                                    *)
KeptUnlessLate == OnTime \subseteq hot \cup archived

(* When every run of a table and month has completed, its rows have moved; *)
(* when there was none, they are still in the hot table.                   *)
CompletedMeansMoved ==
  \A t \in Table, m \in Month :
    LET rows == Part(OnTime, t, m)
        own  == RunsOf(t, m)
    IN  /\ own = {} => rows \subseteq hot /\ rows \cap archived = {}
        /\ own # {} /\ (\A i \in own : runs[i].status = "completed") =>
             rows \subseteq archived /\ rows \cap hot = {}

(* On the first run of a month, the comparison of the counts catches every *)
(* row that came between the copy and the count: what was counted is in    *)
(* the archive when the deletion begins.  (On a second run the rows copied *)
(* by the first make up for the ones this one missed.)                     *)
CountCatchesLateRows ==
  \A p \in Session :
    pc[p] = "delete" /\ RunsOf(at[p], month[p]) = {run[p]} => counted[p] \subseteq archived

(* A refresh sees every row of the day that came within its month, at any  *)
(* time before, during or after the archive (README.md:274-286), unless a  *)
(* run of the month did not complete, or the archive table came into being *)
(* between the lookup that did not find it and the read of the hot table.  *)
RefreshSeesEverything ==
  [][\A p \in Session :
       /\ pc[p] = "gather" /\ pc'[p] \in {"choose", "clear"}
       /\ \A i \in RunsOf(at[p], month[p]) : runs[i].status = "completed"
       /\ chosen[p] = "hot" => <<at[p], month[p]>> \notin created
       => Part(OnTime, at[p], month[p]) \cap FaultRow \subseteq tmp'[p]]_vars

(* The three statistics of a day count the same rows whenever no refresh   *)
(* of it is between its first DELETE and its last INSERT, unless refreshes *)
(* overlapped or broke off; rows that come meanwhile make no difference.   *)
StatsAgree ==
  \A m \in Month \ broken :
    (\A p \in Session : month[p] = m => pc[p] \notin {"clear", "fill"})
      => \A k \in Statistic : stats[k][m] = stats[1][m]

Disturbed ==
  \/ faults > 0
  \/ broken # {}
  \/ \E i \in DOMAIN runs : runs[i].status = "failed"

(* The rows of a month leave the hot table after it, unless something was  *)
(* disturbed; nothing retries then (README.md:252).                        *)
Overdue == {r \in hot \ Late : MonthOf[r] < now}
EventuallyArchived == Overdue # {} ~> (Overdue = {} \/ Disturbed)

-----------------------------------------------------------------------------
(* The inductive invariant behind the safety properties above. *)

Running == {"create", "copy", "countSource", "countTarget", "delete", "complete", "fail"}
Targeted == {"copy", "countSource", "countTarget", "delete", "complete"}

(* The run of a session is the only one of its table and month. *)
Sole(p) == RunsOf(at[p], month[p]) = {run[p]}

(* The place in a loop is a table or a statistic. *)
LoopInv ==
  \A p \in Session :
    /\ pc[p] \in Running \cup {"choose", "gather", "begin"} => at[p] \in Table
    /\ pc[p] \in {"clear", "fill"} => at[p] \in Statistic

(* Only past months are archived. *)
MonthInv ==
  /\ due => now > 1
  /\ \A p \in Session :
       /\ month[p] <= now
       /\ pc[p] \in Running \cup {"begin"} => month[p] < now
       /\ pc[p] \in Refreshing /\ chained[p] => month[p] < now
  /\ \A i \in DOMAIN runs : runs[i].month < now

(* A session at work has a running row of its own in alarm_archive_runs,   *)
(* and the target tables are those of the runs.                            *)
RunInv ==
  /\ \A p \in Session :
       pc[p] \in Running =>
         /\ run[p] \in DOMAIN runs
         /\ runs[run[p]] = [table |-> at[p], month |-> month[p], status |-> "running"]
  /\ \A p, q \in Session :
       pc[p] \in Running /\ pc[q] \in Running /\ run[p] = run[q] => p = q
  /\ \A p \in Session : pc[p] \in Targeted => <<at[p], month[p]>> \in created
  /\ \A t \in Table, m \in Month : <<t, m>> \in created => RunsOf(t, m) # {}
  /\ \A i \in DOMAIN runs :
       runs[i].status = "completed" => <<runs[i].table, runs[i].month>> \in created

(* An archive table that a refresh is about to read is there. *)
ChosenInv ==
  \A p \in Session :
    pc[p] = "gather" /\ chosen[p] = "archive" => <<at[p], month[p]>> \in created

(* What has been copied is in the archive and what came in time has been   *)
(* copied.                                                                 *)
CopyInv ==
  /\ hot \cup archived \subseteq stored
  /\ KeptUnlessLate
  /\ \A p \in Session :
       /\ pc[p] \in {"countSource", "countTarget", "delete", "complete"} =>
            Own(p, OnTime) \subseteq archived
       /\ pc[p] = "complete" => Own(p, OnTime) \cap hot = {}
  /\ CompletedMeansMoved

(* On the first run of a month everything in its archive table came from   *)
(* this run's copy and is still in the hot table until the deletion.       *)
CountOf(p) ==
  Sole(p) =>
    /\ pc[p] \in {"create", "copy"} => Own(p, archived) = {}
    /\ pc[p] = "countSource" => Own(p, archived) \subseteq hot
    /\ pc[p] = "countTarget" => Own(p, archived) \subseteq counted[p]
    /\ pc[p] = "delete" => counted[p] \subseteq archived

CountInv ==
  /\ \A t \in Table, m \in Month : RunsOf(t, m) = {} => Part(archived, t, m) = {}
  /\ \A p \in Session : CountOf(p)

(* A refresh that nothing disturbs is alone with its day: it leaves the    *)
(* statistics empty up to where it clears and equal to its rows up to      *)
(* where it fills.                                                         *)
Alone(p, q) ==
  /\ pc[p] \in Refreshing /\ pc[q] \in Refreshing /\ month[p] = month[q]
  /\ month[p] \notin broken
  => p = q

Filled(p) ==
  month[p] \notin broken =>
    \A k \in Statistic :
      /\ pc[p] = "clear" /\ k < at[p] => stats[k][month[p]] = {}
      /\ pc[p] = "fill" /\ k < at[p] => stats[k][month[p]] = tmp[p]
      /\ pc[p] = "fill" /\ k >= at[p] => stats[k][month[p]] = {}

StatsInv ==
  /\ \A p, q \in Session : Alone(p, q)
  /\ \A p \in Session : Filled(p)
  /\ StatsAgree

ArchiveInv ==
  ArchiveTypeOK /\ LoopInv /\ MonthInv /\ RunInv /\ ChosenInv /\ CopyInv /\ CountInv /\ StatsInv
-----------------------------------------------------------------------------
(* What the documentation says and the procedures do not keep. *)

(* Rows are deleted from the hot table after they have been copied         *)
(* (README.md:260: 再复制指定月份数据，确认目标表行数不低于源表后……从热表删除旧数据).    *)
DeletesOnlyCopied == [][hot \ hot' \subseteq archived]_vars
=============================================================================
