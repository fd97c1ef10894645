------------------------- MODULE AlarmArchiveProofs -------------------------
(***************************************************************************)
(* Proofs about AlarmArchive and the queries of ArchivedHistory, for any    *)
(* number of sessions, tables, rows and months, and any number of calls,   *)
(* late rows and faults.                                                   *)
(***************************************************************************)
EXTENDS ArchivedHistory, FiniteSetTheorems, TLAPS

(* The steps of the system. *)
LEMMA StepCases ==
  ASSUME [Next]_vars
  PROVE  \/ MonthPasses
         \/ \E r \in Row : Arrive(r)
         \/ MissedEvent
         \/ \E p \in Session : Step(p)
         \/ UNCHANGED vars
BY DEF Next

(* A set of rows is finite, so its size is a number. *)
LEMMA RowsFinite ==
  ASSUME NEW S \in SUBSET Row
  PROVE  IsFiniteSet(S) /\ Cardinality(S) \in Nat
BY ArchiveAssumption, FS_Subset, FS_CardinalityType DEF ArchiveAssumption

(* Every run has a table, a month and a status. *)
LEMMA RunTypes ==
  ASSUME ArchiveTypeOK
  PROVE  /\ Len(runs) \in Nat /\ DOMAIN runs = 1 .. Len(runs)
         /\ \A i \in DOMAIN runs :
              runs[i].table \in Table /\ runs[i].month \in Month
<1> DEFINE Run == [table : Table, month : Month, status : {"running", "completed", "failed"}]
<1>1. runs \in Seq(Run)
  BY DEF ArchiveTypeOK, RunRows
<1>2. \A r \in Run : r.table \in Table /\ r.month \in Month
  OBVIOUS
<1> HIDE DEF Run
<1> QED
  BY <1>1, <1>2

(* A new run is the last one and belongs to its table and month. *)
LEMMA BeginRunFacts ==
  ASSUME ArchiveTypeOK, NEW p \in Session, BeginRun(p), at[p] \in Table
  PROVE  /\ Len(runs') = Len(runs) + 1
         /\ DOMAIN runs = 1 .. Len(runs) /\ DOMAIN runs' = 1 .. Len(runs')
         /\ run' = [run EXCEPT ![p] = Len(runs')]
         /\ runs' \in RunRows
         /\ \A i \in DOMAIN runs : runs'[i] = runs[i]
         /\ runs'[Len(runs')] = [table |-> at[p], month |-> month[p], status |-> "running"]
         /\ DOMAIN runs' = DOMAIN runs \cup {Len(runs')} /\ Len(runs') \notin DOMAIN runs
         /\ \A t, m : RunsOf(t, m)' = IF t = at[p] /\ m = month[p]
                                     THEN RunsOf(t, m) \cup {Len(runs')} ELSE RunsOf(t, m)
<1> DEFINE new == [table |-> at[p], month |-> month[p], status |-> "running"]
           Run == [table : Table, month : Month, status : {"running", "completed", "failed"}]
<1>1. new \in Run /\ runs \in Seq(Run)
  BY DEF ArchiveTypeOK, RunRows
<1>2. runs' = Append(runs, new) /\ run' = [run EXCEPT ![p] = Len(runs')]
  BY DEF BeginRun
<1> HIDE DEF new, Run
<1>3. /\ runs' \in Seq(Run)
      /\ Len(runs') = Len(runs) + 1
      /\ \A i \in 1 .. Len(runs) : runs'[i] = runs[i]
      /\ runs'[Len(runs) + 1] = new
      /\ DOMAIN runs = 1 .. Len(runs) /\ DOMAIN runs' = 1 .. Len(runs')
  BY <1>1, <1>2
<1>4. DOMAIN runs' = DOMAIN runs \cup {Len(runs')} /\ Len(runs') \notin DOMAIN runs
  BY <1>1, <1>3
<1>5. /\ runs'[Len(runs')].table = at[p] /\ runs'[Len(runs')].month = month[p]
      /\ \A i \in DOMAIN runs : runs'[i] = runs[i]
  BY <1>3 DEF new
<1>6. \A t, m : RunsOf(t, m)' = IF t = at[p] /\ m = month[p]
                              THEN RunsOf(t, m) \cup {Len(runs')} ELSE RunsOf(t, m)
  BY <1>4, <1>5 DEF RunsOf
<1> QED
  BY <1>2, <1>3, <1>4, <1>6 DEF new, Run, RunRows

(* The end of a run changes its status and nothing else of any run. *)
LEMMA EndRunFacts ==
  ASSUME ArchiveTypeOK, RunInv, NEW p \in Session, pc[p] \in Running,
         NEW ending \in {"completed", "failed"},
         runs' = [runs EXCEPT ![run[p]].status = ending]
  PROVE  /\ Len(runs') = Len(runs)
         /\ DOMAIN runs = 1 .. Len(runs) /\ DOMAIN runs' = DOMAIN runs
         /\ runs' \in RunRows
         /\ \A i \in DOMAIN runs :
              /\ runs'[i].table = runs[i].table /\ runs'[i].month = runs[i].month
              /\ i # run[p] => runs'[i] = runs[i]
         /\ run[p] \in DOMAIN runs /\ runs'[run[p]].status = ending
         /\ \A t, m : RunsOf(t, m)' = RunsOf(t, m)
<1> DEFINE Run == [table : Table, month : Month, status : {"running", "completed", "failed"}]
<1>1. run[p] \in DOMAIN runs /\ runs \in Seq(Run)
  BY DEF RunInv, ArchiveTypeOK, RunRows
<1> HIDE DEF Run
<1>r. runs[run[p]] \in Run
  BY <1>1
<1>2. [runs[run[p]] EXCEPT !.status = ending] \in Run
  BY <1>r DEF Run
<1>3. /\ runs' \in Seq(Run) /\ Len(runs') = Len(runs)
      /\ DOMAIN runs = 1 .. Len(runs) /\ DOMAIN runs' = DOMAIN runs
      /\ \A i \in DOMAIN runs : i # run[p] => runs'[i] = runs[i]
      /\ runs'[run[p]] = [runs[run[p]] EXCEPT !.status = ending]
  BY <1>1, <1>2
<1>4. /\ runs'[run[p]].table = runs[run[p]].table
      /\ runs'[run[p]].month = runs[run[p]].month
      /\ runs'[run[p]].status = ending
  BY <1>r, <1>3 DEF Run
<1>5. \A t, m : RunsOf(t, m)' = RunsOf(t, m)
  BY <1>3, <1>4 DEF RunsOf
<1> QED
  BY <1>1, <1>3, <1>4, <1>5 DEF RunRows, Run

(* The next round of a loop keeps the types. *)
LEMMA LoopFacts ==
  ASSUME ArchiveTypeOK, NEW p \in Session, NEW rounds, NEW again \in Label, NEW next \in Label,
         Loop(p, rounds, again, next)
  PROVE  /\ pc' \in [Session -> Label]
         /\ at' \in [Session -> Nat \ {0}]
         /\ \A q \in Session : q # p => pc'[q] = pc[q] /\ at'[q] = at[q]
         /\ at[p] < rounds => pc'[p] = again /\ at'[p] = at[p] + 1
         /\ ~ (at[p] < rounds) => pc'[p] = next /\ at'[p] = 1
<1>1. pc \in [Session -> Label] /\ at \in [Session -> Nat \ {0}]
  BY DEF ArchiveTypeOK
<1>2. CASE at[p] < rounds
  <2>1. at' = [at EXCEPT ![p] = at[p] + 1] /\ pc' = [pc EXCEPT ![p] = again]
    BY <1>2 DEF Loop, Goto
  <2> QED
    BY <1>1, <1>2, <2>1
<1>3. CASE ~ (at[p] < rounds)
  <2>1. at' = [at EXCEPT ![p] = 1] /\ pc' = [pc EXCEPT ![p] = next]
    BY <1>3 DEF Loop, Goto
  <2> QED
    BY <1>1, <1>3, <2>1
<1> QED
  BY <1>2, <1>3

(* What a step through the loops of a refresh does to the sessions, and    *)
(* what it leaves alone: it is never within an archive before or after.    *)
LEMMA RefreshGoesOn ==
  ASSUME ArchiveTypeOK, NEW p \in Session, Gather(p) \/ Clear(p) \/ Fill(p)
  PROVE  /\ pc' \in [Session -> Label]
         /\ \A q \in Session : q # p => pc'[q] = pc[q] /\ at'[q] = at[q]
         /\ pc[p] \in {"gather", "clear", "fill"}
         /\ pc'[p] \in {"choose", "clear", "fill", "begin", "idle"}
         /\ pc'[p] = "begin" => chained[p]
         /\ now' = now /\ month' = month /\ chained' = chained /\ due' = due
         /\ run' = run /\ counted' = counted
         /\ stored' = stored /\ hot' = hot /\ created' = created
         /\ archived' = archived /\ runs' = runs
<1> DEFINE Goes(again, next) ==
             /\ pc' \in [Session -> Label]
             /\ \A q \in Session : q # p => pc'[q] = pc[q] /\ at'[q] = at[q]
             /\ pc'[p] \in {again, next}
<1>0. ASSUME NEW again \in Label, NEW next \in Label, NEW rounds, Loop(p, rounds, again, next)
      PROVE  Goes(again, next)
  <2>1. pc \in [Session -> Label] /\ at \in [Session -> Nat \ {0}]
    BY DEF ArchiveTypeOK
  <2>2. \/ at' = [at EXCEPT ![p] = at[p] + 1] /\ pc' = [pc EXCEPT ![p] = again]
        \/ at' = [at EXCEPT ![p] = 1] /\ pc' = [pc EXCEPT ![p] = next]
    BY <1>0 DEF Loop, Goto
  <2> QED
    BY <1>0, <2>1, <2>2
<1>1. /\ "idle" \in Label /\ "begin" \in Label /\ "choose" \in Label
      /\ "clear" \in Label /\ "fill" \in Label
  BY DEF Label, Refreshing, Archiving
<1> HIDE DEF Goes
<1>2. CASE Gather(p)
  <2>1. Goes("choose", "clear")
    BY <1>0, <1>1, <1>2 DEF Gather
  <2> QED
    BY <1>2, <2>1 DEF Gather, Goes, rowVars
<1>3. CASE Clear(p)
  <2>1. Goes("clear", "fill")
    BY <1>0, <1>1, <1>3 DEF Clear
  <2> QED
    BY <1>3, <2>1 DEF Clear, Goes, rowVars
<1>4. CASE Fill(p)
  <2>1. CASE chained[p]
    <3>1. Goes("fill", "begin")
      BY <1>0, <1>1, <1>4, <2>1 DEF Fill
    <3> QED
      BY <1>4, <2>1, <3>1 DEF Fill, Goes, rowVars
  <2>2. CASE ~ chained[p]
    <3>1. Goes("fill", "idle")
      BY <1>0, <1>1, <1>4, <2>2 DEF Fill
    <3> QED
      BY <1>4, <2>2, <3>1 DEF Fill, Goes, rowVars
  <2> QED
    BY <2>1, <2>2
<1> QED
  BY <1>2, <1>3, <1>4

-----------------------------------------------------------------------------
(* Every variable keeps its type at every step. *)
LEMMA NextTypeOK ==
  ASSUME ArchiveTypeOK, LoopInv, MonthInv, RunInv, [Next]_vars
  PROVE  ArchiveTypeOK'
<1> USE DEF ArchiveTypeOK, rowVars, statVars, sessionVars, Refreshing, Archiving, Label, Goto
<1>1. CASE MonthPasses
  <2>1. due' \in BOOLEAN
    BY <1>1 DEF MonthPasses
  <2>2. now' \in Month
    BY <1>1, ArchiveAssumption DEF MonthPasses, Month, ArchiveAssumption
  <2> QED
    BY <1>1, <2>1, <2>2 DEF MonthPasses
<1>2. CASE \E r \in Row : Arrive(r)
  BY <1>2 DEF Arrive
<1>3. CASE MissedEvent
  <2>1. due' \in BOOLEAN
    BY <1>3 DEF MissedEvent
  <2>2. faults' \in Nat
    BY <1>3 DEF MissedEvent, Fault
  <2> QED
    BY <1>3, <2>1, <2>2 DEF MissedEvent
<1>4. ASSUME NEW p \in Session, Step(p) PROVE ArchiveTypeOK'
  <2>1. ASSUME NEW m \in Month, CallRefresh(p, m) PROVE ArchiveTypeOK'
    BY <2>1 DEF CallRefresh, Refresh
  <2>2. CASE ArchiveEvent(p)
    <3>1. due' \in BOOLEAN
      BY <2>2 DEF ArchiveEvent
    <3>a. now \in 1 .. LastMonth /\ due
      BY <2>2 DEF ArchiveEvent, Month
    <3>b. now > 1
      BY <3>a DEF MonthInv
    <3>2. now - 1 \in Month
      <4> HIDE DEF ArchiveTypeOK
      <4> QED
        BY <3>a, <3>b, ArchiveAssumption DEF Month, ArchiveAssumption
    <3>3. chained' \in [Session -> BOOLEAN]
      BY <2>2 DEF ArchiveEvent
    <3> QED
      BY <2>2, <3>1, <3>2, <3>3 DEF ArchiveEvent, Refresh
  <2>3. CASE Gather(p)
    <3>1. pc' \in [Session -> Label] /\ at' \in [Session -> Nat \ {0}]
      BY <2>3, LoopFacts DEF Gather
    <3>2. tmp' \in [Session -> SUBSET Row]
      BY <2>3 DEF Gather, Source, Part
    <3> QED
      BY <2>3, <3>1, <3>2 DEF Gather
  <2>4. CASE Clear(p)
    <3>1. pc' \in [Session -> Label] /\ at' \in [Session -> Nat \ {0}]
      BY <2>4, LoopFacts DEF Clear
    <3>2. stats' \in [Statistic -> [Month -> SUBSET Row]]
      BY <2>4 DEF Clear, LoopInv
    <3> QED
      BY <2>4, <3>1, <3>2 DEF Clear
  <2>5. CASE Fill(p)
    <3>1. pc' \in [Session -> Label] /\ at' \in [Session -> Nat \ {0}]
      BY <2>5, LoopFacts DEF Fill
    <3>2. stats' \in [Statistic -> [Month -> SUBSET Row]]
      BY <2>5 DEF Fill, LoopInv
    <3>3. tmp' \in [Session -> SUBSET Row]
      BY <2>5 DEF Fill
    <3> QED
      BY <2>5, <3>1, <3>2, <3>3 DEF Fill
  <2>6. CASE DuplicateKey(p)
    BY <2>6 DEF DuplicateKey, BreakOff
  <2>7. CASE RefreshError(p)
    BY <2>7 DEF RefreshError, BreakOff, Fault
  <2>8. ASSUME NEW m \in Month, CallArchive(p, m) PROVE ArchiveTypeOK'
    BY <2>8 DEF CallArchive
  <2>9. CASE BeginRun(p)
    <3>1. at[p] \in Table
      BY <2>9 DEF BeginRun, LoopInv
    <3>2. /\ runs' \in RunRows /\ Len(runs') = Len(runs) + 1
          /\ run' = [run EXCEPT ![p] = Len(runs')]
      BY <2>9, <3>1, BeginRunFacts
    <3>3. run' \in [Session -> 0 .. Len(runs')]
      <4>1. Len(runs) \in Nat
        BY DEF RunRows
      <4> QED
        BY <3>2, <4>1
    <3> QED
      BY <2>9, <3>2, <3>3 DEF BeginRun
  <2>10. CASE CreateTarget(p)
    <3>1. at[p] \in Table
      BY <2>10 DEF CreateTarget, LoopInv, Running
    <3> QED
      BY <2>10, <3>1 DEF CreateTarget
  <2>11. CASE Copy(p)
    BY <2>11 DEF Copy, Own, Part
  <2>12. CASE CountSource(p)
    BY <2>12 DEF CountSource, Own, Part
  <2>13. CASE CountTarget(p)
    BY <2>13 DEF CountTarget
  <2>14. CASE Delete(p)
    BY <2>14 DEF Delete, Batch
  <2>15. CASE Complete(p)
    <3>1. runs' \in RunRows /\ Len(runs') = Len(runs)
      BY <2>15, EndRunFacts DEF Complete, Running
    <3>2. at' \in [Session -> Nat \ {0}]
      <4>1. at' = [at EXCEPT ![p] = at[p] + 1] \/ at' = at
        BY <2>15 DEF Complete
      <4>2. at \in [Session -> Nat \ {0}] /\ at[p] + 1 \in Nat \ {0}
        OBVIOUS
      <4> HIDE DEF ArchiveTypeOK
      <4> QED
        BY <4>1, <4>2
    <3>3. pc' \in [Session -> Label]
      BY <2>15 DEF Complete
    <3> QED
      BY <2>15, <3>1, <3>2, <3>3 DEF Complete
  <2>16. CASE Fail(p)
    <3>1. runs' \in RunRows /\ Len(runs') = Len(runs)
      BY <2>16, EndRunFacts DEF Fail, Running
    <3> QED
      BY <2>16, <3>1 DEF Fail
  <2>17. CASE ArchiveError(p)
    BY <2>17 DEF ArchiveError, Fault
  <2>18. CASE Crash(p)
    BY <2>18 DEF Crash, Fault
  <2>19. CASE ChooseTable(p)
    <3>1. chosen' \in [Session -> {"hot", "archive"}]
      <4>1. QueryTable(at[p], month[p]) \in {"hot", "archive"}
        BY DEF QueryTable
      <4> QED
        BY <2>19, <4>1 DEF ChooseTable
    <3> QED
      BY <2>19, <3>1 DEF ChooseTable
  <2> QED
    BY <1>4, <2>1, <2>2, <2>3, <2>4, <2>5, <2>6, <2>7, <2>8, <2>9, <2>10, <2>11, <2>12, <2>13, <2>14, <2>15, <2>16, <2>17, <2>18, <2>19 DEF Step, Statement
<1>5. CASE UNCHANGED vars
  BY <1>5 DEF vars
<1> QED
  BY <1>1, <1>2, <1>3, <1>4, <1>5, StepCases

-----------------------------------------------------------------------------
(* A step of one session leaves the variables of the others alone. *)
LEMMA Others ==
  ASSUME ArchiveTypeOK, NEW p \in Session, Step(p), NEW q \in Session, q # p
  PROVE  /\ pc'[q] = pc[q] /\ month'[q] = month[q] /\ at'[q] = at[q]
         /\ chained'[q] = chained[q] /\ chosen'[q] = chosen[q] /\ tmp'[q] = tmp[q]
         /\ counted'[q] = counted[q] /\ run'[q] = run[q]
<1> USE DEF Goto, sessionVars
<1> DEFINE Kept == /\ pc'[q] = pc[q] /\ month'[q] = month[q] /\ at'[q] = at[q]
                  /\ chained'[q] = chained[q] /\ chosen'[q] = chosen[q] /\ tmp'[q] = tmp[q]
                  /\ counted'[q] = counted[q] /\ run'[q] = run[q]
<1>1. pc \in [Session -> Label] /\ at \in [Session -> Nat \ {0}]
  BY DEF ArchiveTypeOK
<1>2. ASSUME NEW m \in Month, CallRefresh(p, m) PROVE Kept
  BY <1>2, <1>1 DEF CallRefresh, Refresh
<1>3. ArchiveEvent(p) => Kept
  BY <1>1 DEF ArchiveEvent, Refresh
<1>4. Gather(p) => Kept
  BY <1>1, LoopFacts DEF Gather, Label, Refreshing, Archiving
<1>5. Clear(p) => Kept
  BY <1>1, LoopFacts DEF Clear, Label, Refreshing, Archiving
<1>6. Fill(p) => Kept
  BY <1>1, LoopFacts DEF Fill, Label, Refreshing, Archiving
<1>7. DuplicateKey(p) => Kept
  BY <1>1 DEF DuplicateKey, BreakOff
<1>8. RefreshError(p) => Kept
  BY <1>1 DEF RefreshError, BreakOff
<1>9. ASSUME NEW m \in Month, CallArchive(p, m) PROVE Kept
  BY <1>9, <1>1 DEF CallArchive
<1>10. BeginRun(p) => Kept
  BY <1>1 DEF BeginRun
<1>11. CreateTarget(p) => Kept
  BY <1>1 DEF CreateTarget
<1>12. Copy(p) => Kept
  BY <1>1 DEF Copy
<1>13. CountSource(p) => Kept
  BY <1>1 DEF CountSource
<1>14. CountTarget(p) => Kept
  BY <1>1 DEF CountTarget
<1>15. Delete(p) => Kept
  BY <1>1 DEF Delete
<1>16. Complete(p) => Kept
  BY <1>1 DEF Complete
<1>17. Fail(p) => Kept
  BY <1>1 DEF Fail
<1>18. ArchiveError(p) => Kept
  BY <1>1 DEF ArchiveError
<1>19. Crash(p) => Kept
  BY <1>1 DEF Crash
<1>20. ChooseTable(p) => Kept
  BY <1>1 DEF ChooseTable
<1> QED
  BY <1>2, <1>3, <1>4, <1>5, <1>6, <1>7, <1>8, <1>9, <1>10, <1>11, <1>12, <1>13, <1>14, <1>15, <1>16, <1>17, <1>18, <1>19, <1>20 DEF Step, Statement

(* The place in a loop stays within it. *)
LEMMA NextLoopInv ==
  ASSUME ArchiveTypeOK, LoopInv, [Next]_vars
  PROVE  LoopInv'
<1> USE DEF LoopInv, Goto, Running, Refreshing, Archiving, sessionVars, Label
<1>1. CASE MonthPasses
  BY <1>1 DEF MonthPasses
<1>2. CASE \E r \in Row : Arrive(r)
  BY <1>2 DEF Arrive
<1>3. CASE MissedEvent
  BY <1>3 DEF MissedEvent
<1>4. ASSUME NEW p \in Session, Step(p) PROVE LoopInv'
  <2>0. /\ \A q \in Session : q # p => pc'[q] = pc[q] /\ at'[q] = at[q]
        /\ pc \in [Session -> Label] /\ at \in [Session -> Nat \ {0}]
    BY <1>4, Others DEF ArchiveTypeOK
  <2>a. 1 \in Table /\ 1 \in Statistic
    BY ArchiveAssumption DEF ArchiveAssumption, Table, Statistic
  <2>1. ASSUME NEW m \in Month, CallRefresh(p, m) PROVE LoopInv'
    BY <2>1, <2>0, <2>a DEF CallRefresh, Refresh
  <2>2. CASE ArchiveEvent(p)
    BY <2>2, <2>0, <2>a DEF ArchiveEvent, Refresh
  <2>3. CASE Gather(p)
    <3>1. CASE at[p] < NTables
      BY <2>3, <2>0, <3>1, ArchiveAssumption, LoopFacts DEF Gather, Table, ArchiveAssumption
    <3>2. CASE ~ (at[p] < NTables)
      BY <2>3, <2>0, <2>a, <3>2, LoopFacts DEF Gather
    <3> QED
      BY <3>1, <3>2
  <2>4. CASE Clear(p)
    BY <2>4, <2>0, <2>a, LoopFacts DEF Clear, Table, Statistic
  <2>5. CASE Fill(p)
    BY <2>5, <2>0, <2>a, LoopFacts DEF Fill, Table, Statistic
  <2>6. CASE DuplicateKey(p)
    BY <2>6, <2>0 DEF DuplicateKey, BreakOff
  <2>7. CASE RefreshError(p)
    BY <2>7, <2>0 DEF RefreshError, BreakOff, Fault
  <2>8. ASSUME NEW m \in Month, CallArchive(p, m) PROVE LoopInv'
    BY <2>8, <2>0, <2>a DEF CallArchive
  <2>9. CASE BeginRun(p)
    BY <2>9, <2>0 DEF BeginRun
  <2>10. CASE CreateTarget(p)
    BY <2>10, <2>0 DEF CreateTarget
  <2>11. CASE Copy(p)
    BY <2>11, <2>0 DEF Copy
  <2>12. CASE CountSource(p)
    BY <2>12, <2>0 DEF CountSource
  <2>13. CASE CountTarget(p)
    BY <2>13, <2>0 DEF CountTarget
  <2>14. CASE Delete(p)
    BY <2>14, <2>0 DEF Delete
  <2>15. CASE Complete(p)
    <3>1. CASE at[p] < NTables
      BY <2>15, <2>0, <3>1, ArchiveAssumption DEF Complete, Table, ArchiveAssumption
    <3>2. CASE ~ (at[p] < NTables)
      BY <2>15, <2>0, <3>2 DEF Complete
    <3> QED
      BY <3>1, <3>2
  <2>16. CASE Fail(p)
    BY <2>16, <2>0 DEF Fail
  <2>17. CASE ArchiveError(p)
    BY <2>17, <2>0 DEF ArchiveError, Fault
  <2>18. CASE Crash(p)
    BY <2>18, <2>0 DEF Crash, Fault
  <2>19. CASE ChooseTable(p)
    BY <2>19, <2>0 DEF ChooseTable
  <2> QED
    BY <1>4, <2>1, <2>2, <2>3, <2>4, <2>5, <2>6, <2>7, <2>8, <2>9, <2>10, <2>11, <2>12, <2>13, <2>14, <2>15, <2>16, <2>17, <2>18, <2>19 DEF Step, Statement
<1>5. CASE UNCHANGED vars
  BY <1>5 DEF vars
<1> QED
  BY <1>1, <1>2, <1>3, <1>4, <1>5, StepCases

(* Only past months are archived, at every step. *)
LEMMA NextMonthInv ==
  ASSUME ArchiveTypeOK, LoopInv, MonthInv, RunInv, [Next]_vars
  PROVE  MonthInv'
<1> USE DEF MonthInv, Goto, Running, Refreshing, Archiving, rowVars, sessionVars, Label
<1>1. CASE MonthPasses
  <2>1. /\ now \in Int /\ now' = now + 1
        /\ month \in [Session -> Int] /\ \A i \in DOMAIN runs : runs[i].month < now
        /\ month' = month /\ pc' = pc /\ runs' = runs /\ chained' = chained
    BY <1>1 DEF MonthPasses, ArchiveTypeOK, Month
  <2>2. \A i \in DOMAIN runs : runs[i].month \in Int
    BY RunTypes DEF Month
  <2>3. now \in Month
    BY DEF ArchiveTypeOK
  <2> QED
    BY <2>1, <2>2, <2>3 DEF Month
<1>2. CASE \E r \in Row : Arrive(r)
  BY <1>2 DEF Arrive
<1>3. CASE MissedEvent
  BY <1>3 DEF MissedEvent
<1>4. ASSUME NEW p \in Session, Step(p) PROVE MonthInv'
  <2>0. /\ \A q \in Session : /\ q # p => pc'[q] = pc[q] /\ month'[q] = month[q]
                              /\ q # p => chained'[q] = chained[q]
        /\ pc \in [Session -> Label] /\ month \in [Session -> Int]
        /\ chained \in [Session -> BOOLEAN] /\ now \in Int
    BY <1>4, Others DEF ArchiveTypeOK, Month
  <2>r. ASSUME Gather(p) \/ Clear(p) \/ Fill(p) PROVE MonthInv'
    <3>1. /\ due' = due /\ now' = now /\ month' = month /\ chained' = chained /\ runs' = runs
          /\ pc[p] \in {"gather", "clear", "fill"}
          /\ pc'[p] \in {"choose", "clear", "fill", "begin", "idle"}
          /\ pc'[p] = "begin" => chained[p]
      BY <2>r, RefreshGoesOn
    <3>2. ASSUME NEW q \in Session
          PROVE  /\ pc'[q] \in Running \cup {"begin"} =>
                      pc[q] \in Running \cup {"begin"} \/ (pc[q] \in Refreshing /\ chained[q])
                 /\ pc'[q] \in Refreshing => pc[q] \in Refreshing
      BY <2>0, <3>1
    <3> QED
      BY <3>1, <3>2
  <2>1. ASSUME NEW m \in Month, CallRefresh(p, m) PROVE MonthInv'
    BY <2>1, <2>0 DEF CallRefresh, Refresh
  <2>2. CASE ArchiveEvent(p)
    BY <2>2, <2>0 DEF ArchiveEvent, Refresh
  <2>3. CASE Gather(p)
    BY <2>3, <2>r
  <2>4. CASE Clear(p)
    BY <2>4, <2>r
  <2>5. CASE Fill(p)
    BY <2>5, <2>r
  <2>6. CASE DuplicateKey(p)
    BY <2>6, <2>0 DEF DuplicateKey, BreakOff
  <2>7. CASE RefreshError(p)
    BY <2>7, <2>0 DEF RefreshError, BreakOff, Fault
  <2>8. ASSUME NEW m \in Month, CallArchive(p, m) PROVE MonthInv'
    BY <2>8, <2>0 DEF CallArchive, Month
  <2>9. CASE BeginRun(p)
    <3>1. at[p] \in Table
      BY <2>9 DEF BeginRun, LoopInv
    <3>2. \A i \in DOMAIN runs' : runs'[i].month < now
      <4>1. \A i \in DOMAIN runs : runs'[i].month < now
        BY <2>9, <3>1, BeginRunFacts
      <4>2. runs'[Len(runs')].month < now
        BY <2>9, <3>1, BeginRunFacts DEF BeginRun
      <4> QED
        BY <2>9, <3>1, <4>1, <4>2, BeginRunFacts
    <3> QED
      BY <2>9, <2>0, <3>2 DEF BeginRun
  <2>10. CASE CreateTarget(p)
    BY <2>10, <2>0 DEF CreateTarget
  <2>11. CASE Copy(p)
    BY <2>11, <2>0 DEF Copy
  <2>12. CASE CountSource(p)
    BY <2>12, <2>0 DEF CountSource
  <2>13. CASE CountTarget(p)
    BY <2>13, <2>0 DEF CountTarget
  <2>14. CASE Delete(p)
    BY <2>14, <2>0 DEF Delete
  <2>15. CASE Complete(p)
    <3>1. \A i \in DOMAIN runs' : runs'[i].month < now
      BY <2>15, EndRunFacts DEF Complete
    <3> QED
      BY <2>15, <2>0, <3>1 DEF Complete
  <2>16. CASE Fail(p)
    <3>1. \A i \in DOMAIN runs' : runs'[i].month < now
      BY <2>16, EndRunFacts DEF Fail
    <3> QED
      BY <2>16, <2>0, <3>1 DEF Fail
  <2>17. CASE ArchiveError(p)
    BY <2>17, <2>0 DEF ArchiveError, Fault
  <2>18. CASE Crash(p)
    BY <2>18, <2>0 DEF Crash, Fault
  <2>19. CASE ChooseTable(p)
    BY <2>19, <2>0 DEF ChooseTable
  <2> QED
    BY <1>4, <2>1, <2>2, <2>3, <2>4, <2>5, <2>6, <2>7, <2>8, <2>9, <2>10, <2>11, <2>12, <2>13, <2>14, <2>15, <2>16, <2>17, <2>18, <2>19 DEF Step, Statement
<1>5. CASE UNCHANGED vars
  BY <1>5 DEF vars
<1> QED
  BY <1>1, <1>2, <1>3, <1>4, <1>5, StepCases

(* A step that starts and ends no run keeps the runs and their targets. *)
LEMMA QuietRunInv ==
  ASSUME RunInv, runs' = runs, created' = created, run' = run,
         \A q \in Session :
           /\ pc'[q] \in Running =>
                pc[q] \in Running /\ at'[q] = at[q] /\ month'[q] = month[q]
           /\ pc'[q] \in Targeted => pc[q] \in Targeted
  PROVE  RunInv'
<1>1. \A t, m : RunsOf(t, m)' = RunsOf(t, m)
  BY DEF RunsOf
<1>2. \A q \in Session : pc'[q] \in Targeted => pc'[q] \in Running
  BY DEF Targeted, Running
<1> HIDE DEF RunInv
<1>3. \A q \in Session : pc'[q] \in Running =>
        /\ run'[q] \in DOMAIN runs'
        /\ runs'[run'[q]] = [table |-> at'[q], month |-> month'[q], status |-> "running"]
  BY DEF RunInv
<1>4. \A q, o \in Session :
        pc'[q] \in Running /\ pc'[o] \in Running /\ run'[q] = run'[o] => q = o
  BY DEF RunInv
<1>5. \A q \in Session : pc'[q] \in Targeted => <<at'[q], month'[q]>> \in created'
  BY <1>2 DEF RunInv
<1>6. /\ \A t \in Table, m \in Month : <<t, m>> \in created' => RunsOf(t, m)' # {}
      /\ \A i \in DOMAIN runs' :
           runs'[i].status = "completed" => <<runs'[i].table, runs'[i].month>> \in created'
  BY <1>1 DEF RunInv
<1> QED
  BY <1>3, <1>4, <1>5, <1>6 DEF RunInv

(* The runs and their targets stay consistent at every step. *)
LEMMA NextRunInv ==
  ASSUME ArchiveTypeOK, LoopInv, RunInv, [Next]_vars
  PROVE  RunInv'
<1> USE DEF Goto
<1>1. CASE MonthPasses
  BY <1>1, QuietRunInv DEF MonthPasses, rowVars, sessionVars
<1>2. CASE \E r \in Row : Arrive(r)
  BY <1>2, QuietRunInv DEF Arrive, sessionVars
<1>3. CASE MissedEvent
  BY <1>3, QuietRunInv DEF MissedEvent, rowVars, sessionVars
<1>4. ASSUME NEW p \in Session, Step(p) PROVE RunInv'
  <2>0. /\ \A q \in Session : /\ q # p => pc'[q] = pc[q] /\ month'[q] = month[q]
                              /\ q # p => at'[q] = at[q] /\ run'[q] = run[q]
        /\ p \in Session /\ pc \in [Session -> Label]
    BY <1>4, Others DEF ArchiveTypeOK
  <2>1. ASSUME NEW m \in Month, CallRefresh(p, m) PROVE RunInv'
    BY <2>1, <2>0, QuietRunInv DEF CallRefresh, Refresh, Refreshing, Archiving, Running, Targeted, rowVars, sessionVars
  <2>2. CASE ArchiveEvent(p)
    BY <2>2, <2>0, QuietRunInv DEF ArchiveEvent, Refresh, Refreshing, Archiving, Running, Targeted, rowVars, sessionVars
  <2>3. CASE Gather(p)
    BY <2>3, <2>0, QuietRunInv, RefreshGoesOn DEF Running, Targeted
  <2>4. CASE Clear(p)
    BY <2>4, <2>0, QuietRunInv, RefreshGoesOn DEF Running, Targeted
  <2>5. CASE Fill(p)
    BY <2>5, <2>0, QuietRunInv, RefreshGoesOn DEF Running, Targeted
  <2>6. CASE DuplicateKey(p)
    BY <2>6, <2>0, QuietRunInv DEF DuplicateKey, BreakOff, Refreshing, Archiving, Running, Targeted, rowVars, sessionVars
  <2>7. CASE RefreshError(p)
    BY <2>7, <2>0, QuietRunInv DEF RefreshError, BreakOff, Fault, Refreshing, Archiving, Running, Targeted, rowVars, sessionVars
  <2>8. ASSUME NEW m \in Month, CallArchive(p, m) PROVE RunInv'
    BY <2>8, <2>0, QuietRunInv DEF CallArchive, Refreshing, Archiving, Running, Targeted, rowVars, sessionVars
  <2>9. CASE BeginRun(p)
    <3>1. at[p] \in Table /\ month[p] \in Month /\ run \in [Session -> 0 .. Len(runs)]
      BY <2>9 DEF BeginRun, LoopInv, ArchiveTypeOK
    <3> DEFINE new == Len(runs')
    <3>2. /\ run'[p] = new /\ \A q \in Session \ {p} : run'[q] = run[q]
          /\ pc'[p] = "create" /\ created' = created /\ at' = at /\ month' = month
      BY <2>9, <2>0, <3>1 DEF BeginRun, sessionVars
    <3>r. /\ DOMAIN runs' = DOMAIN runs \cup {new} /\ new \notin DOMAIN runs
          /\ \A i \in DOMAIN runs : runs'[i] = runs[i]
          /\ runs'[new] = [table |-> at[p], month |-> month[p], status |-> "running"]
      BY <2>0, <2>9, <3>1, BeginRunFacts
    <3>s. \A t, m : RunsOf(t, m)' = RunsOf(t, m) \/ RunsOf(t, m)' = RunsOf(t, m) \cup {new}
      BY <2>0, <2>9, <3>1, BeginRunFacts
    <3> HIDE DEF new
    <3>3. \A q \in Session : pc'[q] \in Running =>
            /\ run'[q] \in DOMAIN runs'
            /\ runs'[run'[q]] = [table |-> at'[q], month |-> month'[q], status |-> "running"]
      BY <2>0, <3>2, <3>r DEF RunInv
    <3>4. \A q, o \in Session :
            pc'[q] \in Running /\ pc'[o] \in Running /\ run'[q] = run'[o] => q = o
      BY <2>0, <3>2, <3>r DEF RunInv
    <3>5. \A q \in Session : pc'[q] \in Targeted => <<at'[q], month'[q]>> \in created'
      BY <2>0, <3>2 DEF RunInv, Targeted
    <3>6. \A t \in Table, m \in Month : <<t, m>> \in created' => RunsOf(t, m)' # {}
      <4>1. \A t \in Table, m \in Month : <<t, m>> \in created => RunsOf(t, m) # {}
        BY DEF RunInv
      <4>2. \A t, m : RunsOf(t, m) # {} => RunsOf(t, m)' # {}
        BY <3>s
      <4> QED
        BY <3>2, <4>1, <4>2
    <3>7. \A i \in DOMAIN runs' :
            runs'[i].status = "completed" => <<runs'[i].table, runs'[i].month>> \in created'
      <4>1. runs'[new].status = "running"
        BY <3>r
      <4> QED
        BY <3>2, <3>r, <4>1 DEF RunInv
    <3> QED
      BY <3>3, <3>4, <3>5, <3>6, <3>7 DEF RunInv
  <2>10. CASE CreateTarget(p)
    <3>1. /\ runs' = runs /\ run' = run /\ at' = at /\ month' = month
          /\ created' = created \cup {<<at[p], month[p]>>} /\ pc[p] = "create"
          /\ pc'[p] = "copy"
      BY <2>10, <2>0 DEF CreateTarget
    <3>2. \A t, m : RunsOf(t, m)' = RunsOf(t, m)
      BY <3>1 DEF RunsOf
    <3>3. run[p] \in RunsOf(at[p], month[p])
      <4>1. pc[p] \in Running
        BY <2>0, <3>1 DEF Running
      <4>2. /\ run[p] \in DOMAIN runs
            /\ runs[run[p]] = [table |-> at[p], month |-> month[p], status |-> "running"]
        BY <2>0, <4>1 DEF RunInv
      <4>3. runs[run[p]].table = at[p] /\ runs[run[p]].month = month[p]
        BY <4>2
      <4> QED
        BY <4>2, <4>3 DEF RunsOf
    <3>4. \A q \in Session : pc'[q] \in Running => pc[q] \in Running
      BY <2>0, <3>1 DEF Running
    <3>5. \A q \in Session : pc'[q] \in Targeted => <<at'[q], month'[q]>> \in created'
      BY <2>0, <3>1 DEF RunInv
    <3>6. \A t \in Table, m \in Month : <<t, m>> \in created' => RunsOf(t, m)' # {}
      <4>1. \A t \in Table, m \in Month : <<t, m>> \in created => RunsOf(t, m) # {}
        BY DEF RunInv
      <4>2. RunsOf(at[p], month[p]) # {}
        BY <3>3
      <4> QED
        BY <3>1, <3>2, <4>1, <4>2
    <3> QED
      BY <3>1, <3>4, <3>5, <3>6 DEF RunInv
  <2>11. CASE Copy(p)
    BY <2>11, <2>0, QuietRunInv DEF Copy, Refreshing, Archiving, Running, Targeted, rowVars, sessionVars
  <2>12. CASE CountSource(p)
    BY <2>12, <2>0, QuietRunInv DEF CountSource, Refreshing, Archiving, Running, Targeted, rowVars, sessionVars
  <2>13. CASE CountTarget(p)
    BY <2>13, <2>0, QuietRunInv DEF CountTarget, Refreshing, Archiving, Running, Targeted, rowVars, sessionVars
  <2>14. CASE Delete(p)
    BY <2>14, <2>0, QuietRunInv DEF Delete, Refreshing, Archiving, Running, Targeted, rowVars, sessionVars
  <2>15. CASE Complete(p)
    <3>1. /\ run' = run /\ month' = month /\ created' = created /\ pc[p] = "complete"
          /\ pc'[p] \in {"idle", "begin"}
          /\ runs' = [runs EXCEPT ![run[p]].status = "completed"]
      BY <2>15, <2>0 DEF Complete
    <3>p. /\ pc[p] \in Running /\ pc'[p] \notin Running /\ pc'[p] \notin Targeted
          /\ \A q \in Session : pc[q] \in Targeted => pc[q] \in Running
      BY <2>0, <3>1 DEF Running, Targeted
    <3>c. <<at[p], month[p]>> \in created
      BY <2>0, <3>1 DEF RunInv, Targeted
    <3>r. /\ DOMAIN runs' = DOMAIN runs /\ \A t, m : RunsOf(t, m)' = RunsOf(t, m)
          /\ run[p] \in DOMAIN runs /\ runs'[run[p]].status = "completed"
          /\ \A i \in DOMAIN runs : i # run[p] => runs'[i] = runs[i]
          /\ \A i \in DOMAIN runs :
               runs'[i].table = runs[i].table /\ runs'[i].month = runs[i].month
      BY <2>0, <3>1, <3>p, EndRunFacts
    <3>2. \A q \in Session : pc'[q] \in Running =>
            /\ q # p /\ pc[q] \in Running /\ run[q] # run[p]
            /\ at'[q] = at[q] /\ pc'[q] = pc[q]
      BY <2>0, <3>p DEF RunInv
    <3>3. \A q \in Session : pc'[q] \in Running =>
            /\ run'[q] \in DOMAIN runs'
            /\ runs'[run'[q]] = [table |-> at'[q], month |-> month'[q], status |-> "running"]
      BY <3>1, <3>2, <3>r DEF RunInv
    <3>4. \A q, o \in Session :
            pc'[q] \in Running /\ pc'[o] \in Running /\ run'[q] = run'[o] => q = o
      BY <3>1, <3>2 DEF RunInv
    <3>5. \A q \in Session : pc'[q] \in Targeted => <<at'[q], month'[q]>> \in created'
      BY <2>0, <3>1, <3>p DEF RunInv
    <3>6. \A t \in Table, m \in Month : <<t, m>> \in created' => RunsOf(t, m)' # {}
      <4>1. \A t \in Table, m \in Month : <<t, m>> \in created => RunsOf(t, m) # {}
        BY DEF RunInv
      <4> QED
        BY <3>1, <3>r, <4>1
    <3>7. \A i \in DOMAIN runs' :
            runs'[i].status = "completed" => <<runs'[i].table, runs'[i].month>> \in created'
      <4>1. runs[run[p]].table = at[p] /\ runs[run[p]].month = month[p]
        <5>1. runs[run[p]] = [table |-> at[p], month |-> month[p], status |-> "running"]
          BY <2>0, <3>p DEF RunInv
        <5> QED
          BY <5>1
      <4> QED
        BY <3>1, <3>p, <3>r, <3>c, <4>1 DEF RunInv
    <3> QED
      BY <3>3, <3>4, <3>5, <3>6, <3>7 DEF RunInv
  <2>16. CASE Fail(p)
    <3>1. /\ run' = run /\ month' = month /\ created' = created /\ pc[p] = "fail"
          /\ pc'[p] \in {"idle", "begin"}
          /\ runs' = [runs EXCEPT ![run[p]].status = "failed"]
      BY <2>16, <2>0 DEF Fail
    <3>p. /\ pc[p] \in Running /\ pc'[p] \notin Running /\ pc'[p] \notin Targeted
          /\ \A q \in Session : pc[q] \in Targeted => pc[q] \in Running
      BY <2>0, <3>1 DEF Running, Targeted
    <3>r. /\ DOMAIN runs' = DOMAIN runs /\ \A t, m : RunsOf(t, m)' = RunsOf(t, m)
          /\ run[p] \in DOMAIN runs /\ runs'[run[p]].status = "failed"
          /\ \A i \in DOMAIN runs : i # run[p] => runs'[i] = runs[i]
          /\ \A i \in DOMAIN runs :
               runs'[i].table = runs[i].table /\ runs'[i].month = runs[i].month
      BY <2>0, <3>1, <3>p, EndRunFacts
    <3>2. \A q \in Session : pc'[q] \in Running =>
            /\ q # p /\ pc[q] \in Running /\ run[q] # run[p]
            /\ at'[q] = at[q] /\ pc'[q] = pc[q]
      BY <2>0, <3>p DEF RunInv
    <3>3. \A q \in Session : pc'[q] \in Running =>
            /\ run'[q] \in DOMAIN runs'
            /\ runs'[run'[q]] = [table |-> at'[q], month |-> month'[q], status |-> "running"]
      BY <3>1, <3>2, <3>r DEF RunInv
    <3>4. \A q, o \in Session :
            pc'[q] \in Running /\ pc'[o] \in Running /\ run'[q] = run'[o] => q = o
      BY <3>1, <3>2 DEF RunInv
    <3>5. \A q \in Session : pc'[q] \in Targeted => <<at'[q], month'[q]>> \in created'
      BY <2>0, <3>1, <3>p DEF RunInv
    <3>6. \A t \in Table, m \in Month : <<t, m>> \in created' => RunsOf(t, m)' # {}
      <4>1. \A t \in Table, m \in Month : <<t, m>> \in created => RunsOf(t, m) # {}
        BY DEF RunInv
      <4> QED
        BY <3>1, <3>r, <4>1
    <3>7. \A i \in DOMAIN runs' :
            runs'[i].status = "completed" => <<runs'[i].table, runs'[i].month>> \in created'
      <4>1. runs[run[p]].table = at[p] /\ runs[run[p]].month = month[p]
        <5>1. runs[run[p]] = [table |-> at[p], month |-> month[p], status |-> "running"]
          BY <2>0, <3>p DEF RunInv
        <5> QED
          BY <5>1
      <4> QED
        BY <3>1, <3>p, <3>r, <4>1 DEF RunInv
    <3> QED
      BY <3>3, <3>4, <3>5, <3>6, <3>7 DEF RunInv
  <2>17. CASE ArchiveError(p)
    BY <2>17, <2>0, QuietRunInv DEF ArchiveError, Fault, Refreshing, Archiving, Running, Targeted, rowVars, sessionVars
  <2>18. CASE Crash(p)
    BY <2>18, <2>0, QuietRunInv DEF Crash, Fault, Refreshing, Archiving, Running, Targeted, rowVars, sessionVars
  <2>19. CASE ChooseTable(p)
    BY <2>19, <2>0, QuietRunInv DEF ChooseTable, Refreshing, Archiving, Running, Targeted, rowVars, sessionVars
  <2> QED
    BY <1>4, <2>1, <2>2, <2>3, <2>4, <2>5, <2>6, <2>7, <2>8, <2>9, <2>10, <2>11, <2>12, <2>13, <2>14, <2>15, <2>16, <2>17, <2>18, <2>19 DEF Step, Statement
<1>5. CASE UNCHANGED vars
  BY <1>5, QuietRunInv DEF vars, rowVars, sessionVars
<1> QED
  BY <1>1, <1>2, <1>3, <1>4, <1>5, StepCases

(* The run of a session at work is running and belongs to its table and month. *)
LEMMA OwnRun ==
  ASSUME ArchiveTypeOK, LoopInv, RunInv, NEW p \in Session, pc[p] \in Running
  PROVE  /\ run[p] \in RunsOf(at[p], month[p])
         /\ run[p] \in DOMAIN runs /\ runs[run[p]].status = "running"
         /\ at[p] \in Table /\ month[p] \in Month
<1>1. /\ run[p] \in DOMAIN runs
      /\ runs[run[p]] = [table |-> at[p], month |-> month[p], status |-> "running"]
  BY DEF RunInv
<1>2. /\ runs[run[p]].table = at[p] /\ runs[run[p]].month = month[p]
      /\ runs[run[p]].status = "running"
  BY <1>1
<1>3. at[p] \in Table /\ month[p] \in Month
  BY DEF LoopInv, ArchiveTypeOK
<1> QED
  BY <1>1, <1>2, <1>3 DEF RunsOf

Copied == {"countSource", "countTarget", "delete", "complete"}

(* A step that moves no row, begins or ends no run and enters none of the  *)
(* stages after the copy keeps what is known of the rows.                  *)
LEMMA QuietCopyInv ==
  ASSUME CopyInv, stored' = stored, hot' = hot, archived' = archived, runs' = runs,
         \A q \in Session :
           /\ pc'[q] \in Copied =>
                pc[q] \in Copied /\ at'[q] = at[q] /\ month'[q] = month[q]
           /\ pc'[q] = "complete" => pc[q] = "complete"
  PROVE  CopyInv'
<1>1. OnTime' = OnTime /\ \A t, m : RunsOf(t, m)' = RunsOf(t, m)
  BY DEF OnTime, RunsOf
<1>2. /\ (hot \cup archived \subseteq stored)'
      /\ KeptUnlessLate'
  BY <1>1 DEF CopyInv, KeptUnlessLate
<1>3. CompletedMeansMoved'
  BY <1>1 DEF CopyInv, CompletedMeansMoved
<1>4. \A q \in Session :
        /\ pc'[q] \in Copied => Own(q, OnTime)' \subseteq archived'
        /\ pc'[q] = "complete" => Own(q, OnTime)' \cap hot' = {}
  BY <1>1 DEF CopyInv, Copied, Own
<1> QED
  BY <1>2, <1>3, <1>4 DEF CopyInv, Copied

(* What came in time is kept, copied and deleted in order, at every step. *)
LEMMA NextCopyInv ==
  ASSUME ArchiveTypeOK, LoopInv, MonthInv, RunInv, CopyInv, [Next]_vars
  PROVE  CopyInv'
<1> USE DEF Goto
<1>1. CASE MonthPasses
  BY <1>1, QuietCopyInv DEF MonthPasses, rowVars, sessionVars
<1>2. CASE \E r \in Row : Arrive(r)
  <2>1. PICK r \in Row : Arrive(r)
    BY <1>2
  <2>2. /\ r \notin stored /\ stored' = stored \cup {r} /\ hot' = hot \cup {r}
        /\ archived' = archived /\ runs' = runs /\ pc' = pc /\ at' = at /\ month' = month
        /\ r \notin Late => MonthOf[r] = now
    BY <2>1 DEF Arrive, sessionVars
  <2>3. /\ r \in Late => OnTime' = OnTime
        /\ r \notin Late => OnTime' = OnTime \cup {r}
    BY <2>2 DEF OnTime
  <2>4. \A t, m : RunsOf(t, m)' = RunsOf(t, m)
    BY <2>2 DEF RunsOf
  <2>5. r \notin archived
    BY <2>2 DEF CopyInv
  <2>6. \A q \in Session : pc'[q] \in Copied => Own(q, OnTime)' = Own(q, OnTime)
    <3>1. \A q \in Session : pc[q] \in Copied => month[q] < now
      BY DEF MonthInv, Running, Copied
    <3>2. \A q \in Session : month[q] < now => month[q] # now
      BY DEF ArchiveTypeOK, Month
    <3> QED
      BY <2>2, <2>3, <3>1, <3>2 DEF Own, Part
  <2>a. hot' \cup archived' \subseteq stored' /\ KeptUnlessLate'
    BY <2>2, <2>3 DEF CopyInv, KeptUnlessLate
  <2>b. \A q \in Session : pc'[q] \in Copied => Own(q, OnTime)' \subseteq archived'
    BY <2>2, <2>6 DEF CopyInv, Copied
  <2>c. \A q \in Session : pc'[q] = "complete" => Own(q, OnTime)' \cap hot' = {}
    <3>1. \A q \in Session : pc'[q] = "complete" => pc'[q] \in Copied
      BY DEF Copied
    <3>2. \A q : Own(q, OnTime) \subseteq stored
      BY DEF Own, Part, OnTime
    <3> QED
      BY <2>2, <2>6, <3>1, <3>2 DEF CopyInv
  <2>d. CompletedMeansMoved'
    <3> SUFFICES ASSUME NEW t \in Table, NEW m \in Month
                 PROVE  LET rows == Part(OnTime', t, m)
                            own  == RunsOf(t, m)'
                        IN  /\ own = {} => rows \subseteq hot' /\ rows \cap archived' = {}
                            /\ own # {} /\ (\A i \in own : runs'[i].status = "completed") =>
                                 rows \subseteq archived' /\ rows \cap hot' = {}
      BY DEF CompletedMeansMoved
    <3>1. /\ RunsOf(t, m) = {} =>
               Part(OnTime, t, m) \subseteq hot /\ Part(OnTime, t, m) \cap archived = {}
          /\ RunsOf(t, m) # {} /\ (\A i \in RunsOf(t, m) : runs[i].status = "completed") =>
               Part(OnTime, t, m) \subseteq archived /\ Part(OnTime, t, m) \cap hot = {}
      BY DEF CopyInv, CompletedMeansMoved
    <3>2. r \notin Part(OnTime, t, m)
      BY <2>2 DEF Part, OnTime
    <3>3. CASE m = now
      <4>1. RunsOf(t, m) = {}
        <5>1. \A i \in DOMAIN runs : runs[i].month < now /\ runs[i].month \in Month
          BY RunTypes DEF MonthInv
        <5>2. \A k \in Month : k < now => k # now
          BY DEF ArchiveTypeOK, Month
        <5> QED
          BY <3>3, <5>1, <5>2 DEF RunsOf
      <4>2. Part(OnTime', t, m) \subseteq Part(OnTime, t, m) \cup {r}
        BY <2>3 DEF Part
      <4> QED
        BY <2>2, <2>4, <2>5, <3>1, <4>1, <4>2
    <3>4. CASE m # now
      <4>1. Part(OnTime', t, m) = Part(OnTime, t, m)
        BY <2>2, <2>3, <3>4 DEF Part
      <4> QED
        BY <2>2, <2>4, <3>1, <3>2, <4>1
    <3> QED
      BY <3>3, <3>4
  <2> QED
    BY <2>a, <2>b, <2>c, <2>d DEF CopyInv, Copied
<1>3. CASE MissedEvent
  BY <1>3, QuietCopyInv DEF MissedEvent, rowVars, sessionVars
<1>4. ASSUME NEW p \in Session, Step(p) PROVE CopyInv'
  <2>0. /\ \A q \in Session : /\ q # p => pc'[q] = pc[q] /\ month'[q] = month[q]
                              /\ q # p => at'[q] = at[q] /\ run'[q] = run[q]
        /\ p \in Session /\ pc \in [Session -> Label]
    BY <1>4, Others DEF ArchiveTypeOK
  <2>1. ASSUME NEW m \in Month, CallRefresh(p, m) PROVE CopyInv'
    BY <2>1, <2>0, QuietCopyInv DEF CallRefresh, Refresh, Refreshing, Archiving, Copied, rowVars, sessionVars
  <2>2. CASE ArchiveEvent(p)
    BY <2>2, <2>0, QuietCopyInv DEF ArchiveEvent, Refresh, Refreshing, Archiving, Copied, rowVars, sessionVars
  <2>3. CASE Gather(p)
    BY <2>3, <2>0, QuietCopyInv, RefreshGoesOn DEF Copied
  <2>4. CASE Clear(p)
    BY <2>4, <2>0, QuietCopyInv, RefreshGoesOn DEF Copied
  <2>5. CASE Fill(p)
    BY <2>5, <2>0, QuietCopyInv, RefreshGoesOn DEF Copied
  <2>6. CASE DuplicateKey(p)
    BY <2>6, <2>0, QuietCopyInv DEF DuplicateKey, BreakOff, Refreshing, Archiving, Copied, rowVars, sessionVars
  <2>7. CASE RefreshError(p)
    BY <2>7, <2>0, QuietCopyInv DEF RefreshError, BreakOff, Fault, Refreshing, Archiving, Copied, rowVars, sessionVars
  <2>8. ASSUME NEW m \in Month, CallArchive(p, m) PROVE CopyInv'
    BY <2>8, <2>0, QuietCopyInv DEF CallArchive, Refreshing, Archiving, Copied, rowVars, sessionVars
  <2>9. CASE BeginRun(p)
    <3>0. at[p] \in Table
      BY <2>9, <2>0 DEF BeginRun, LoopInv
    <3>1. /\ pc[p] = "begin" /\ pc'[p] = "create"
          /\ stored' = stored /\ hot' = hot /\ archived' = archived
      BY <2>9, <2>0 DEF BeginRun
    <3>2. /\ \A t, m : RunsOf(t, m)' = IF t = at[p] /\ m = month[p]
                                    THEN RunsOf(t, m) \cup {Len(runs')} ELSE RunsOf(t, m)
          /\ runs'[Len(runs')] = [table |-> at[p], month |-> month[p], status |-> "running"]
          /\ \A i \in DOMAIN runs : runs'[i] = runs[i]
      BY <1>4, <2>9, <3>0, BeginRunFacts
    <3>3. runs'[Len(runs')].status # "completed"
      BY <3>2
    <3>a. hot' \cup archived' \subseteq stored' /\ KeptUnlessLate'
      BY <3>1 DEF CopyInv, KeptUnlessLate, OnTime
    <3>b. \A q \in Session : pc'[q] \in Copied => Own(q, OnTime)' \subseteq archived'
      BY <2>0, <3>1 DEF CopyInv, Copied, Own, OnTime
    <3>c. \A q \in Session : pc'[q] = "complete" => Own(q, OnTime)' \cap hot' = {}
      BY <2>0, <3>1 DEF CopyInv, Own, OnTime
    <3>d. CompletedMeansMoved'
      <4> SUFFICES ASSUME NEW t \in Table, NEW m \in Month
                   PROVE  LET rows == Part(OnTime', t, m)
                              own  == RunsOf(t, m)'
                          IN  /\ own = {} => rows \subseteq hot' /\ rows \cap archived' = {}
                              /\ own # {} /\ (\A i \in own : runs'[i].status = "completed") =>
                                   rows \subseteq archived' /\ rows \cap hot' = {}
        BY DEF CompletedMeansMoved
      <4>1. CASE t = at[p] /\ m = month[p]
        <5>1. Len(runs') \in RunsOf(t, m)'
          BY <3>2, <4>1
        <5> QED
          BY <3>3, <5>1
      <4>2. CASE t # at[p] \/ m # month[p]
        <5>1. RunsOf(t, m)' = RunsOf(t, m)
          BY <3>2, <4>2
        <5>2. \A i \in RunsOf(t, m) : runs'[i] = runs[i]
          BY <3>2 DEF RunsOf
        <5>3. OnTime' = OnTime
          BY <3>1 DEF OnTime
        <5> QED
          BY <3>1, <5>1, <5>2, <5>3 DEF CopyInv, CompletedMeansMoved
      <4> QED
        BY <4>1, <4>2
    <3> QED
      BY <3>a, <3>b, <3>c, <3>d DEF CopyInv, Copied
  <2>10. CASE CreateTarget(p)
    BY <2>10, <2>0, QuietCopyInv DEF CreateTarget, Refreshing, Archiving, Copied, rowVars, sessionVars
  <2>11. CASE Copy(p)
    <3>1. /\ pc[p] = "copy" /\ pc'[p] = "countSource" /\ at' = at /\ month' = month
          /\ archived' = archived \cup Own(p, hot)
          /\ stored' = stored /\ hot' = hot /\ runs' = runs
      BY <2>11, <2>0 DEF Copy
    <3>2. pc[p] \in Running
      BY <3>1 DEF Running
    <3>3. OnTime' = OnTime /\ \A t, m : RunsOf(t, m)' = RunsOf(t, m)
      BY <3>1 DEF OnTime, RunsOf
    <3>a. hot' \cup archived' \subseteq stored' /\ KeptUnlessLate'
      BY <3>1, <3>3 DEF CopyInv, KeptUnlessLate, Own, Part
    <3>b. \A q \in Session : pc'[q] \in Copied => Own(q, OnTime)' \subseteq archived'
      <4>1. Own(p, OnTime)' \subseteq archived'
        BY <3>1, <3>3 DEF CopyInv, KeptUnlessLate, Own, Part
      <4>2. \A q \in Session : q # p /\ pc'[q] \in Copied => Own(q, OnTime)' \subseteq archived'
        BY <2>0, <3>1, <3>3 DEF CopyInv, Own, Copied
      <4> QED
        BY <4>1, <4>2
    <3>c. \A q \in Session : pc'[q] = "complete" => Own(q, OnTime)' \cap hot' = {}
      BY <2>0, <3>1, <3>3 DEF CopyInv, Own
    <3>d. CompletedMeansMoved'
      <4> SUFFICES ASSUME NEW t \in Table, NEW m \in Month
                   PROVE  LET rows == Part(OnTime', t, m)
                              own  == RunsOf(t, m)'
                          IN  /\ own = {} => rows \subseteq hot' /\ rows \cap archived' = {}
                              /\ own # {} /\ (\A i \in own : runs'[i].status = "completed") =>
                                   rows \subseteq archived' /\ rows \cap hot' = {}
        BY DEF CompletedMeansMoved
      <4>1. CASE t = at[p] /\ m = month[p]
        <5>1. run[p] \in RunsOf(t, m) /\ runs[run[p]].status # "completed"
          BY <2>0, <3>2, <4>1, OwnRun
        <5> QED
          BY <3>1, <3>3, <5>1
      <4>2. CASE t # at[p] \/ m # month[p]
        <5>1. Part(OnTime, t, m) \cap Own(p, hot) = {}
          BY <4>2 DEF Own, Part
        <5> QED
          BY <3>1, <3>3, <5>1 DEF CopyInv, CompletedMeansMoved
      <4> QED
        BY <4>1, <4>2
    <3> QED
      BY <3>a, <3>b, <3>c, <3>d DEF CopyInv, Copied
  <2>12. CASE CountSource(p)
    BY <2>12, <2>0, QuietCopyInv DEF CountSource, Refreshing, Archiving, Copied, rowVars, sessionVars
  <2>13. CASE CountTarget(p)
    BY <2>13, <2>0, QuietCopyInv DEF CountTarget, Refreshing, Archiving, Copied, rowVars, sessionVars
  <2>14. CASE Delete(p)
    <3>0. PICK gone \in Batch(p) : /\ hot' = hot \ gone
                                  /\ IF gone = {} THEN Goto(p, "complete") ELSE UNCHANGED pc
      BY <2>14 DEF Delete
    <3>1. /\ pc[p] = "delete" /\ at' = at /\ month' = month
          /\ stored' = stored /\ archived' = archived /\ runs' = runs
          /\ pc'[p] \in Copied
      BY <2>14, <2>0, <3>0 DEF Delete, Copied
    <3>2. pc[p] \in Running /\ pc[p] \in Copied
      BY <3>1 DEF Running, Copied
    <3>3. OnTime' = OnTime /\ \A t, m : RunsOf(t, m)' = RunsOf(t, m)
      BY <3>1 DEF OnTime, RunsOf
    <3>4. gone \subseteq Own(p, hot)
      BY <3>0 DEF Batch
    <3>5. Own(p, OnTime) \subseteq archived
      BY <2>0, <3>1 DEF CopyInv
    <3>6. pc'[p] = "complete" => Own(p, hot) = {}
      <4>1. pc'[p] = "complete" => gone = {}
        BY <2>0, <3>0, <3>1
      <4>2. Cardinality({}) = 0 /\ BatchSize # 0
        BY FS_EmptySet, ArchiveAssumption DEF ArchiveAssumption
      <4> QED
        BY <3>0, <4>1, <4>2 DEF Batch
    <3>a. hot' \cup archived' \subseteq stored' /\ KeptUnlessLate'
      BY <3>0, <3>1, <3>3, <3>4, <3>5 DEF CopyInv, KeptUnlessLate, Own, Part
    <3>b. \A q \in Session : pc'[q] \in Copied => Own(q, OnTime)' \subseteq archived'
      BY <2>0, <3>1, <3>2, <3>3 DEF CopyInv, Own, Copied
    <3>c. \A q \in Session : pc'[q] = "complete" => Own(q, OnTime)' \cap hot' = {}
      <4>1. pc'[p] = "complete" => Own(p, OnTime)' \cap hot' = {}
        BY <3>0, <3>1, <3>3, <3>6 DEF Own, Part
      <4>2. \A q \in Session : q # p /\ pc'[q] = "complete" => Own(q, OnTime)' \cap hot' = {}
        BY <2>0, <3>0, <3>1, <3>3 DEF CopyInv, Own
      <4> QED
        BY <4>1, <4>2
    <3>d. CompletedMeansMoved'
      <4> SUFFICES ASSUME NEW t \in Table, NEW m \in Month
                   PROVE  LET rows == Part(OnTime', t, m)
                              own  == RunsOf(t, m)'
                          IN  /\ own = {} => rows \subseteq hot' /\ rows \cap archived' = {}
                              /\ own # {} /\ (\A i \in own : runs'[i].status = "completed") =>
                                   rows \subseteq archived' /\ rows \cap hot' = {}
        BY DEF CompletedMeansMoved
      <4>1. CASE t = at[p] /\ m = month[p]
        <5>1. run[p] \in RunsOf(t, m) /\ runs[run[p]].status # "completed"
          BY <2>0, <3>2, <4>1, OwnRun
        <5> QED
          BY <3>1, <3>3, <5>1
      <4>2. CASE t # at[p] \/ m # month[p]
        <5>1. Part(OnTime, t, m) \cap gone = {}
          BY <3>4, <4>2 DEF Own, Part
        <5> QED
          BY <3>0, <3>1, <3>3, <5>1 DEF CopyInv, CompletedMeansMoved
      <4> QED
        BY <4>1, <4>2
    <3> QED
      BY <3>a, <3>b, <3>c, <3>d DEF CopyInv, Copied
  <2>15. CASE Complete(p)
    <3>1. /\ pc[p] = "complete" /\ pc'[p] \in {"idle", "begin"} /\ month' = month
          /\ stored' = stored /\ hot' = hot /\ archived' = archived
          /\ runs' = [runs EXCEPT ![run[p]].status = "completed"]
      BY <2>15, <2>0 DEF Complete
    <3>2. pc[p] \in Running /\ pc'[p] \notin Copied
      BY <3>1 DEF Running, Copied
    <3>3. OnTime' = OnTime
      BY <3>1 DEF OnTime
    <3>4. /\ \A t, m : RunsOf(t, m)' = RunsOf(t, m)
          /\ run[p] \in DOMAIN runs /\ runs'[run[p]].status = "completed"
          /\ \A i \in DOMAIN runs : i # run[p] => runs'[i] = runs[i]
      BY <2>0, <3>1, <3>2, EndRunFacts
    <3>a. hot' \cup archived' \subseteq stored' /\ KeptUnlessLate'
      BY <3>1, <3>3 DEF CopyInv, KeptUnlessLate
    <3>b. \A q \in Session : pc'[q] \in Copied => Own(q, OnTime)' \subseteq archived'
      BY <2>0, <3>1, <3>2, <3>3 DEF CopyInv, Copied, Own
    <3>c. \A q \in Session : pc'[q] = "complete" => Own(q, OnTime)' \cap hot' = {}
      BY <2>0, <3>1, <3>3 DEF CopyInv, Own
    <3>d. CompletedMeansMoved'
      <4> SUFFICES ASSUME NEW t \in Table, NEW m \in Month
                   PROVE  LET rows == Part(OnTime', t, m)
                              own  == RunsOf(t, m)'
                          IN  /\ own = {} => rows \subseteq hot' /\ rows \cap archived' = {}
                              /\ own # {} /\ (\A i \in own : runs'[i].status = "completed") =>
                                   rows \subseteq archived' /\ rows \cap hot' = {}
        BY DEF CompletedMeansMoved
      <4>1. CASE t = at[p] /\ m = month[p]
        <5>1. Part(OnTime, t, m) \subseteq archived /\ Part(OnTime, t, m) \cap hot = {}
          BY <2>0, <3>1, <4>1 DEF CopyInv, Own
        <5>2. run[p] \in RunsOf(t, m)
          BY <2>0, <3>2, <4>1, OwnRun
        <5> QED
          BY <3>1, <3>3, <3>4, <5>1, <5>2
      <4>2. CASE t # at[p] \/ m # month[p]
        <5>1. runs[run[p]].table = at[p] /\ runs[run[p]].month = month[p]
          BY <2>0, <3>2, OwnRun DEF RunsOf
        <5>2. run[p] \notin RunsOf(t, m)
          BY <4>2, <5>1 DEF RunsOf
        <5>3. \A i \in RunsOf(t, m) : runs'[i] = runs[i]
          BY <3>4, <5>2 DEF RunsOf
        <5> QED
          BY <3>1, <3>3, <3>4, <5>3 DEF CopyInv, CompletedMeansMoved
      <4> QED
        BY <4>1, <4>2
    <3> QED
      BY <3>a, <3>b, <3>c, <3>d DEF CopyInv, Copied
  <2>16. CASE Fail(p)
    <3>1. /\ pc[p] = "fail" /\ pc'[p] \in {"idle", "begin"} /\ month' = month
          /\ stored' = stored /\ hot' = hot /\ archived' = archived
          /\ runs' = [runs EXCEPT ![run[p]].status = "failed"]
      BY <2>16, <2>0 DEF Fail
    <3>2. pc[p] \in Running /\ pc'[p] \notin Copied
      BY <3>1 DEF Running, Copied
    <3>3. OnTime' = OnTime
      BY <3>1 DEF OnTime
    <3>4. /\ \A t, m : RunsOf(t, m)' = RunsOf(t, m)
          /\ run[p] \in DOMAIN runs /\ runs'[run[p]].status = "failed"
          /\ \A i \in DOMAIN runs : i # run[p] => runs'[i] = runs[i]
      BY <2>0, <3>1, <3>2, EndRunFacts
    <3>a. hot' \cup archived' \subseteq stored' /\ KeptUnlessLate'
      BY <3>1, <3>3 DEF CopyInv, KeptUnlessLate
    <3>b. \A q \in Session : pc'[q] \in Copied => Own(q, OnTime)' \subseteq archived'
      BY <2>0, <3>1, <3>2, <3>3 DEF CopyInv, Copied, Own
    <3>c. \A q \in Session : pc'[q] = "complete" => Own(q, OnTime)' \cap hot' = {}
      BY <2>0, <3>1, <3>3 DEF CopyInv, Own
    <3>d. CompletedMeansMoved'
      <4> SUFFICES ASSUME NEW t \in Table, NEW m \in Month
                   PROVE  LET rows == Part(OnTime', t, m)
                              own  == RunsOf(t, m)'
                          IN  /\ own = {} => rows \subseteq hot' /\ rows \cap archived' = {}
                              /\ own # {} /\ (\A i \in own : runs'[i].status = "completed") =>
                                   rows \subseteq archived' /\ rows \cap hot' = {}
        BY DEF CompletedMeansMoved
      <4>1. CASE t = at[p] /\ m = month[p]
        <5>1. run[p] \in RunsOf(t, m) /\ runs'[run[p]].status # "completed"
          BY <2>0, <3>2, <3>4, <4>1, OwnRun
        <5> QED
          BY <3>4, <5>1
      <4>2. CASE t # at[p] \/ m # month[p]
        <5>1. runs[run[p]].table = at[p] /\ runs[run[p]].month = month[p]
          BY <2>0, <3>2, OwnRun DEF RunsOf
        <5>2. run[p] \notin RunsOf(t, m)
          BY <4>2, <5>1 DEF RunsOf
        <5>3. \A i \in RunsOf(t, m) : runs'[i] = runs[i]
          BY <3>4, <5>2 DEF RunsOf
        <5> QED
          BY <3>1, <3>3, <3>4, <5>3 DEF CopyInv, CompletedMeansMoved
      <4> QED
        BY <4>1, <4>2
    <3> QED
      BY <3>a, <3>b, <3>c, <3>d DEF CopyInv, Copied
  <2>17. CASE ArchiveError(p)
    BY <2>17, <2>0, QuietCopyInv DEF ArchiveError, Fault, Refreshing, Archiving, Copied, rowVars, sessionVars
  <2>18. CASE Crash(p)
    BY <2>18, <2>0, QuietCopyInv DEF Crash, Fault, Refreshing, Archiving, Copied, rowVars, sessionVars
  <2>19. CASE ChooseTable(p)
    BY <2>19, <2>0, QuietCopyInv DEF ChooseTable, Refreshing, Archiving, Copied, rowVars, sessionVars
  <2> QED
    BY <1>4, <2>1, <2>2, <2>3, <2>4, <2>5, <2>6, <2>7, <2>8, <2>9, <2>10, <2>11, <2>12, <2>13, <2>14, <2>15, <2>16, <2>17, <2>18, <2>19 DEF Step, Statement
<1>5. CASE UNCHANGED vars
  BY <1>5, QuietCopyInv DEF vars, rowVars, sessionVars
<1> QED
  BY <1>1, <1>2, <1>3, <1>4, <1>5, StepCases

Counting == {"create", "copy", "countSource", "countTarget", "delete"}

(* A step that copies, deletes and counts nothing and begins no run keeps  *)
(* what is known of the counts.                                            *)
LEMMA QuietCountInv ==
  ASSUME CountInv, hot \subseteq hot', archived' = archived, runs' = runs, run' = run,
         counted' = counted,
         \A q \in Session :
           pc'[q] \in Counting =>
             /\ at'[q] = at[q] /\ month'[q] = month[q]
             /\ pc'[q] = pc[q] \/ (pc[q] = "create" /\ pc'[q] = "copy")
  PROVE  CountInv'
<1>1. \A t, m : RunsOf(t, m)' = RunsOf(t, m)
  BY DEF RunsOf
<1>2. \A t \in Table, m \in Month : RunsOf(t, m)' = {} => Part(archived', t, m) = {}
  BY <1>1 DEF CountInv
<1>3. ASSUME NEW q \in Session PROVE CountOf(q)'
  <2>1. CASE pc'[q] \in Counting
    <3>1. Sole(q)' = Sole(q) /\ Own(q, archived)' = Own(q, archived)
      BY <1>1, <1>3, <2>1 DEF Sole, Own
    <3>2. CountOf(q)
      BY <1>3 DEF CountInv
    <3> QED
      BY <1>3, <2>1, <3>1, <3>2 DEF CountOf
  <2>2. CASE pc'[q] \notin Counting
    BY <2>2 DEF CountOf, Counting
  <2> QED
    BY <2>1, <2>2
<1> QED
  BY <1>2, <1>3 DEF CountInv

(* The counts of a session are not disturbed by a copy or a deletion of    *)
(* another one: were it of the same table and month, the session's run     *)
(* would not be the only one.                                              *)
LEMMA OtherPart ==
  ASSUME ArchiveTypeOK, LoopInv, RunInv, NEW p \in Session, NEW q \in Session, q # p,
         pc[p] \in Running, pc[q] \in Running, Sole(q)
  PROVE  \A rows : Part(rows, at[q], month[q]) \cap Own(p, hot) = {}
<1>1. run[p] # run[q] /\ run[p] \in RunsOf(at[p], month[p])
  BY OwnRun DEF RunInv
<1>2. at[p] # at[q] \/ month[p] # month[q]
  BY <1>1 DEF Sole
<1> QED
  BY <1>2 DEF Own, Part

(* On the first run of a month the counts are of what was copied, at every *)
(* step.                                                                   *)
LEMMA NextCountInv ==
  ASSUME ArchiveTypeOK, LoopInv, RunInv, CountInv, [Next]_vars
  PROVE  CountInv'
<1> USE DEF Goto
<1>1. CASE MonthPasses
  BY <1>1, QuietCountInv DEF MonthPasses, rowVars, sessionVars
<1>2. CASE \E r \in Row : Arrive(r)
  BY <1>2, QuietCountInv DEF Arrive, sessionVars
<1>3. CASE MissedEvent
  BY <1>3, QuietCountInv DEF MissedEvent, rowVars, sessionVars
<1>4. ASSUME NEW p \in Session, Step(p) PROVE CountInv'
  <2>0. /\ \A q \in Session : /\ q # p => pc'[q] = pc[q] /\ month'[q] = month[q]
                              /\ q # p => at'[q] = at[q] /\ counted'[q] = counted[q]
        /\ p \in Session /\ pc \in [Session -> Label]
    BY <1>4, Others DEF ArchiveTypeOK
  <2>1. ASSUME NEW m \in Month, CallRefresh(p, m) PROVE CountInv'
    BY <2>1, <2>0, QuietCountInv DEF CallRefresh, Refresh, Refreshing, Archiving, Counting, rowVars, sessionVars
  <2>2. CASE ArchiveEvent(p)
    BY <2>2, <2>0, QuietCountInv DEF ArchiveEvent, Refresh, Refreshing, Archiving, Counting, rowVars, sessionVars
  <2>3. CASE Gather(p)
    BY <2>3, <2>0, QuietCountInv, RefreshGoesOn DEF Counting
  <2>4. CASE Clear(p)
    BY <2>4, <2>0, QuietCountInv, RefreshGoesOn DEF Counting
  <2>5. CASE Fill(p)
    BY <2>5, <2>0, QuietCountInv, RefreshGoesOn DEF Counting
  <2>6. CASE DuplicateKey(p)
    BY <2>6, <2>0, QuietCountInv DEF DuplicateKey, BreakOff, Refreshing, Archiving, Counting, rowVars, sessionVars
  <2>7. CASE RefreshError(p)
    BY <2>7, <2>0, QuietCountInv DEF RefreshError, BreakOff, Fault, Refreshing, Archiving, Counting, rowVars, sessionVars
  <2>8. ASSUME NEW m \in Month, CallArchive(p, m) PROVE CountInv'
    BY <2>8, <2>0, QuietCountInv DEF CallArchive, Refreshing, Archiving, Counting, rowVars, sessionVars
  <2>9. CASE BeginRun(p)
    <3>0. at[p] \in Table /\ month[p] \in Month /\ run \in [Session -> 0 .. Len(runs)]
      BY <2>9, <2>0 DEF BeginRun, LoopInv, ArchiveTypeOK
    <3>1. /\ pc'[p] = "create" /\ hot' = hot /\ archived' = archived /\ counted' = counted
          /\ at' = at /\ month' = month
      BY <2>9, <2>0 DEF BeginRun
    <3>2. /\ \A t, m : RunsOf(t, m)' = IF t = at[p] /\ m = month[p]
                                    THEN RunsOf(t, m) \cup {Len(runs')} ELSE RunsOf(t, m)
          /\ run' = [run EXCEPT ![p] = Len(runs')] /\ Len(runs') \notin DOMAIN runs
      BY <1>4, <2>9, <3>0, BeginRunFacts
    <3>3. \A t, m : RunsOf(t, m) \subseteq DOMAIN runs
      BY DEF RunsOf
    <3>4. \A t \in Table, m \in Month : RunsOf(t, m)' = {} => Part(archived', t, m) = {}
      <4>1. \A t, m : RunsOf(t, m)' = {} => RunsOf(t, m) = {}
        BY <3>2
      <4> QED
        BY <3>1, <4>1 DEF CountInv
    <3>5. CountOf(p)'
      <4>1. Sole(p)' => RunsOf(at[p], month[p]) = {}
        <5>1. Sole(p)' => RunsOf(at[p], month[p]) \cup {Len(runs')} = {Len(runs')}
          BY <2>0, <3>0, <3>1, <3>2 DEF Sole
        <5> QED
          BY <3>2, <3>3, <5>1
      <4>2. Sole(p)' => Own(p, archived)' = {}
        BY <3>0, <3>1, <4>1 DEF CountInv, Own
      <4> QED
        BY <3>1, <4>2 DEF CountOf
    <3>6. ASSUME NEW q \in Session, q # p PROVE CountOf(q)'
      <4>1. CountOf(q) /\ pc'[q] = pc[q] /\ run'[q] = run[q]
        BY <2>0, <3>0, <3>2, <3>6 DEF CountInv
      <4>2. CASE pc[q] \in Counting
        <5>1. run[q] \in RunsOf(at[q], month[q])
          BY <3>6, <4>2, OwnRun DEF Counting, Running
        <5>2. Sole(q)' => Sole(q)
          BY <3>1, <3>2, <3>3, <4>1, <5>1 DEF Sole
        <5>3. Own(q, archived)' = Own(q, archived)
          BY <3>1 DEF Own
        <5> QED
          BY <3>1, <4>1, <5>2, <5>3 DEF CountOf
      <4>3. CASE pc[q] \notin Counting
        BY <4>1, <4>3 DEF CountOf, Counting
      <4> QED
        BY <4>2, <4>3
    <3> QED
      BY <3>4, <3>5, <3>6 DEF CountInv
  <2>10. CASE CreateTarget(p)
    BY <2>10, <2>0, QuietCountInv DEF CreateTarget, Refreshing, Archiving, Counting, rowVars, sessionVars
  <2>11. CASE Copy(p)
    <3>1. /\ at' = at /\ month' = month /\ runs' = runs /\ run' = run
          /\ pc[p] = "copy" /\ pc[p] \in Running
          /\ hot' = hot /\ archived' = archived \cup Own(p, hot) /\ pc'[p] = "countSource"
      BY <2>11, <2>0 DEF Copy, Running
    <3>2. \A t, m : RunsOf(t, m)' = RunsOf(t, m)
      BY <3>1 DEF RunsOf
    <3>4. \A t \in Table, m \in Month : RunsOf(t, m)' = {} => Part(archived', t, m) = {}
      <4>1. RunsOf(at[p], month[p]) # {}
        BY <2>0, <3>1, OwnRun
      <4>2. \A t, m : Part(archived', t, m) = Part(archived, t, m) \/ (t = at[p] /\ m = month[p])
        BY <3>1 DEF Own, Part
      <4> QED
        BY <3>2, <4>1, <4>2 DEF CountInv
    <3>5. CountOf(p)'
      <4>1. Sole(p) => Own(p, archived) = {}
        BY <2>0, <3>1 DEF CountInv, CountOf
      <4>2. Sole(p)' = Sole(p)
        BY <3>1, <3>2 DEF Sole
      <4>3. Own(p, archived)' \subseteq Own(p, archived) \cup hot
        BY <3>1 DEF Own, Part
      <4> QED
        BY <3>1, <4>1, <4>2, <4>3 DEF CountOf
    <3>6. ASSUME NEW q \in Session, q # p PROVE CountOf(q)'
      <4>1. CountOf(q) /\ pc'[q] = pc[q] /\ counted'[q] = counted[q]
        BY <2>0, <3>6 DEF CountInv
      <4>2. Sole(q)' = Sole(q)
        BY <3>1, <3>2 DEF Sole
      <4>3. CASE pc[q] \in Counting /\ Sole(q)
        <5>1. \A rows : Part(rows, at[q], month[q]) \cap Own(p, hot) = {}
          BY <2>0, <3>1, <3>6, <4>3, OtherPart DEF Counting, Running
        <5>2. Own(q, archived)' = Own(q, archived)
          BY <3>1, <5>1 DEF Own, Part
        <5> QED
          BY <3>1, <4>1, <4>3, <5>2 DEF CountOf
      <4>4. CASE ~ (pc[q] \in Counting /\ Sole(q))
        BY <4>1, <4>2, <4>4 DEF CountOf, Counting
      <4> QED
        BY <4>3, <4>4
    <3> QED
      BY <3>4, <3>5, <3>6 DEF CountInv
  <2>12. CASE CountSource(p)
    <3>1. /\ at' = at /\ month' = month /\ runs' = runs /\ run' = run
          /\ pc[p] = "countSource" /\ pc[p] \in Running
          /\ hot' = hot /\ archived' = archived /\ pc'[p] = "countTarget"
          /\ counted'[p] = Own(p, hot)
      BY <2>12, <2>0 DEF CountSource, Running, ArchiveTypeOK, rowVars
    <3>2. \A t, m : RunsOf(t, m)' = RunsOf(t, m)
      BY <3>1 DEF RunsOf
    <3>4. \A t \in Table, m \in Month : RunsOf(t, m)' = {} => Part(archived', t, m) = {}
      BY <3>1, <3>2 DEF CountInv
    <3>5. CountOf(p)'
      <4>1. Sole(p) => Own(p, archived) \subseteq hot
        BY <2>0, <3>1 DEF CountInv, CountOf
      <4>2. Sole(p)' = Sole(p)
        BY <3>1, <3>2 DEF Sole
      <4>3. Own(p, archived) \subseteq hot => Own(p, archived)' \subseteq counted'[p]
        BY <3>1 DEF Own, Part
      <4> QED
        BY <3>1, <4>1, <4>2, <4>3 DEF CountOf
    <3>6. ASSUME NEW q \in Session, q # p PROVE CountOf(q)'
      <4>1. CountOf(q) /\ pc'[q] = pc[q] /\ counted'[q] = counted[q]
        BY <2>0, <3>6 DEF CountInv
      <4>2. Sole(q)' = Sole(q)
        BY <3>1, <3>2 DEF Sole
      <4> QED
        BY <3>1, <4>1, <4>2 DEF CountOf, Own
    <3> QED
      BY <3>4, <3>5, <3>6 DEF CountInv
  <2>13. CASE CountTarget(p)
    <3>1. /\ at' = at /\ month' = month /\ runs' = runs /\ run' = run
          /\ pc[p] = "countTarget" /\ pc[p] \in Running
          /\ hot' = hot /\ archived' = archived /\ counted' = counted
          /\ pc'[p] = IF Cardinality(Own(p, archived)) < Cardinality(counted[p])
                      THEN "fail" ELSE "delete"
      BY <2>13, <2>0 DEF CountTarget, Running, rowVars
    <3>2. \A t, m : RunsOf(t, m)' = RunsOf(t, m)
      BY <3>1 DEF RunsOf
    <3>4. \A t \in Table, m \in Month : RunsOf(t, m)' = {} => Part(archived', t, m) = {}
      BY <3>1, <3>2 DEF CountInv
    <3>5. CountOf(p)'
      <4>1. Sole(p) => Own(p, archived) \subseteq counted[p]
        BY <2>0, <3>1 DEF CountInv, CountOf
      <4>2. Sole(p)' = Sole(p)
        BY <3>1, <3>2 DEF Sole
      <4>3. Own(p, archived) \in SUBSET Row /\ counted[p] \in SUBSET Row
        BY <2>0 DEF ArchiveTypeOK, Own, Part
      <4>4. /\ Cardinality(Own(p, archived)) \in Nat /\ Cardinality(counted[p]) \in Nat
            /\ IsFiniteSet(counted[p])
        BY <4>3, RowsFinite
      <4>5. /\ Own(p, archived) \subseteq counted[p]
            /\ ~ (Cardinality(Own(p, archived)) < Cardinality(counted[p]))
            => Own(p, archived) = counted[p]
        BY <4>4, FS_Subset
      <4>6. Own(p, archived) \subseteq archived
        BY DEF Own, Part
      <4> QED
        BY <3>1, <4>1, <4>2, <4>5, <4>6 DEF CountOf
    <3>6. ASSUME NEW q \in Session, q # p PROVE CountOf(q)'
      <4>1. CountOf(q) /\ pc'[q] = pc[q] /\ counted'[q] = counted[q]
        BY <2>0, <3>6 DEF CountInv
      <4>2. Sole(q)' = Sole(q)
        BY <3>1, <3>2 DEF Sole
      <4> QED
        BY <3>1, <4>1, <4>2 DEF CountOf, Own
    <3> QED
      BY <3>4, <3>5, <3>6 DEF CountInv
  <2>14. CASE Delete(p)
    <3>3. \E rows \in SUBSET Own(p, hot) : hot' = hot \ rows
      BY <2>14 DEF Delete, Batch
    <3>1. /\ at' = at /\ month' = month /\ runs' = runs /\ run' = run
          /\ pc[p] = "delete" /\ pc[p] \in Running
          /\ archived' = archived /\ counted' = counted
          /\ pc'[p] \in {"delete", "complete"}
      BY <2>14, <2>0 DEF Delete, Running
    <3>2. \A t, m : RunsOf(t, m)' = RunsOf(t, m)
      BY <3>1 DEF RunsOf
    <3>4. \A t \in Table, m \in Month : RunsOf(t, m)' = {} => Part(archived', t, m) = {}
      BY <3>1, <3>2 DEF CountInv
    <3>5. CountOf(p)'
      <4>1. CountOf(p) /\ Sole(p)' = Sole(p)
        BY <2>0, <3>1, <3>2 DEF CountInv, Sole
      <4> QED
        BY <3>1, <4>1 DEF CountOf
    <3>6. ASSUME NEW q \in Session, q # p PROVE CountOf(q)'
      <4>1. CountOf(q) /\ pc'[q] = pc[q] /\ counted'[q] = counted[q]
        BY <2>0, <3>6 DEF CountInv
      <4>2. Sole(q)' = Sole(q)
        BY <3>1, <3>2 DEF Sole
      <4>3. CASE pc[q] \in Counting /\ Sole(q)
        <5>1. \A rows : Part(rows, at[q], month[q]) \cap Own(p, hot) = {}
          BY <2>0, <3>1, <3>6, <4>3, OtherPart DEF Counting, Running
        <5>2. Own(q, archived)' = Own(q, archived)
          BY <3>1 DEF Own
        <5>3. Own(q, archived) \subseteq hot => Own(q, archived) \subseteq hot'
          BY <3>3, <5>1 DEF Own, Part
        <5> QED
          BY <3>1, <4>1, <4>3, <5>2, <5>3 DEF CountOf
      <4>4. CASE ~ (pc[q] \in Counting /\ Sole(q))
        BY <4>1, <4>2, <4>4 DEF CountOf, Counting
      <4> QED
        BY <4>3, <4>4
    <3> QED
      BY <3>4, <3>5, <3>6 DEF CountInv
  <2>15. CASE Complete(p)
    <3>1. /\ pc[p] = "complete" /\ pc'[p] \in {"idle", "begin"} /\ month' = month /\ run' = run
          /\ hot' = hot /\ archived' = archived /\ counted' = counted
          /\ runs' = [runs EXCEPT ![run[p]].status = "completed"]
      BY <2>15, <2>0 DEF Complete
    <3>2. \A t, m : RunsOf(t, m)' = RunsOf(t, m)
      BY <2>0, <3>1, EndRunFacts DEF Running
    <3>3. CountOf(p)'
      BY <3>1 DEF CountOf
    <3>4. ASSUME NEW q \in Session, q # p PROVE CountOf(q)'
      <4>1. CountOf(q)
        BY <3>4 DEF CountInv
      <4>2. pc'[q] = pc[q] /\ at'[q] = at[q] /\ month'[q] = month[q]
        BY <2>0, <3>4
      <4>3. Sole(q)' = Sole(q) /\ Own(q, archived)' = Own(q, archived)
        BY <3>1, <3>2, <4>2 DEF Sole, Own
      <4> QED
        BY <3>1, <4>1, <4>2, <4>3 DEF CountOf
    <3> QED
      BY <3>1, <3>2, <3>3, <3>4 DEF CountInv
  <2>16. CASE Fail(p)
    <3>1. /\ pc[p] = "fail" /\ pc'[p] \in {"idle", "begin"} /\ month' = month /\ run' = run
          /\ hot' = hot /\ archived' = archived /\ counted' = counted
          /\ runs' = [runs EXCEPT ![run[p]].status = "failed"]
      BY <2>16, <2>0 DEF Fail
    <3>2. \A t, m : RunsOf(t, m)' = RunsOf(t, m)
      BY <2>0, <3>1, EndRunFacts DEF Running
    <3>3. CountOf(p)'
      BY <3>1 DEF CountOf
    <3>4. ASSUME NEW q \in Session, q # p PROVE CountOf(q)'
      <4>1. CountOf(q)
        BY <3>4 DEF CountInv
      <4>2. pc'[q] = pc[q] /\ at'[q] = at[q] /\ month'[q] = month[q]
        BY <2>0, <3>4
      <4>3. Sole(q)' = Sole(q) /\ Own(q, archived)' = Own(q, archived)
        BY <3>1, <3>2, <4>2 DEF Sole, Own
      <4> QED
        BY <3>1, <4>1, <4>2, <4>3 DEF CountOf
    <3> QED
      BY <3>1, <3>2, <3>3, <3>4 DEF CountInv
  <2>17. CASE ArchiveError(p)
    BY <2>17, <2>0, QuietCountInv DEF ArchiveError, Fault, Refreshing, Archiving, Counting, rowVars, sessionVars
  <2>18. CASE Crash(p)
    BY <2>18, <2>0, QuietCountInv DEF Crash, Fault, Refreshing, Archiving, Counting, rowVars, sessionVars
  <2>19. CASE ChooseTable(p)
    BY <2>19, <2>0, QuietCountInv DEF ChooseTable, Refreshing, Archiving, Counting, rowVars, sessionVars
  <2> QED
    BY <1>4, <2>1, <2>2, <2>3, <2>4, <2>5, <2>6, <2>7, <2>8, <2>9, <2>10, <2>11, <2>12, <2>13, <2>14, <2>15, <2>16, <2>17, <2>18, <2>19 DEF Step, Statement
<1>5. CASE UNCHANGED vars
  BY <1>5, QuietCountInv DEF vars, rowVars, sessionVars
<1> QED
  BY <1>1, <1>2, <1>3, <1>4, <1>5, StepCases

(* A step outside the refreshes, or one that marks its month as broken,    *)
(* keeps what is known of the statistics.                                  *)
LEMMA QuietStatsInv ==
  ASSUME StatsInv, broken \subseteq broken', stats' = stats,
         \A q \in Session :
           /\ pc'[q] \in Refreshing /\ month'[q] \notin broken' =>
                /\ pc[q] \in Refreshing /\ month[q] = month'[q]
                /\ pc'[q] \in {"clear", "fill"} =>
                     pc[q] = pc'[q] /\ at[q] = at'[q] /\ tmp[q] = tmp'[q]
           /\ pc[q] \in {"clear", "fill"} /\ month[q] \notin broken' =>
                pc'[q] = pc[q] /\ month'[q] = month[q]
  PROVE  StatsInv'
<1>1. ASSUME NEW p \in Session, NEW q \in Session PROVE Alone(p, q)'
  BY <1>1 DEF StatsInv, Alone
<1>2. ASSUME NEW p \in Session PROVE Filled(p)'
  <2>1. Filled(p)
    BY <1>2 DEF StatsInv
  <2> QED
    BY <1>2, <2>1 DEF Filled, Refreshing
<1>3. StatsAgree'
  <2> SUFFICES ASSUME NEW m \in Month, m \notin broken',
                      \A p \in Session : month'[p] = m => pc'[p] \notin {"clear", "fill"}
               PROVE  \A k \in Statistic : stats[k][m] = stats[1][m]
    BY DEF StatsAgree
  <2>1. \A p \in Session : month[p] = m => pc[p] \notin {"clear", "fill"}
    OBVIOUS
  <2> QED
    BY <2>1 DEF StatsInv, StatsAgree
<1> QED
  BY <1>1, <1>2, <1>3 DEF StatsInv

(* The start of a refresh finds no other one of its month, or breaks it.   *)
LEMMA RefreshStatsInv ==
  ASSUME ArchiveTypeOK, StatsInv, NEW p \in Session, NEW m \in Month, Refresh(p, m)
  PROVE  StatsInv'
<1>1. /\ pc[p] = "idle" /\ pc'[p] = "choose" /\ month'[p] = m /\ stats' = stats
      /\ broken \subseteq broken'
      /\ (\E q \in Session : pc[q] \in Refreshing /\ month[q] = m) => m \in broken'
      /\ \A q \in Session : q # p => /\ pc'[q] = pc[q] /\ month'[q] = month[q]
                                     /\ at'[q] = at[q] /\ tmp'[q] = tmp[q]
  BY DEF Refresh, Goto, ArchiveTypeOK
<1>2. ASSUME NEW o \in Session, NEW q \in Session PROVE Alone(o, q)'
  <2>1. Alone(o, q)
    BY DEF StatsInv
  <2> QED
    BY <1>1, <2>1 DEF Alone, Refreshing
<1>3. ASSUME NEW q \in Session PROVE Filled(q)'
  <2>1. Filled(q)
    BY DEF StatsInv
  <2> QED
    BY <1>1, <2>1 DEF Filled
<1>4. StatsAgree'
  <2> SUFFICES ASSUME NEW n \in Month, n \notin broken',
                      \A q \in Session : month'[q] = n => pc'[q] \notin {"clear", "fill"}
               PROVE  \A k \in Statistic : stats[k][n] = stats[1][n]
    BY <1>1 DEF StatsAgree
  <2>1. \A q \in Session : month[q] = n => pc[q] \notin {"clear", "fill"}
    BY <1>1
  <2> QED
    BY <1>1, <2>1 DEF StatsInv, StatsAgree
<1> QED
  BY <1>2, <1>3, <1>4 DEF StatsInv

(* The statistics of a day are built in order, at every step. *)
LEMMA NextStatsInv ==
  ASSUME ArchiveTypeOK, LoopInv, MonthInv, StatsInv, [Next]_vars
  PROVE  StatsInv'
<1> USE DEF Goto
<1>1. CASE MonthPasses
  BY <1>1, QuietStatsInv DEF MonthPasses, statVars, sessionVars
<1>2. CASE \E r \in Row : Arrive(r)
  BY <1>2, QuietStatsInv DEF Arrive, statVars, sessionVars
<1>3. CASE MissedEvent
  BY <1>3, QuietStatsInv DEF MissedEvent, statVars, sessionVars
<1>4. ASSUME NEW p \in Session, Step(p) PROVE StatsInv'
  <2>0. /\ \A q \in Session : /\ q # p => pc'[q] = pc[q] /\ month'[q] = month[q]
                              /\ q # p => at'[q] = at[q] /\ tmp'[q] = tmp[q]
        /\ p \in Session /\ pc \in [Session -> Label]
        /\ month \in [Session -> Month] /\ tmp \in [Session -> SUBSET Row]
    BY <1>4, Others DEF ArchiveTypeOK
  <2>1. ASSUME NEW m \in Month, CallRefresh(p, m) PROVE StatsInv'
    BY <2>1, <2>0, RefreshStatsInv DEF CallRefresh
  <2>2. CASE ArchiveEvent(p)
    <3>1. now - 1 \in Month
      <4>1. now \in 1 .. LastMonth /\ due
        BY <2>2 DEF ArchiveEvent, ArchiveTypeOK, Month
      <4>2. now > 1
        BY <4>1 DEF MonthInv
      <4> QED
        BY <4>1, <4>2, ArchiveAssumption DEF Month, ArchiveAssumption
    <3> QED
      BY <2>2, <2>0, <3>1, RefreshStatsInv DEF ArchiveEvent
  <2>3. CASE Gather(p)
    <3>1. /\ pc[p] = "gather" /\ month' = month /\ broken' = broken
          /\ at[p] \in Table
          /\ stats' = stats
      BY <2>3, <2>0 DEF Gather, LoopInv, statVars
    <3>2. IF at[p] < NTables THEN pc'[p] = "choose" /\ at'[p] = at[p] + 1
          ELSE pc'[p] = "clear" /\ at'[p] = 1
      BY <2>3, <2>0, LoopFacts DEF Gather, Label, Refreshing, Archiving
    <3>3. \A q \in Session : pc'[q] \in Refreshing => pc[q] \in Refreshing
      BY <2>0, <3>1 DEF Refreshing
    <3>4. \A q, o \in Session : Alone(q, o)'
      BY <3>1, <3>3 DEF StatsInv, Alone
    <3>5. Filled(p)'
      BY <3>1, <3>2 DEF Filled, Statistic
    <3>6. ASSUME NEW q \in Session, q # p PROVE Filled(q)'
      <4>1. Filled(q) /\ Alone(p, q)
        BY <2>0, <3>6 DEF StatsInv
      <4>2. /\ pc'[q] = pc[q] /\ month'[q] = month[q] /\ at'[q] = at[q] /\ tmp'[q] = tmp[q]
        BY <2>0, <3>6
      <4>3. CASE month[q] = month[p]
        <5>1. month[q] \in broken \/ pc[q] \notin {"clear", "fill"}
          BY <3>1, <3>6, <4>1, <4>3 DEF Alone, Refreshing
        <5> QED
          BY <3>1, <4>2, <5>1 DEF Filled
      <4>4. CASE month[q] # month[p]
        <5>1. \A k \in Statistic : stats'[k][month[q]] = stats[k][month[q]]
          BY <3>1
        <5> QED
          BY <3>1, <4>1, <4>2, <5>1 DEF Filled
      <4> QED
        BY <4>3, <4>4
    <3>7. StatsAgree'
      <4> SUFFICES ASSUME NEW n \in Month, n \notin broken',
                          \A q \in Session : month'[q] = n => pc'[q] \notin {"clear", "fill"}
                   PROVE  \A k \in Statistic : stats'[k][n] = stats'[1][n]
        BY DEF StatsAgree
      <4>1. CASE n = month[p]
        <5>1. \A q \in Session : month[q] = n => pc[q] \notin {"clear", "fill"}
          <6>1. Alone(p, p) /\ \A q \in Session : Alone(p, q)
            BY <2>0 DEF StatsInv
          <6> QED
            BY <2>0, <3>1, <4>1
        <5> QED
          BY <3>1, <5>1 DEF StatsInv, StatsAgree
      <4>2. CASE n # month[p]
        <5>1. \A q \in Session : month[q] = n => pc[q] \notin {"clear", "fill"}
          BY <2>0, <3>1, <4>2
        <5>2. \A k \in Statistic : stats[k][n] = stats[1][n]
          BY <3>1, <5>1 DEF StatsInv, StatsAgree
        <5>3. \A k \in Statistic : stats'[k][n] = stats[k][n]
          BY <2>0, <3>1, <4>2
        <5> QED
          BY <5>2, <5>3 DEF Statistic
      <4> QED
        BY <4>1, <4>2
    <3> QED
      BY <3>4, <3>5, <3>6, <3>7 DEF StatsInv
  <2>4. CASE Clear(p)
    <3>1. /\ pc[p] = "clear" /\ month' = month /\ broken' = broken
          /\ at[p] \in Statistic
          /\ stats \in [Statistic -> [Month -> SUBSET Row]] /\ month[p] \in Month
          /\ stats' = [stats EXCEPT ![at[p]][month[p]] = {}]
      BY <2>4, <2>0 DEF Clear, LoopInv, ArchiveTypeOK
    <3>2. IF at[p] < 3 THEN pc'[p] = pc[p] /\ at'[p] = at[p] + 1
          ELSE pc'[p] = "fill" /\ at'[p] = 1
      BY <2>4, <2>0, LoopFacts DEF Clear, Label, Refreshing, Archiving
    <3>3. \A q \in Session : pc'[q] \in Refreshing => pc[q] \in Refreshing
      BY <2>0, <3>1 DEF Refreshing
    <3>4. \A q, o \in Session : Alone(q, o)'
      BY <3>1, <3>3 DEF StatsInv, Alone
    <3>s. /\ stats'[at[p]][month[p]] = {}
          /\ \A k \in Statistic : k # at[p] => stats'[k] = stats[k]
          /\ \A k \in Statistic, n \in Month : n # month[p] => stats'[k][n] = stats[k][n]
      BY <3>1
    <3>5. Filled(p)'
      <4>1. Filled(p)
        BY <2>0 DEF StatsInv
      <4>2. CASE month[p] \notin broken
        <5>1. \A k \in Statistic : k <= at[p] => stats'[k][month[p]] = {}
          BY <3>1, <3>s, <4>1, <4>2 DEF Filled, Statistic
        <5>2. CASE at[p] < 3
          <6>1. pc'[p] = "clear" /\ at'[p] = at[p] + 1
            BY <3>1, <3>2, <5>2
          <6>2. \A k \in Statistic : k < at[p] + 1 => k <= at[p]
            BY <3>1 DEF Statistic
          <6> QED
            BY <3>1, <5>1, <6>1, <6>2 DEF Filled
        <5>3. CASE ~ (at[p] < 3)
          <6>1. pc'[p] = "fill" /\ at'[p] = 1
            BY <3>2, <5>3
          <6>2. \A k \in Statistic : k <= at[p] /\ ~ (k < 1)
            BY <3>1, <5>3 DEF Statistic
          <6> QED
            BY <3>1, <5>1, <6>1, <6>2 DEF Filled
        <5> QED
          BY <5>2, <5>3
      <4>3. CASE month[p] \in broken
        BY <3>1, <4>3 DEF Filled
      <4> QED
        BY <4>2, <4>3
    <3>6. ASSUME NEW q \in Session, q # p PROVE Filled(q)'
      <4>1. Filled(q) /\ Alone(p, q)
        BY <2>0, <3>6 DEF StatsInv
      <4>2. /\ pc'[q] = pc[q] /\ month'[q] = month[q] /\ at'[q] = at[q] /\ tmp'[q] = tmp[q]
        BY <2>0, <3>6
      <4>3. CASE month[q] = month[p]
        <5>1. month[q] \in broken \/ pc[q] \notin {"clear", "fill"}
          BY <3>1, <3>6, <4>1, <4>3 DEF Alone, Refreshing
        <5> QED
          BY <3>1, <4>2, <5>1 DEF Filled
      <4>4. CASE month[q] # month[p]
        <5>1. \A k \in Statistic : stats'[k][month[q]] = stats[k][month[q]]
          BY <2>0, <3>s, <4>4
        <5> QED
          BY <3>1, <4>1, <4>2, <5>1 DEF Filled
      <4> QED
        BY <4>3, <4>4
    <3>7. StatsAgree'
      <4> SUFFICES ASSUME NEW n \in Month, n \notin broken',
                          \A q \in Session : month'[q] = n => pc'[q] \notin {"clear", "fill"}
                   PROVE  \A k \in Statistic : stats'[k][n] = stats'[1][n]
        BY DEF StatsAgree
      <4>1. CASE n = month[p]
        <5>1. pc'[p] \in {"clear", "fill"}
          BY <3>1, <3>2
        <5> QED
          BY <2>0, <3>1, <4>1, <5>1
      <4>2. CASE n # month[p]
        <5>1. \A q \in Session : month[q] = n => pc[q] \notin {"clear", "fill"}
          BY <2>0, <3>1, <4>2
        <5>2. \A k \in Statistic : stats[k][n] = stats[1][n]
          BY <3>1, <5>1 DEF StatsInv, StatsAgree
        <5>3. \A k \in Statistic : stats'[k][n] = stats[k][n]
          BY <3>s, <4>2
        <5> QED
          BY <5>2, <5>3 DEF Statistic
      <4> QED
        BY <4>1, <4>2
    <3> QED
      BY <3>4, <3>5, <3>6, <3>7 DEF StatsInv
  <2>5. CASE Fill(p)
    <3>1. /\ pc[p] = "fill" /\ month' = month /\ broken' = broken
          /\ at[p] \in Statistic
          /\ stats \in [Statistic -> [Month -> SUBSET Row]] /\ month[p] \in Month
          /\ stats' = [stats EXCEPT ![at[p]][month[p]] = stats[at[p]][month[p]] \cup tmp[p]]
          /\ at[p] < 3 => tmp'[p] = tmp[p]
      BY <2>5, <2>0 DEF Fill, LoopInv, ArchiveTypeOK
    <3>2. IF at[p] < 3 THEN pc'[p] = pc[p] /\ at'[p] = at[p] + 1
          ELSE pc'[p] \notin Refreshing /\ at'[p] = 1
      <4> DEFINE next == IF chained[p] THEN "begin" ELSE "idle"
      <4>1. Loop(p, 3, "fill", next) /\ pc[p] = "fill"
        BY <2>5 DEF Fill
      <4>2. "fill" \in Label /\ next \in Label /\ next \notin Refreshing
        BY DEF Label, Refreshing, Archiving
      <4>3. at \in [Session -> Nat \ {0}]
        BY DEF ArchiveTypeOK
      <4> HIDE DEF next
      <4>4. \/ at[p] < 3 /\ at' = [at EXCEPT ![p] = at[p] + 1] /\ pc' = [pc EXCEPT ![p] = "fill"]
            \/ ~ (at[p] < 3) /\ at' = [at EXCEPT ![p] = 1] /\ pc' = [pc EXCEPT ![p] = next]
        BY <4>1 DEF Loop, Goto
      <4> QED
        BY <2>0, <4>1, <4>2, <4>3, <4>4
    <3>3. \A q \in Session : pc'[q] \in Refreshing => pc[q] \in Refreshing
      BY <2>0, <3>1 DEF Refreshing
    <3>4. \A q, o \in Session : Alone(q, o)'
      BY <3>1, <3>3 DEF StatsInv, Alone
    <3>s. /\ stats'[at[p]][month[p]] = stats[at[p]][month[p]] \cup tmp[p]
          /\ \A k \in Statistic : k # at[p] => stats'[k] = stats[k]
          /\ \A k \in Statistic, n \in Month : n # month[p] => stats'[k][n] = stats[k][n]
      BY <3>1
    <3>t. month[p] \notin broken =>
            /\ \A k \in Statistic : k <= at[p] => stats'[k][month[p]] = tmp[p]
            /\ \A k \in Statistic : k > at[p] => stats'[k][month[p]] = {}
      <4>1. Filled(p)
        BY <2>0 DEF StatsInv
      <4>2. \A k \in Statistic : (k <= at[p] <=> k < at[p] \/ k = at[p]) /\ (k > at[p] => k >= at[p])
        BY <3>1 DEF Statistic
      <4>3. at[p] >= at[p]
        BY <3>1 DEF Statistic
      <4>4. month[p] \notin broken => stats[at[p]][month[p]] = {}
        BY <3>1, <4>1, <4>3 DEF Filled
      <4>5. \A k \in Statistic : k > at[p] => k # at[p]
        BY <3>1 DEF Statistic
      <4> QED
        BY <3>1, <3>s, <4>1, <4>2, <4>4, <4>5 DEF Filled
    <3>5. Filled(p)'
      <4>1. CASE at[p] < 3 /\ month[p] \notin broken
        <5>1. pc'[p] = "fill" /\ at'[p] = at[p] + 1 /\ tmp'[p] = tmp[p]
          BY <3>1, <3>2, <4>1
        <5>2. \A k \in Statistic : /\ k < at[p] + 1 => k <= at[p]
                                   /\ k >= at[p] + 1 => k > at[p]
          BY <3>1 DEF Statistic
        <5>3. month'[p] = month[p]
          BY <3>1
        <5>4. broken' = broken
          BY <3>1
        <5> QED
          BY <3>t, <4>1, <5>1, <5>2, <5>3, <5>4 DEF Filled
      <4>2. CASE ~ (at[p] < 3)
        BY <3>2, <4>2 DEF Filled, Refreshing
      <4>3. CASE month[p] \in broken
        BY <3>1, <4>3 DEF Filled
      <4> QED
        BY <4>1, <4>2, <4>3
    <3>6. ASSUME NEW q \in Session, q # p PROVE Filled(q)'
      <4>1. Filled(q) /\ Alone(p, q)
        BY <2>0, <3>6 DEF StatsInv
      <4>2. /\ pc'[q] = pc[q] /\ month'[q] = month[q] /\ at'[q] = at[q] /\ tmp'[q] = tmp[q]
        BY <2>0, <3>6
      <4>3. CASE month[q] = month[p]
        <5>1. month[q] \in broken \/ pc[q] \notin {"clear", "fill"}
          BY <3>1, <3>6, <4>1, <4>3 DEF Alone, Refreshing
        <5> QED
          BY <3>1, <4>2, <5>1 DEF Filled
      <4>4. CASE month[q] # month[p]
        <5>1. \A k \in Statistic : stats'[k][month[q]] = stats[k][month[q]]
          BY <2>0, <3>s, <4>4
        <5> QED
          BY <3>1, <4>1, <4>2, <5>1 DEF Filled
      <4> QED
        BY <4>3, <4>4
    <3>7. StatsAgree'
      <4> SUFFICES ASSUME NEW n \in Month, n \notin broken',
                          \A q \in Session : month'[q] = n => pc'[q] \notin {"clear", "fill"}
                   PROVE  \A k \in Statistic : stats'[k][n] = stats'[1][n]
        BY DEF StatsAgree
      <4>1. CASE n = month[p]
        <5>1. ~ (at[p] < 3)
          BY <2>0, <3>1, <3>2, <4>1
        <5>2. \A k \in Statistic : k <= at[p]
          BY <3>1, <5>1 DEF Statistic
        <5> QED
          BY <3>1, <3>t, <4>1, <5>2 DEF Statistic
      <4>2. CASE n # month[p]
        <5>1. \A q \in Session : month[q] = n => pc[q] \notin {"clear", "fill"}
          BY <2>0, <3>1, <4>2
        <5>2. \A k \in Statistic : stats[k][n] = stats[1][n]
          BY <3>1, <5>1 DEF StatsInv, StatsAgree
        <5>3. \A k \in Statistic : stats'[k][n] = stats[k][n]
          BY <3>s, <4>2
        <5> QED
          BY <5>2, <5>3 DEF Statistic
      <4> QED
        BY <4>1, <4>2
    <3> QED
      BY <3>4, <3>5, <3>6, <3>7 DEF StatsInv
  <2>6. CASE DuplicateKey(p)
    BY <2>6, <2>0, QuietStatsInv DEF DuplicateKey, BreakOff, Refreshing, Archiving, statVars, sessionVars
  <2>7. CASE RefreshError(p)
    BY <2>7, <2>0, QuietStatsInv DEF RefreshError, BreakOff, Fault, Refreshing, Archiving, statVars, sessionVars
  <2>8. ASSUME NEW m \in Month, CallArchive(p, m) PROVE StatsInv'
    BY <2>8, <2>0, QuietStatsInv DEF CallArchive, Refreshing, Archiving, statVars, sessionVars
  <2>9. CASE BeginRun(p)
    BY <2>9, <2>0, QuietStatsInv DEF BeginRun, Refreshing, Archiving, statVars, sessionVars
  <2>10. CASE CreateTarget(p)
    BY <2>10, <2>0, QuietStatsInv DEF CreateTarget, Refreshing, Archiving, statVars, sessionVars
  <2>11. CASE Copy(p)
    BY <2>11, <2>0, QuietStatsInv DEF Copy, Refreshing, Archiving, statVars, sessionVars
  <2>12. CASE CountSource(p)
    BY <2>12, <2>0, QuietStatsInv DEF CountSource, Refreshing, Archiving, statVars, sessionVars
  <2>13. CASE CountTarget(p)
    BY <2>13, <2>0, QuietStatsInv DEF CountTarget, Refreshing, Archiving, statVars, sessionVars
  <2>14. CASE Delete(p)
    BY <2>14, <2>0, QuietStatsInv DEF Delete, Refreshing, Archiving, statVars, sessionVars
  <2>15. CASE Complete(p)
    BY <2>15, <2>0, QuietStatsInv DEF Complete, Refreshing, Archiving, statVars, sessionVars
  <2>16. CASE Fail(p)
    BY <2>16, <2>0, QuietStatsInv DEF Fail, Refreshing, Archiving, statVars, sessionVars
  <2>17. CASE ArchiveError(p)
    BY <2>17, <2>0, QuietStatsInv DEF ArchiveError, Fault, Refreshing, Archiving, statVars, sessionVars
  <2>18. CASE Crash(p)
    BY <2>18, <2>0, QuietStatsInv DEF Crash, Fault, Refreshing, Archiving, statVars, sessionVars
  <2>19. CASE ChooseTable(p)
    BY <2>19, <2>0, QuietStatsInv DEF ChooseTable, Refreshing, Archiving, statVars, sessionVars
  <2> QED
    BY <1>4, <2>1, <2>2, <2>3, <2>4, <2>5, <2>6, <2>7, <2>8, <2>9, <2>10, <2>11, <2>12, <2>13, <2>14, <2>15, <2>16, <2>17, <2>18, <2>19 DEF Step, Statement
<1>5. CASE UNCHANGED vars
  BY <1>5, QuietStatsInv DEF vars, statVars, sessionVars
<1> QED
  BY <1>1, <1>2, <1>3, <1>4, <1>5, StepCases

-----------------------------------------------------------------------------
(* Archive tables stay, and only the lookup leads to the read of one.      *)
LEMMA OnlyChoose ==
  ASSUME ArchiveTypeOK, NEW p \in Session, Step(p)
  PROVE  created \subseteq created' /\ (pc'[p] = "gather" => ChooseTable(p))
<1> USE DEF Goto, sessionVars, rowVars, Refreshing, Archiving
<1> DEFINE Keeps == created \subseteq created' /\ pc'[p] # "gather"
<1>0. pc \in [Session -> Label]
  BY DEF ArchiveTypeOK
<1>1. ASSUME NEW m \in Month, CallRefresh(p, m) PROVE Keeps
  BY <1>0, <1>1 DEF CallRefresh, Refresh
<1>2. ArchiveEvent(p) => Keeps
  BY <1>0 DEF ArchiveEvent, Refresh
<1>3. Gather(p) => Keeps
  BY RefreshGoesOn
<1>4. Clear(p) => Keeps
  BY RefreshGoesOn
<1>5. Fill(p) => Keeps
  BY RefreshGoesOn
<1>6. DuplicateKey(p) \/ RefreshError(p) => Keeps
  BY <1>0 DEF DuplicateKey, RefreshError, BreakOff
<1>7. ASSUME NEW m \in Month, CallArchive(p, m) PROVE Keeps
  BY <1>0, <1>7 DEF CallArchive
<1>8. BeginRun(p) \/ CreateTarget(p) \/ Copy(p) \/ CountSource(p) => Keeps
  BY <1>0 DEF BeginRun, CreateTarget, Copy, CountSource
<1>9. CountTarget(p) \/ Delete(p) => Keeps
  BY <1>0 DEF CountTarget, Delete
<1>10. Complete(p) \/ Fail(p) => Keeps
  BY <1>0 DEF Complete, Fail
<1>11. ArchiveError(p) \/ Crash(p) => Keeps
  BY <1>0 DEF ArchiveError, Crash
<1>12. ChooseTable(p) => created \subseteq created'
  BY DEF ChooseTable
<1> QED
  BY <1>1, <1>2, <1>3, <1>4, <1>5, <1>6, <1>7, <1>8, <1>9, <1>10, <1>11, <1>12
  DEF Step, Statement

(* What a refresh has chosen is still there when it reads it. *)
LEMMA NextChosenInv ==
  ASSUME ArchiveTypeOK, ChosenInv, [Next]_vars
  PROVE  ChosenInv'
<1>1. CASE MonthPasses \/ MissedEvent \/ UNCHANGED vars \/ \E r \in Row : Arrive(r)
  BY <1>1 DEF ChosenInv, MonthPasses, MissedEvent, Arrive, vars, rowVars, sessionVars
<1>2. ASSUME NEW p \in Session, Step(p) PROVE ChosenInv'
  <2>1. created \subseteq created' /\ (pc'[p] = "gather" => ChooseTable(p))
    BY <1>2, OnlyChoose
  <2>2. ASSUME NEW q \in Session, q # p, pc'[q] = "gather", chosen'[q] = "archive"
        PROVE  <<at'[q], month'[q]>> \in created'
    BY <1>2, <2>1, <2>2, Others DEF ChosenInv
  <2>3. ASSUME pc'[p] = "gather", chosen'[p] = "archive"
        PROVE  <<at'[p], month'[p]>> \in created'
    <3>1. chosen' = [chosen EXCEPT ![p] = QueryTable(at[p], month[p])] /\ at' = at /\ month' = month
      BY <2>1, <2>3 DEF ChooseTable
    <3>2. QueryTable(at[p], month[p]) = "archive"
      BY <2>3, <3>1 DEF ArchiveTypeOK
    <3> QED
      BY <2>1, <3>1, <3>2 DEF QueryTable
  <2> QED
    BY <2>2, <2>3 DEF ChosenInv
<1> QED
  BY <1>1, <1>2, StepCases

-----------------------------------------------------------------------------
(* The invariant holds at first. *)
LEMMA InitArchiveInv == Init => ArchiveInv
<1> SUFFICES ASSUME Init PROVE ArchiveInv
  OBVIOUS
<1>1. /\ now = 1 /\ due = FALSE /\ stored = {} /\ hot = {} /\ created = {} /\ archived = {}
      /\ runs = <<>> /\ broken = {} /\ calls = 0 /\ faults = 0
      /\ \A p \in Session : pc[p] = "idle" /\ month[p] = 1
      /\ \A k \in Statistic, m \in Month : stats[k][m] = {}
  BY DEF Init
<1>2. \A t, m : RunsOf(t, m) = {}
  BY <1>1 DEF RunsOf
<1>3. 1 \in Month
  BY ArchiveAssumption DEF Month, ArchiveAssumption
<1>4. ArchiveTypeOK
  <2>1. now \in Month /\ month \in [Session -> Month]
    BY <1>1, <1>3 DEF Init
  <2>2. runs \in RunRows /\ Len(runs) = 0
    BY <1>1 DEF RunRows
  <2>3. run \in [Session -> 0 .. Len(runs)]
    BY <2>2 DEF Init
  <2>4. due \in BOOLEAN /\ chained \in [Session -> BOOLEAN]
    BY DEF Init
  <2>5. pc \in [Session -> Label]
    BY DEF Init, Label
  <2>6. at \in [Session -> Nat \ {0}] /\ calls \in Nat /\ faults \in Nat
    BY DEF Init
  <2>8. chosen \in [Session -> {"hot", "archive"}]
    BY DEF Init
  <2>7. /\ stats \in [Statistic -> [Month -> SUBSET Row]]
        /\ tmp \in [Session -> SUBSET Row] /\ counted \in [Session -> SUBSET Row]
    BY DEF Init
  <2> QED
    BY <1>1, <2>1, <2>2, <2>3, <2>4, <2>5, <2>6, <2>7, <2>8 DEF ArchiveTypeOK
<1>5. LoopInv
  BY <1>1 DEF LoopInv, Running
<1>6. MonthInv
  BY <1>1 DEF MonthInv, Running, Refreshing
<1>7. RunInv
  BY <1>1 DEF RunInv, Running, Targeted
<1>8. CopyInv
  BY <1>1, <1>2 DEF CopyInv, KeptUnlessLate, CompletedMeansMoved, OnTime, Part
<1>9. CountInv
  BY <1>1 DEF CountInv, CountOf, Part
<1>10. StatsInv
  <2>1. 1 \in Statistic
    BY DEF Statistic
  <2> QED
    BY <1>1, <2>1 DEF StatsInv, Alone, Filled, StatsAgree, Refreshing
<1>11. ChosenInv
  BY <1>1 DEF ChosenInv
<1> QED
  BY <1>4, <1>5, <1>6, <1>7, <1>8, <1>9, <1>10, <1>11 DEF ArchiveInv

(* ArchiveInv is inductive.  The order of its parts is that of their use:  *)
(* a run has a past month because its loop is typed, its rows are copied   *)
(* because its run is its own, and so on.                                  *)
LEMMA NextArchiveInv == ArchiveInv /\ [Next]_vars => ArchiveInv'
BY NextTypeOK, NextLoopInv, NextMonthInv, NextRunInv, NextChosenInv, NextCopyInv, NextCountInv, NextStatsInv
   DEF ArchiveInv

(* The invariant holds in every reachable state: there are never two       *)
(* sessions with one run, a run of the current month or a run without its  *)
(* target table.                                                           *)
THEOREM ArchiveInvariant == Spec => []ArchiveInv
BY InitArchiveInv, NextArchiveInv, PTL DEF Spec

(* Every variable keeps its type. *)
THEOREM ArchiveTypes == Spec => []ArchiveTypeOK
<1>1. ArchiveInv => ArchiveTypeOK
  BY DEF ArchiveInv
<1> QED
  BY <1>1, ArchiveInvariant, PTL

(* However many sessions archive a month at once, and whatever fails, no   *)
(* row that came within its month is lost by the copy and the deletion.    *)
THEOREM RowsAreKept == Spec => []KeptUnlessLate
<1>1. ArchiveInv => KeptUnlessLate
  BY DEF ArchiveInv, CopyInv
<1> QED
  BY <1>1, ArchiveInvariant, PTL

(* A table and month whose runs have all completed has moved altogether,   *)
(* and one without a run has not been touched.                             *)
THEOREM CompletedRunsHaveMoved == Spec => []CompletedMeansMoved
<1>1. ArchiveInv => CompletedMeansMoved
  BY DEF ArchiveInv, CopyInv
<1> QED
  BY <1>1, ArchiveInvariant, PTL

(* On the first run of a month nothing is deleted that was not counted in  *)
(* the archive, whatever came between the copy and the count.              *)
THEOREM CountIsSafe == Spec => []CountCatchesLateRows
<1>1. ArchiveInv => CountCatchesLateRows
  BY DEF ArchiveInv, CountInv, CountOf, CountCatchesLateRows, Sole
<1> QED
  BY <1>1, ArchiveInvariant, PTL

(* The three statistics of a day count the same rows, unless refreshes of  *)
(* it overlapped or broke off.                                             *)
THEOREM StatisticsAgree == Spec => []StatsAgree
<1>1. ArchiveInv => StatsAgree
  BY DEF ArchiveInv, StatsInv
<1> QED
  BY <1>1, ArchiveInvariant, PTL

(* Only the gathering statement itself takes a session on to the next      *)
(* table of a refresh.                                                     *)
LEMMA OnlyGather ==
  ASSUME ArchiveTypeOK, [Next]_vars, NEW p \in Session, pc[p] = "gather",
         pc'[p] \in {"choose", "clear"}
  PROVE  Gather(p)
<1> USE DEF Goto, sessionVars
<1>0. pc \in [Session -> Label]
  BY DEF ArchiveTypeOK
<1>1. ~ MonthPasses /\ ~ MissedEvent /\ ~ UNCHANGED vars /\ \A r \in Row : ~ Arrive(r)
  BY DEF MonthPasses, MissedEvent, vars, Arrive
<1>2. ASSUME NEW q \in Session, Step(q) PROVE Gather(p)
  <2>1. q = p
    BY <1>2, Others
  <2>2. \A m \in Month : ~ CallRefresh(p, m) /\ ~ CallArchive(p, m)
    BY DEF CallRefresh, Refresh, CallArchive
  <2>3. ~ ArchiveEvent(p)
    BY DEF ArchiveEvent, Refresh
  <2>4. ~ RefreshError(p) /\ ~ DuplicateKey(p) /\ ~ Crash(p) /\ ~ ArchiveError(p)
    BY <1>0 DEF RefreshError, DuplicateKey, BreakOff, Crash, ArchiveError, Archiving
  <2>5. /\ ~ ChooseTable(p) /\ ~ Clear(p) /\ ~ Fill(p)
        /\ ~ BeginRun(p) /\ ~ CreateTarget(p) /\ ~ Copy(p)
        /\ ~ CountSource(p) /\ ~ CountTarget(p) /\ ~ Delete(p) /\ ~ Complete(p) /\ ~ Fail(p)
    BY DEF ChooseTable, Clear, Fill, BeginRun, CreateTarget, Copy, CountSource, CountTarget, Delete,
           Complete, Fail
  <2> QED
    BY <1>2, <2>1, <2>2, <2>3, <2>4, <2>5 DEF Step, Statement
<1> QED
  BY <1>1, <1>2, StepCases

(* A refresh reads the table that holds the rows of its day: the hot one   *)
(* before the first run of the month and the archive after the last,       *)
(* unless a run of the month did not complete, or one created the archive  *)
(* table between the lookup and the read.                                  *)
THEOREM RefreshIsComplete == Spec => RefreshSeesEverything
<1> DEFINE Sees(p) ==
      /\ pc[p] = "gather" /\ pc'[p] \in {"choose", "clear"}
      /\ \A i \in RunsOf(at[p], month[p]) : runs[i].status = "completed"
      /\ chosen[p] = "hot" => <<at[p], month[p]>> \notin created
      => Part(OnTime, at[p], month[p]) \cap FaultRow \subseteq tmp'[p]
<1>1. ASSUME ArchiveInv, [Next]_vars, NEW p \in Session PROVE Sees(p)
  <2> DEFINE t == at[p]
             m == month[p]
  <2> SUFFICES ASSUME pc[p] = "gather", pc'[p] \in {"choose", "clear"},
                      \A i \in RunsOf(t, m) : runs[i].status = "completed",
                      chosen[p] = "hot" => <<t, m>> \notin created
               PROVE  Part(OnTime, t, m) \cap FaultRow \subseteq tmp'[p]
    OBVIOUS
  <2>1. /\ ArchiveTypeOK /\ LoopInv /\ RunInv /\ ChosenInv /\ CompletedMeansMoved
    BY <1>1 DEF ArchiveInv, CopyInv
  <2>2. Gather(p)
    BY <1>1, <2>1, OnlyGather
  <2>3. /\ t \in Table /\ m \in Month /\ tmp \in [Session -> SUBSET Row]
        /\ chosen[p] \in {"hot", "archive"}
    BY <1>1, <2>1 DEF LoopInv, ArchiveTypeOK
  <2>4. tmp'[p] = tmp[p] \cup (Source(chosen[p], t, m) \cap FaultRow)
    BY <1>1, <2>2, <2>3 DEF Gather
  <2>c. chosen[p] = "archive" => <<t, m>> \in created
    BY <2>1 DEF ChosenInv
  <2> HIDE DEF t, m
  <2>5. CASE chosen[p] = "hot"
    <3>1. RunsOf(t, m) = {}
      <4> SUFFICES ASSUME NEW i \in RunsOf(t, m) PROVE FALSE
        OBVIOUS
      <4>1. i \in DOMAIN runs /\ runs[i].table = t /\ runs[i].month = m
        BY DEF RunsOf
      <4>2. <<t, m>> \in created
        BY <2>1, <4>1 DEF RunInv
      <4> QED
        BY <2>5, <4>2
    <3>2. Part(OnTime, t, m) \subseteq hot
      BY <2>1, <2>3, <3>1 DEF CompletedMeansMoved
    <3> QED
      BY <2>4, <2>5, <3>2 DEF Source, Part
  <2>6. CASE chosen[p] = "archive"
    <3>1. RunsOf(t, m) # {}
      BY <2>1, <2>3, <2>6, <2>c DEF RunInv
    <3>2. Part(OnTime, t, m) \subseteq archived
      BY <2>1, <2>3, <3>1 DEF CompletedMeansMoved
    <3> QED
      BY <2>4, <2>6, <3>2 DEF Source, Part
  <2> QED
    BY <2>3, <2>5, <2>6
<1>2. ArchiveInv /\ [Next]_vars => [\A p \in Session : Sees(p)]_vars
  BY <1>1
<1> HIDE DEF Sees
<1>3. Spec => [][\A p \in Session : Sees(p)]_vars
  BY <1>2, ArchiveInvariant, PTL DEF Spec
<1> QED
  BY <1>3 DEF Sees, RefreshSeesEverything
-----------------------------------------------------------------------------
(* What a query finds while the archive moves rows (ArchivedHistory).      *)

(* A query's parts, and those of a row it seeks. *)
LEMMA QueryParts ==
  ASSUME NEW q \in Query
  PROVE  q.table \in Table /\ q.months \subseteq Int /\ q.current \in Month
<1>1. q.months \in MonthRange
  BY DEF Query
<1>2. PICK a \in Month, b \in Month : q.months = a .. b
  BY <1>1 DEF MonthRange
<1> QED BY <1>2 DEF Query

LEMMA SoughtParts ==
  ASSUME ArchiveInv, NEW q \in Query, NEW r \in Sought(q)
  PROVE  /\ r \in OnTime /\ r \in Row /\ TableOf[r] = q.table
         /\ MonthOf[r] \in Month /\ MonthOf[r] \in Branches(q)
         /\ r \in hot \cup archived
<1>1. r \in OnTime /\ TableOf[r] = q.table /\ MonthOf[r] \in Branches(q)
  BY DEF Sought, Branches
<1>2. stored \subseteq Row /\ OnTime \subseteq hot \cup archived
  BY DEF ArchiveInv, ArchiveTypeOK, CopyInv, KeptUnlessLate
<1> QED BY <1>1, <1>2, ArchiveAssumption DEF OnTime

LEMMA ArchiveInvMisses == ArchiveInv => NothingMissed
<1> SUFFICES ASSUME ArchiveInv, NEW q \in Query, q.current = now, now \in q.months,
                    NEW r \in Sought(q)
             PROVE  Found(q, r) # {}
  BY DEF NothingMissed
<1> DEFINE m == MonthOf[r]
<1>1. /\ r \in OnTime /\ r \in Row /\ TableOf[r] = q.table
      /\ m \in Month /\ m \in Branches(q) /\ r \in hot \cup archived
  BY SoughtParts
<1>2. now \in Branches(q) /\ m \in q.months
  BY <1>1, QueryParts DEF Branches, Month
<1>3. CASE r \in hot
  <2>1. InBranch(q, now, r)
    BY <1>1, <1>2, <1>3 DEF InBranch
  <2> QED BY <1>2, <2>1 DEF Found
<1>4. CASE r \in archived
  <2>1. r \in Part(archived, q.table, m)
    BY <1>1, <1>4 DEF Part
  <2>2. RunsOf(q.table, m) # {}
    BY <1>1, <2>1, QueryParts DEF ArchiveInv, CountInv
  <2>3. m # now
    BY <2>2 DEF RunsOf, ArchiveInv, MonthInv, ArchiveTypeOK, Month
  <2>4. InBranch(q, m, r)
    BY <1>1, <1>2, <2>1, <2>3 DEF InBranch
  <2> QED BY <1>1, <2>4 DEF Found
<1> QED BY <1>1, <1>3, <1>4

(* Whatever an archive is doing or has left undone, a query that includes  *)
(* the current month misses no row that came in time: the range of the hot *)
(* branch is the whole range (NothingMissed).                              *)
THEOREM QueriesMissNothing == Spec => []NothingMissed
BY ArchiveInvMisses, ArchiveInvariant, PTL

LEMMA ArchiveInvFindsOnce == ArchiveInv => FoundOnce
<1> SUFFICES ASSUME ArchiveInv, NEW q \in Query,
                    \A m \in Branches(q) :
                      IF m = q.current THEN RunsOf(q.table, m) = {} ELSE Archived(q.table, m)
             PROVE  Executable(q) /\ \A r \in Sought(q) : \E m \in Month : Found(q, r) = {m}
  BY DEF FoundOnce
<1> DEFINE t == q.table
<1>1. Executable(q)
  <2> SUFFICES ASSUME NEW m \in Branches(q), m < q.current PROVE <<t, m>> \in created
    BY DEF Executable
  <2>1. Archived(t, m)
    BY QueryParts DEF Month
  <2>2. PICK i \in DOMAIN runs : runs[i].table = t /\ runs[i].month = m /\ runs[i].status = "completed"
    BY <2>1 DEF Archived, RunsOf
  <2> QED BY <2>2 DEF ArchiveInv, RunInv
<1>2. ASSUME NEW r \in Sought(q) PROVE Found(q, r) = {MonthOf[r]} /\ MonthOf[r] \in Month
  <2> DEFINE n == MonthOf[r]
  <2>1. /\ r \in OnTime /\ r \in Row /\ TableOf[r] = t
        /\ n \in Month /\ n \in Branches(q)
    BY SoughtParts
  <2>2. r \in Part(OnTime, t, n) /\ n \in q.months
    BY <2>1 DEF Part, Branches
  <2>3. ASSUME NEW m \in Branches(q), m # q.current, InBranch(q, m, r) PROVE m = n
    BY <2>3 DEF InBranch, Part
  <2>4. CASE n = q.current
    <3>1. r \in hot
      BY <2>1, <2>2, <2>4, QueryParts DEF ArchiveInv, CopyInv, CompletedMeansMoved
    <3>2. InBranch(q, n, r)
      BY <2>1, <2>2, <2>4, <3>1 DEF InBranch
    <3> QED BY <2>1, <2>3, <2>4, <3>2 DEF Found
  <2>5. CASE n # q.current
    <3>1. Archived(t, n)
      BY <2>1, <2>5
    <3>2. r \in archived /\ r \notin hot
      BY <2>1, <2>2, <3>1, QueryParts DEF Archived, ArchiveInv, CopyInv, CompletedMeansMoved
    <3>3. InBranch(q, n, r)
      BY <2>1, <2>2, <2>5, <3>2 DEF InBranch, Part
    <3>4. ~ InBranch(q, q.current, r)
      BY <3>2 DEF InBranch
    <3> QED BY <2>1, <2>3, <3>3, <3>4 DEF Found
  <2> QED BY <2>1, <2>4, <2>5
<1> QED BY <1>1, <1>2

(* Once the months before its current one have been archived, and until    *)
(* that one is, a query finds every row that came in time in one branch    *)
(* and no row twice, also when it is executed after its month is over      *)
(* (FoundOnce).                                                            *)
THEOREM QueriesFindOnce == Spec => []FoundOnce
BY ArchiveInvFindsOnce, ArchiveInvariant, PTL
=============================================================================
