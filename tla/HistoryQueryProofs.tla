------------------------- MODULE HistoryQueryProofs -------------------------
(***************************************************************************)
(* Proofs about HistoryQuery: for every range, current month and set of    *)
(* years, the tables of the plan are those of the range's months.          *)
(***************************************************************************)
EXTENDS HistoryQuery, FiniteSetTheorems, TLAPS

(* The order of months is total. *)
LEMMA MonthsAreOrdered ==
  ASSUME NEW m \in YearMonth, NEW n \in YearMonth
  PROVE  /\ MonthBefore(m, n) \/ m = n \/ MonthBefore(n, m)
         /\ ~ MonthBefore(m, m)
         /\ MonthBefore(m, n) => m # n /\ ~ MonthBefore(n, m)
BY DEF YearMonth, MonthBefore

LEMMA MonthsAreTransitive ==
  ASSUME NEW l \in YearMonth, NEW m \in YearMonth, NEW n \in YearMonth
  PROVE  /\ MonthBefore(l, m) /\ MonthBefore(m, n) => MonthBefore(l, n)
         /\ MonthBefore(l, m) /\ ~ MonthBefore(n, m) => MonthBefore(l, n)
         /\ ~ MonthBefore(m, l) /\ MonthBefore(m, n) => MonthBefore(l, n)
BY DEF YearMonth, MonthBefore

(* next_month: nothing lies between a month and the next. *)
LEMMA NextMonthFollows ==
  ASSUME NEW m \in YearMonth
  PROVE  /\ NextMonth(m) \in YearMonth
         /\ MonthBefore(m, NextMonth(m))
         /\ \A n \in YearMonth : MonthBefore(n, NextMonth(m)) => ~ MonthBefore(m, n)
<1>1. CASE m.month = 12
  <2>1. NextMonth(m) = [year |-> m.year + 1, month |-> 1]
    BY <1>1 DEF NextMonth
  <2> QED BY <1>1, <2>1 DEF YearMonth, MonthBefore
<1>2. CASE m.month # 12
  <2>1. NextMonth(m) = [year |-> m.year, month |-> m.month + 1]
    BY <1>2 DEF NextMonth, YearMonth
  <2> QED BY <1>2, <2>1 DEF YearMonth, MonthBefore
<1> QED BY <1>1, <1>2

LEMMA MonthInType ==
  ASSUME HistoryAssumption, NEW t \in Time
  PROVE  MonthIn(t) \in Month
BY DEF Time, Month, MonthIn

LEMMA TimeParts ==
  ASSUME HistoryAssumption, NEW t \in Time
  PROVE  t.year \in Years /\ t.year \in Nat /\ t.month \in 1 .. 12 /\ t.instant \in Nat
<1>1. Years \subseteq Nat /\ Instants \in Nat
  BY DEF HistoryAssumption
<1>2. t.year \in Years /\ t.month \in 1 .. 12 /\ t.instant \in 0 .. Instants - 1
  BY DEF Time
<1>3. t.instant \in Nat
  BY <1>1, <1>2
<1>4. t.year \in Nat
  BY <1>1, <1>2
<1> QED BY <1>2, <1>3, <1>4

LEMMA TablesHaveMonths ==
  HistoryTypeOK => \A i \in DOMAIN tables : tables[i].month \in YearMonth
<1> DEFINE Entry == [archive : BOOLEAN, month : YearMonth]
<1> SUFFICES ASSUME HistoryTypeOK, NEW i \in DOMAIN tables PROVE tables[i].month \in YearMonth
  OBVIOUS
<1>1. tables \in Seq(Entry)
  BY DEF HistoryTypeOK
<1>2. \A e \in Entry : e.month \in YearMonth
  OBVIOUS
<1>3. tables[i] \in Entry
  <2> HIDE DEF Entry
  <2> QED BY <1>1
<1> QED BY <1>2, <1>3

LEMMA MonthsAreYearMonths == HistoryAssumption => Month \subseteq YearMonth
BY DEF HistoryAssumption, Month, YearMonth

(* Vec::dedup does nothing to a sequence without equal neighbours. *)
LEMMA DedupKeepsDistinct ==
  ASSUME NEW S, NEW s \in Seq(S), \A i \in 2 .. Len(s) : s[i] # s[i - 1]
  PROVE  Dedup(s) = s
<1> DEFINE kept == {i \in DOMAIN s : i = 1 \/ s[i] # s[i - 1]}
<1>1. DOMAIN s = 1 .. Len(s) /\ Len(s) \in Nat
  OBVIOUS
<1>2. kept = 1 .. Len(s)
  BY <1>1
<1>3. \A j \in 1 .. Len(s) : {k \in 1 .. Len(s) : k <= j} = 1 .. j
  BY <1>1
<1>4. \A j \in Nat : Cardinality(1 .. j) = j
  BY FS_Interval
<1>5. Cardinality(kept) = Len(s)
  BY <1>1, <1>2, <1>4
<1>6. \A j \in 1 .. Len(s) :
        (CHOOSE i \in 1 .. Len(s) : Cardinality({k \in 1 .. Len(s) : k <= i}) = j) = j
  <2> TAKE j \in 1 .. Len(s)
  <2>1. \A i \in 1 .. Len(s) : Cardinality({k \in 1 .. Len(s) : k <= i}) = i
    <3> TAKE i \in 1 .. Len(s)
    <3>1. {k \in 1 .. Len(s) : k <= i} = 1 .. i /\ i \in Nat
      BY <1>1, <1>3
    <3> QED BY <1>4, <3>1
  <2>2. j \in 1 .. Len(s) /\ Cardinality({k \in 1 .. Len(s) : k <= j}) = j
    BY <2>1
  <2> QED BY <2>1, <2>2
<1>7. Dedup(s) = [j \in 1 .. Cardinality(kept) |->
                    s[CHOOSE i \in kept : Cardinality({k \in kept : k <= i}) = j]]
  BY DEF Dedup
<1>8. Dedup(s) = [j \in 1 .. Len(s) |-> s[j]]
  <2> HIDE DEF kept
  <2>1. Dedup(s) = [j \in 1 .. Len(s) |->
                      s[CHOOSE i \in 1 .. Len(s) : Cardinality({k \in 1 .. Len(s) : k <= i}) = j]]
    BY <1>2, <1>5, <1>7
  <2> QED BY <1>6, <2>1
<1> QED BY <1>1, <1>8
-----------------------------------------------------------------------------
(* The invariant holds at the call. *)
LEMMA InitPlanInv == HistoryAssumption /\ Init => PlanInv
<1> SUFFICES ASSUME HistoryAssumption, Init PROVE PlanInv
  OBVIOUS
<1>1. MonthIn(start) \in YearMonth
  BY MonthInType, MonthsAreYearMonths DEF Init
<1>2. HistoryTypeOK
  BY <1>1 DEF Init, HistoryTypeOK
<1>3. ~ MonthBefore(month, MonthIn(start))
  BY <1>1, MonthsAreOrdered DEF Init
<1>4. Complete
  BY <1>3 DEF Init, Complete
<1> QED BY <1>2, <1>3, <1>4 DEF Init, PlanInv, TablesAscend, Sound, Selected

(* Every iteration that takes a table appends the one of its month. *)
LEMMA SelectPlanInv ==
  ASSUME HistoryAssumption, PlanInv, pc = "loop", Reached,
         ~ MonthBefore(current, month),
         tables' = Append(tables, TableFor(month)),
         month' = NextMonth(month),
         UNCHANGED <<inputs, pc>>
  PROVE  PlanInv'
<1> DEFINE n == Len(tables) + 1
           Entry == [archive : BOOLEAN, month : YearMonth]
<1>1. /\ tables \in Seq(Entry) /\ month \in YearMonth
      /\ current \in YearMonth /\ MonthIn(start) \in YearMonth
  BY MonthInType, MonthsAreYearMonths DEF PlanInv, HistoryTypeOK
<1>2. /\ month' \in YearMonth /\ MonthBefore(month, month')
      /\ \A l \in YearMonth : MonthBefore(l, month') => ~ MonthBefore(month, l)
  BY <1>1, NextMonthFollows
<1>3. TableFor(month) \in Entry /\ TableFor(month).month = month
  BY <1>1 DEF TableFor, Hot, Archive
<1>4. /\ tables' \in Seq(Entry)
      /\ DOMAIN tables = 1 .. Len(tables) /\ DOMAIN tables' = 1 .. n
      /\ \A i \in DOMAIN tables : i \in DOMAIN tables' /\ tables'[i] = tables[i]
      /\ tables'[n] = TableFor(month) /\ n \in DOMAIN tables'
      /\ \A i \in DOMAIN tables' : i \in DOMAIN tables \/ i = n
  <2> HIDE DEF Entry
  <2> QED BY <1>1, <1>3
<1>5. \A l : TableFor(l)' = TableFor(l)
  BY DEF TableFor, Hot, Archive, inputs
<1>6. \A i \in DOMAIN tables : tables[i].month \in YearMonth
  BY TablesHaveMonths DEF PlanInv
<1>7. HistoryTypeOK'
  BY <1>2, <1>4 DEF PlanInv, HistoryTypeOK, inputs
<1>8. Sound'
  <2> SUFFICES ASSUME NEW i \in DOMAIN tables'
               PROVE  /\ tables'[i] = TableFor(tables'[i].month)
                      /\ ~ MonthBefore(tables'[i].month, MonthIn(start))
                      /\ Before(Midnight(tables'[i].month), end)
                      /\ MonthBefore(tables'[i].month, month')
    BY <1>5 DEF Sound, inputs
  <2>1. CASE i \in DOMAIN tables
    BY <2>1, <1>1, <1>2, <1>4, <1>6, MonthsAreTransitive DEF PlanInv, Sound
  <2>2. CASE i = n
    BY <2>2, <1>2, <1>3, <1>4 DEF PlanInv, Reached
  <2> QED BY <2>1, <2>2, <1>4
<1>9. TablesAscend'
  <2> SUFFICES ASSUME NEW i \in DOMAIN tables', NEW j \in DOMAIN tables', i < j
               PROVE  MonthBefore(tables'[i].month, tables'[j].month)
    BY DEF TablesAscend
  <2>1. i \in DOMAIN tables
    BY <1>4
  <2>2. CASE j \in DOMAIN tables
    BY <2>1, <2>2, <1>4 DEF PlanInv, TablesAscend
  <2>3. CASE j = n
    BY <2>1, <2>3, <1>3, <1>4 DEF PlanInv, Sound
  <2> QED BY <2>2, <2>3, <1>4
<1>10. Complete'
  <2> SUFFICES ASSUME NEW m \in Month, ~ MonthBefore(m, MonthIn(start)),
                      MonthBefore(m, month'), ~ MonthBefore(current, m)
               PROVE  \E i \in DOMAIN tables' : tables'[i] = TableFor(m)
    BY <1>5 DEF Complete, inputs
  <2>1. m \in YearMonth
    BY MonthsAreYearMonths
  <2>2. CASE MonthBefore(m, month)
    BY <2>2, <1>4 DEF PlanInv, Complete
  <2>3. CASE m = month
    BY <2>3, <1>4
  <2> QED BY <2>1, <2>2, <2>3, <1>1, <1>2, MonthsAreOrdered
<1>11. ~ MonthBefore(month', MonthIn(start))
  BY <1>1, <1>2, MonthsAreTransitive, MonthsAreOrdered DEF PlanInv
<1>12. Before(start, end)' /\ ~ Selected'
  BY DEF PlanInv, Selected, inputs
<1> QED BY <1>7, <1>8, <1>9, <1>10, <1>11, <1>12 DEF PlanInv, inputs

LEMMA SkipPlanInv == HistoryAssumption /\ PlanInv /\ SkipFuture => PlanInv'
<1> SUFFICES ASSUME HistoryAssumption, PlanInv, SkipFuture PROVE PlanInv'
  OBVIOUS
<1>1. /\ month \in YearMonth /\ current \in YearMonth /\ MonthIn(start) \in YearMonth
  BY MonthInType, MonthsAreYearMonths DEF PlanInv, HistoryTypeOK
<1>2. /\ month' \in YearMonth /\ MonthBefore(month, month')
      /\ \A l \in YearMonth : MonthBefore(l, month') => ~ MonthBefore(month, l)
  BY <1>1, NextMonthFollows DEF SkipFuture
<1>3. \A l : TableFor(l)' = TableFor(l)
  BY DEF TableFor, Hot, Archive, inputs, SkipFuture
<1>4. \A i \in DOMAIN tables : tables[i].month \in YearMonth
  BY TablesHaveMonths DEF PlanInv
<1>5. HistoryTypeOK'
  BY <1>2 DEF PlanInv, HistoryTypeOK, SkipFuture, inputs
<1>6. Sound'
  <2> SUFFICES ASSUME NEW i \in DOMAIN tables
               PROVE  /\ tables[i] = TableFor(tables[i].month)
                      /\ ~ MonthBefore(tables[i].month, MonthIn(start))
                      /\ Before(Midnight(tables[i].month), end)
                      /\ MonthBefore(tables[i].month, month')
    BY <1>3 DEF Sound, SkipFuture, inputs
  <2> QED BY <1>1, <1>2, <1>4, MonthsAreTransitive DEF PlanInv, Sound
<1>7. TablesAscend'
  BY DEF PlanInv, TablesAscend, SkipFuture
<1>8. Complete'
  <2> SUFFICES ASSUME NEW m \in Month, ~ MonthBefore(m, MonthIn(start)),
                      MonthBefore(m, month'), ~ MonthBefore(current, m)
               PROVE  \E i \in DOMAIN tables : tables[i] = TableFor(m)
    BY <1>3 DEF Complete, SkipFuture, inputs
  <2>1. m \in YearMonth
    BY MonthsAreYearMonths
  <2>2. MonthBefore(m, month)
    BY <2>1, <1>1, <1>2, MonthsAreOrdered DEF SkipFuture
  <2> QED BY <2>2 DEF PlanInv, Complete
<1>9. ~ MonthBefore(month', MonthIn(start))
  BY <1>1, <1>2, MonthsAreTransitive, MonthsAreOrdered DEF PlanInv
<1> QED BY <1>5, <1>6, <1>7, <1>8, <1>9 DEF PlanInv, SkipFuture, Selected, inputs

LEMMA FinishPlanInv == HistoryAssumption /\ PlanInv /\ Finish => PlanInv'
<1> SUFFICES ASSUME HistoryAssumption, PlanInv, Finish PROVE PlanInv'
  OBVIOUS
<1> DEFINE Entry == [archive : BOOLEAN, month : YearMonth]
<1>1. tables \in Seq(Entry) /\ \A i \in DOMAIN tables : tables[i].month \in YearMonth
  BY TablesHaveMonths DEF PlanInv, HistoryTypeOK
<1>2. \A i \in 2 .. Len(tables) : tables[i] # tables[i - 1]
  <2> TAKE i \in 2 .. Len(tables)
  <2> HIDE DEF Entry
  <2>1. i \in DOMAIN tables /\ i - 1 \in DOMAIN tables /\ i - 1 < i
    BY <1>1
  <2>2. MonthBefore(tables[i - 1].month, tables[i].month)
    BY <2>1 DEF PlanInv, TablesAscend
  <2> QED BY <2>1, <2>2, <1>1, MonthsAreOrdered
<1>3. tables' = tables
  BY <1>1, <1>2, DedupKeepsDistinct DEF Finish
<1>4. \A l : TableFor(l)' = TableFor(l)
  BY DEF TableFor, Hot, Archive, inputs, Finish
<1>5. HistoryTypeOK'
  BY <1>3 DEF PlanInv, HistoryTypeOK, Finish, inputs
<1>6. Sound' /\ Complete' /\ TablesAscend'
  BY <1>3, <1>4 DEF PlanInv, Sound, Complete, TablesAscend, Finish, inputs
<1>7. (~ MonthBefore(month, MonthIn(start)))' /\ Before(start, end)' /\ ~ Reached'
  BY DEF PlanInv, Finish, Reached, inputs
<1> QED BY <1>5, <1>6, <1>7 DEF PlanInv

(* Every step of the loop keeps the invariant. *)
LEMMA NextPlanInv == HistoryAssumption /\ PlanInv /\ [Next]_vars => PlanInv'
<1> SUFFICES ASSUME HistoryAssumption, PlanInv, [Next]_vars PROVE PlanInv'
  OBVIOUS
<1>1. CASE Check \/ UNCHANGED vars
  <2>1. UNCHANGED <<inputs, month, tables>>
    BY <1>1 DEF Check, vars
  <2>2. \A l : TableFor(l)' = TableFor(l)
    BY <2>1 DEF TableFor, Hot, Archive, inputs
  <2>3. HistoryTypeOK' /\ (Selected' => ~ Reached') /\ (pc' = "loop" \/ Selected' => Before(start, end)')
    BY <1>1 DEF PlanInv, HistoryTypeOK, Check, Selected, Reached, vars, inputs
  <2>4. Sound' /\ Complete' /\ TablesAscend'
    BY <2>1, <2>2 DEF PlanInv, Sound, Complete, TablesAscend, inputs
  <2> QED BY <2>1, <2>3, <2>4 DEF PlanInv, inputs
<1>2. CASE SelectHot
  <2>1. month \in YearMonth /\ current \in YearMonth
    BY MonthsAreYearMonths DEF PlanInv, HistoryTypeOK
  <2>2. ~ MonthBefore(current, month) /\ TableFor(month) = Hot
    BY <1>2, <2>1, MonthsAreOrdered DEF SelectHot, TableFor
  <2> QED BY <1>2, <2>2, SelectPlanInv DEF SelectHot
<1>3. CASE SelectArchive
  <2>1. month \in YearMonth /\ current \in YearMonth
    BY MonthsAreYearMonths DEF PlanInv, HistoryTypeOK
  <2>2. ~ MonthBefore(current, month) /\ TableFor(month) = Archive(month)
    BY <1>3, <2>1, MonthsAreOrdered DEF SelectArchive, TableFor
  <2> QED BY <1>3, <2>2, SelectPlanInv DEF SelectArchive
<1>4. CASE SkipFuture
  BY <1>4, SkipPlanInv
<1>5. CASE Finish
  BY <1>5, FinishPlanInv
<1> QED BY <1>1, <1>2, <1>3, <1>4, <1>5 DEF Next

(* The inductive invariant of select_history_tables, for every range. *)
THEOREM PlanInvariant == Spec => []PlanInv
<1>1. Init => PlanInv
  BY HistoryAssumption, InitPlanInv
<1>2. PlanInv /\ [Next]_vars => PlanInv'
  BY HistoryAssumption, NextPlanInv
<1> QED BY <1>1, <1>2, PTL DEF Spec

LEMMA PlanInvCovers == HistoryAssumption /\ PlanInv /\ Selected => EveryTimeHasItsTable
<1> SUFFICES ASSUME HistoryAssumption, PlanInv, Selected,
                    NEW t \in Time, InRange(t), ~ MonthBefore(current, MonthIn(t))
             PROVE  \E i \in DOMAIN tables : tables[i] = TableFor(MonthIn(t))
  BY DEF EveryTimeHasItsTable
<1>1. MonthIn(t) \in Month /\ MonthIn(t) \in YearMonth /\ month \in YearMonth
  BY MonthInType, MonthsAreYearMonths DEF PlanInv, HistoryTypeOK
<1>2. ~ MonthBefore(MonthIn(t), MonthIn(start))
  BY DEF InRange, Before, MonthBefore, MonthIn
<1>3. MonthBefore(MonthIn(t), month)
  <2>1. t \in Time /\ end \in Time /\ month \in YearMonth
    BY <1>1 DEF PlanInv, HistoryTypeOK
  <2>2. ~ Before(Midnight(month), end) /\ Before(t, end)
    BY DEF PlanInv, InRange, Reached
  <2> QED BY <2>1, <2>2, TimeParts DEF YearMonth, Before, MonthBefore, Midnight, MonthIn
<1> QED BY <1>1, <1>2, <1>3 DEF PlanInv, Complete

LEMMA PlanInvNeeds == HistoryAssumption /\ PlanInv /\ Selected => NoTableForNothing
<1> SUFFICES ASSUME HistoryAssumption, PlanInv, Selected, NEW i \in DOMAIN tables
             PROVE  \E t \in Time : InRange(t) /\ MonthIn(t) = tables[i].month
  BY DEF NoTableForNothing
<1> DEFINE m == tables[i].month
<1>1. m \in YearMonth
  BY TablesHaveMonths DEF PlanInv
<1>2. ~ MonthBefore(m, MonthIn(start)) /\ Before(Midnight(m), end)
  BY DEF PlanInv, Sound
<1>3. start \in Time /\ end \in Time /\ Before(start, end)
  BY DEF PlanInv, HistoryTypeOK
<1> HIDE DEF m
<1>4. CASE MonthIn(start) = m
  <2>1. InRange(start)
    BY <1>3, TimeParts DEF InRange, Before, MonthBefore
  <2> QED BY <1>3, <1>4, <2>1 DEF m
<1>5. CASE MonthIn(start) # m
  <2>1. m.year \in start.year .. end.year
    BY <1>1, <1>2, <1>3, TimeParts DEF YearMonth, Before, MonthBefore, Midnight, MonthIn
  <2>2. m.year \in Years
    BY <1>3, <2>1, TimeParts DEF HistoryAssumption
  <2>3. Midnight(m) \in Time /\ MonthIn(Midnight(m)) = m
    BY <1>1, <2>2 DEF HistoryAssumption, Time, YearMonth, Midnight, MonthIn
  <2>4. ~ Before(Midnight(m), start)
    BY <1>1, <1>2, <1>3, <1>5, TimeParts DEF YearMonth, Before, MonthBefore, Midnight, MonthIn
  <2>5. InRange(Midnight(m))
    BY <1>2, <2>4 DEF InRange
  <2> QED BY <2>3, <2>5 DEF m
<1> QED BY <1>4, <1>5

(* A plan is exact: no time of the range up to the current month is left   *)
(* out, nothing outside it is read, and no table is read twice             *)
(* (PlanIsExact; README.md:288).                                           *)
THEOREM PlansAreExact == Spec => []PlanIsExact
<1>1. PlanInv => PlanIsExact
  <2> SUFFICES ASSUME PlanInv, Selected
               PROVE  EveryTimeHasItsTable /\ NoTableForNothing /\ TablesAscend
    BY DEF PlanIsExact
  <2>1. TablesAscend
    BY DEF PlanInv
  <2> QED BY <2>1, HistoryAssumption, PlanInvCovers, PlanInvNeeds
<1> QED BY <1>1, PlanInvariant, PTL
=============================================================================
