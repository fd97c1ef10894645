--------------------------- MODULE WcsInboxProofs ---------------------------
(***************************************************************************)
(* Proofs about WcsInbox for any number of sessions and events, any        *)
(* assignment of events to devices and times, and any number of faults.    *)
(***************************************************************************)
EXTENDS WcsInbox, FiniteSetTheorems, TLAPS

(* The statements during which a session has an event to process, and      *)
(* those at which it holds the claim of it.                                *)
Busy    == {"claim", "fail"} \cup Working
Holding == {"fail"} \cup Working

(* The sessions at a statement of an event, and how many they are.         *)
At(label, e)    == {p \in Session : pc[p] = label /\ job[p] = e}
Count(label, e) == Cardinality(At(label, e))

(* Whether a claim of the event can still succeed.                         *)
Open(e) == IF status[e] \in {"processing", "processed"} THEN 0 ELSE 1

(* A session works on an event that has arrived.                           *)
JobInv ==
  /\ \A p \in Session : pc[p] \in Busy => job[p] \in Arrived
  /\ \A p \in Session : ids[p] \subseteq Arrived

(* Until a claim fails, whoever holds an event finds it in processing, so  *)
(* nobody else can claim it.                                               *)
OwnerInv ==
  faults["claim"] = 0 =>
    /\ \A p \in Session : pc[p] \in Holding => status[job[p]] = "processing"
    /\ \A p, q \in Session :
         pc[p] \in Holding /\ pc[q] \in Holding /\ job[p] = job[q] => p = q

(* A session that has passed the history statement has left a row.         *)
ProgressInv ==
  /\ \A p \in Session : pc[p] \in {"realtime", "mark"} => history[job[p]] > 0
  /\ StatusMeansProgress

(* A row of an event was inserted, will be, or may be: by a session before *)
(* its history statement, by whoever claims an open event next, or after a *)
(* handler has opened it again. Only a statement that fails adds to these. *)
Bounds(e) ==
  /\ history[e] + Count("history", e) <= attempts[e]
  /\ history[e] + Count("history", e) + Count("fail", e) + Open(e)
       <= 1 + faults["statement"] + faults["claim"]

CountInv == \A e \in Event : Bounds(e)

InboxInv ==
  /\ InboxTypeOK
  /\ JobInv
  /\ OwnerInv
  /\ ProgressInv
  /\ CountInv
  /\ RealtimeBackedByHistory
-----------------------------------------------------------------------------
(* The steps of the system. *)
LEMMA StepCases ==
  ASSUME [Next]_vars
  PROVE  \/ \E e \in Event : DirectWrite(e)
         \/ \E p \in Session : \E e \in Event : Submit(p, e)
         \/ \E p \in Session : StartBatch(p)
         \/ \E p \in Session : Fetch(p)
         \/ \E p \in Session : Claim(p)
         \/ \E p \in Session : MapError(p)
         \/ \E p \in Session : InsertHistory(p)
         \/ \E p \in Session : UpsertRealtime(p)
         \/ \E p \in Session : Mark(p)
         \/ \E p \in Session : Fail(p)
         \/ \E p \in Session : StatementError(p)
         \/ \E p \in Session : ClaimError(p)
         \/ \E p \in Session : Crash(p)
         \/ UNCHANGED vars
BY DEF Next, Statement

LEMMA PointOfEvent == \A e \in Event : PointOf[e] \in Point
BY DEF Point

LEMMA UpsertTypes ==
  ASSUME NEW row \in Row, NEW e \in Event
  PROVE  WcsUpsert(row, TimeOf[e], ActiveOf[e]) \in Row
<1>1. TimeOf[e] \in Nat /\ TimeOf[e] # 0 /\ ActiveOf[e] \in BOOLEAN
  BY InboxAssumption DEF InboxAssumption
<1>2. Inserted(TimeOf[e], ActiveOf[e]) \in Row
  BY <1>1 DEF Inserted, Begins, Row
<1>3. CASE row.exists
  <2>1. row.count + Begins(row.alarm, ActiveOf[e]) \in Nat
    BY DEF Row, Begins
  <2>2. ActiveOf[e] => row.count + Begins(row.alarm, ActiveOf[e]) > 0
    BY DEF Row, Begins
  <2> QED BY <1>1, <1>3, <2>1, <2>2 DEF WcsUpsert, Replaced, Row
<1> QED BY <1>2, <1>3 DEF WcsUpsert

LEMMA TypeStep ==
  ASSUME InboxTypeOK, JobInv, [Next]_vars
  PROVE  InboxTypeOK'
<1> USE DEF InboxTypeOK, Working, inboxVars, sessionVars, tableVars, Goto
<1>1. CASE \E e \in Event : DirectWrite(e)
  BY <1>1 DEF DirectWrite
<1>2. CASE \E p \in Session : \E e \in Event : Submit(p, e)
  BY <1>2 DEF Submit
<1>3. CASE \E p \in Session : StartBatch(p)
  BY <1>3 DEF StartBatch, Ready
<1>4. CASE \E p \in Session : Fetch(p)
  BY <1>4 DEF Fetch
<1>5. CASE \E p \in Session : Claim(p)
  BY <1>5 DEF Claim
<1>6. CASE \E p \in Session : MapError(p)
  BY <1>6 DEF MapError
<1>7. CASE \E p \in Session : InsertHistory(p)
  <2>1. PICK p \in Session : InsertHistory(p)
    BY <1>7
  <2>2. job[p] \in Event /\ history[job[p]] + 1 \in Nat
    BY <2>1 DEF InsertHistory, JobInv, Busy, Arrived
  <2>3. history' \in [Event -> Nat]
    BY <2>1, <2>2 DEF InsertHistory
  <2> QED BY <2>1, <2>3 DEF InsertHistory
<1>8. CASE \E p \in Session : UpsertRealtime(p)
  <2>1. PICK p \in Session : UpsertRealtime(p)
    BY <1>8
  <2>2. job[p] \in Event
    BY <2>1 DEF UpsertRealtime, JobInv, Busy, Arrived
  <2>3. WcsUpsert(realtime[PointOf[job[p]]], TimeOf[job[p]], ActiveOf[job[p]]) \in Row
    BY <2>2, PointOfEvent, UpsertTypes
  <2>4. realtime' \in [Point -> Row]
    BY <2>1, <2>3 DEF UpsertRealtime
  <2> QED BY <2>1, <2>4 DEF UpsertRealtime
<1>9. CASE \E p \in Session : Mark(p)
  <2>1. PICK p \in Session : Mark(p)
    BY <1>9
  <2>2. status' \in [Event -> {"absent", "pending", "processing", "processed", "failed"}]
    BY <2>1 DEF Mark
  <2> QED BY <2>1, <2>2 DEF Mark
<1>10. CASE \E p \in Session : Fail(p)
  BY <1>10 DEF Fail
<1>11. CASE \E p \in Session : StatementError(p)
  BY <1>11 DEF StatementError, Fault, InboxFault
<1>12. CASE \E p \in Session : ClaimError(p)
  BY <1>12 DEF ClaimError, Fault, InboxFault
<1>13. CASE \E p \in Session : Crash(p)
  BY <1>13 DEF Crash, Fault, InboxFault
<1>14. CASE UNCHANGED vars
  BY <1>14 DEF vars
<1> QED
  BY <1>1, <1>2, <1>3, <1>4, <1>5, <1>6, <1>7, <1>8, <1>9, <1>10, <1>11, <1>12, <1>13,
     <1>14, StepCases

LEMMA JobStep ==
  ASSUME InboxTypeOK, JobInv, [Next]_vars
  PROVE  JobInv'
<1> USE DEF InboxTypeOK, JobInv, Arrived, Busy, Working, inboxVars, sessionVars, Goto
<1>1. CASE \E e \in Event : DirectWrite(e)
  BY <1>1 DEF DirectWrite
<1>2. CASE \E p \in Session : \E e \in Event : Submit(p, e)
  BY <1>2 DEF Submit
<1>3. CASE \E p \in Session : StartBatch(p)
  BY <1>3 DEF StartBatch, Ready
<1>4. CASE \E p \in Session : Fetch(p)
  BY <1>4 DEF Fetch
<1>5. CASE \E p \in Session : Claim(p)
  BY <1>5 DEF Claim
<1>6. CASE \E p \in Session : MapError(p)
  BY <1>6 DEF MapError
<1>7. CASE \E p \in Session : InsertHistory(p)
  BY <1>7 DEF InsertHistory
<1>8. CASE \E p \in Session : UpsertRealtime(p)
  BY <1>8 DEF UpsertRealtime
<1>9. CASE \E p \in Session : Mark(p)
  BY <1>9 DEF Mark
<1>10. CASE \E p \in Session : Fail(p)
  BY <1>10 DEF Fail
<1>11. CASE \E p \in Session : StatementError(p)
  BY <1>11 DEF StatementError
<1>12. CASE \E p \in Session : ClaimError(p)
  BY <1>12 DEF ClaimError
<1>13. CASE \E p \in Session : Crash(p)
  BY <1>13 DEF Crash
<1>14. CASE UNCHANGED vars
  BY <1>14 DEF vars
<1> QED
  BY <1>1, <1>2, <1>3, <1>4, <1>5, <1>6, <1>7, <1>8, <1>9, <1>10, <1>11, <1>12, <1>13,
     <1>14, StepCases

(* Who holds an event found it claimed, and is the only one. *)
LEMMA OwnerStep ==
  ASSUME InboxTypeOK, JobInv, OwnerInv, [Next]_vars
  PROVE  OwnerInv'
<1> USE DEF InboxTypeOK, JobInv, OwnerInv, Arrived, Busy, Holding, Working, inboxVars,
            sessionVars, tableVars, Goto
<1>1. CASE \E e \in Event : DirectWrite(e)
  BY <1>1 DEF DirectWrite, IsNext
<1>2. CASE \E p \in Session : \E e \in Event : Submit(p, e)
  BY <1>2 DEF Submit, IsNext
<1>3. CASE \E p \in Session : StartBatch(p)
  BY <1>3 DEF StartBatch
<1>4. CASE \E p \in Session : Fetch(p)
  BY <1>4 DEF Fetch
<1>5. CASE \E p \in Session : Claim(p)
  BY <1>5 DEF Claim
<1>6. CASE \E p \in Session : MapError(p)
  BY <1>6 DEF MapError
<1>7. CASE \E p \in Session : InsertHistory(p)
  BY <1>7 DEF InsertHistory
<1>8. CASE \E p \in Session : UpsertRealtime(p)
  BY <1>8 DEF UpsertRealtime
<1>9. CASE \E p \in Session : Mark(p)
  BY <1>9 DEF Mark
<1>10. CASE \E p \in Session : Fail(p)
  BY <1>10 DEF Fail
<1>11. CASE \E p \in Session : StatementError(p)
  BY <1>11 DEF StatementError, Fault, InboxFault
<1>12. CASE \E p \in Session : ClaimError(p)
  BY <1>12 DEF ClaimError, Fault, InboxFault
<1>13. CASE \E p \in Session : Crash(p)
  BY <1>13 DEF Crash, Fault, InboxFault
<1>14. CASE UNCHANGED vars
  BY <1>14 DEF vars
<1> QED
  BY <1>1, <1>2, <1>3, <1>4, <1>5, <1>6, <1>7, <1>8, <1>9, <1>10, <1>11, <1>12, <1>13,
     <1>14, StepCases

(* History rows are only added, and a mark follows an insert. *)
LEMMA ProgressStep ==
  ASSUME InboxTypeOK, JobInv, ProgressInv, [Next]_vars
  PROVE  ProgressInv'
<1> USE DEF InboxTypeOK, JobInv, ProgressInv, StatusMeansProgress, Arrived, Busy, Working,
            inboxVars, sessionVars, tableVars, Goto
<1>1. CASE \E e \in Event : DirectWrite(e)
  BY <1>1 DEF DirectWrite, IsNext
<1>2. CASE \E p \in Session : \E e \in Event : Submit(p, e)
  BY <1>2 DEF Submit, IsNext
<1>3. CASE \E p \in Session : StartBatch(p)
  BY <1>3 DEF StartBatch
<1>4. CASE \E p \in Session : Fetch(p)
  BY <1>4 DEF Fetch
<1>5. CASE \E p \in Session : Claim(p)
  BY <1>5 DEF Claim
<1>6. CASE \E p \in Session : MapError(p)
  BY <1>6 DEF MapError
<1>7. CASE \E p \in Session : InsertHistory(p)
  BY <1>7 DEF InsertHistory
<1>8. CASE \E p \in Session : UpsertRealtime(p)
  BY <1>8 DEF UpsertRealtime
<1>9. CASE \E p \in Session : Mark(p)
  BY <1>9 DEF Mark
<1>10. CASE \E p \in Session : Fail(p)
  BY <1>10 DEF Fail
<1>11. CASE \E p \in Session : StatementError(p)
  BY <1>11 DEF StatementError, Fault, InboxFault
<1>12. CASE \E p \in Session : ClaimError(p)
  BY <1>12 DEF ClaimError, Fault, InboxFault
<1>13. CASE \E p \in Session : Crash(p)
  BY <1>13 DEF Crash, Fault, InboxFault
<1>14. CASE UNCHANGED vars
  BY <1>14 DEF vars
<1> QED
  BY <1>1, <1>2, <1>3, <1>4, <1>5, <1>6, <1>7, <1>8, <1>9, <1>10, <1>11, <1>12, <1>13,
     <1>14, StepCases

(* History rows stay, and only the upsert of an inserted event writes a    *)
(* realtime row.                                                           *)
LEMMA BackedStep ==
  ASSUME InboxTypeOK, JobInv, ProgressInv, RealtimeBackedByHistory, [Next]_vars
  PROVE  RealtimeBackedByHistory'
<1>1. CASE \E p \in Session : UpsertRealtime(p)
  <2>1. PICK p \in Session : UpsertRealtime(p)
    BY <1>1
  <2>2. job[p] \in Event /\ history[job[p]] > 0 /\ history' = history
    BY <2>1 DEF UpsertRealtime, JobInv, ProgressInv, Busy, Working, Arrived
  <2> DEFINE n == PointOf[job[p]]
             row == WcsUpsert(realtime[n], TimeOf[job[p]], ActiveOf[job[p]])
  <2>3. row.at = TimeOf[job[p]] /\ row.alarm = ActiveOf[job[p]]
    BY DEF WcsUpsert, Inserted, Replaced
  <2>4. realtime' = [realtime EXCEPT ![n] = row] /\ DOMAIN realtime = Point
    BY <2>1 DEF UpsertRealtime, InboxTypeOK
  <2> HIDE DEF row
  <2>5. ASSUME NEW m \in Point, m # n
        PROVE  realtime'[m] = realtime[m]
    BY <2>4, <2>5
  <2>6. realtime'[n] = row
    BY <2>2, <2>4, PointOfEvent
  <2> QED BY <2>2, <2>3, <2>5, <2>6 DEF RealtimeBackedByHistory
<1>2. CASE \E p \in Session : InsertHistory(p)
  <2>1. PICK p \in Session : InsertHistory(p)
    BY <1>2
  <2>2. realtime' = realtime /\ history' = [history EXCEPT ![job[p]] = @ + 1]
    BY <2>1 DEF InsertHistory
  <2>3. \A e \in Event : history[e] > 0 => history'[e] > 0
    BY <2>2 DEF InboxTypeOK
  <2> QED BY <2>2, <2>3 DEF RealtimeBackedByHistory
<1>3. CASE UNCHANGED tableVars
  BY <1>3 DEF tableVars, RealtimeBackedByHistory
<1>4. (\E p \in Session : UpsertRealtime(p) \/ InsertHistory(p)) \/ UNCHANGED tableVars
  BY DEF Next, Statement, vars, DirectWrite, Submit, StartBatch, Fetch, Claim, MapError, Mark,
         Fail, StatementError, ClaimError, Crash
<1> QED BY <1>1, <1>2, <1>3, <1>4
-----------------------------------------------------------------------------
(* When one session moves on, it is counted where it arrives and no longer *)
(* where it was.                                                           *)
LEMMA CountNat ==
  ASSUME NEW label, NEW e
  PROVE  IsFiniteSet(At(label, e)) /\ Count(label, e) \in Nat
BY InboxAssumption, FS_Subset, FS_CardinalityType DEF InboxAssumption, At, Count

LEMMA Moves ==
  ASSUME InboxTypeOK, NEW p \in Session, NEW to, Goto(p, to), NEW e, NEW label,
         job'[p] = job[p], \A q \in Session \ {p} : job'[q] = job[q]
  PROVE  /\ job[p] = e /\ pc[p] = label /\ to # label => Count(label, e)' = Count(label, e) - 1
         /\ job[p] = e /\ pc[p] # label /\ to = label => Count(label, e)' = Count(label, e) + 1
         /\ job[p] # e \/ (pc[p] = label <=> to = label) => Count(label, e)' = Count(label, e)
<1> DEFINE S == At(label, e)
           T == At(label, e)'
<1>1. IsFiniteSet(S) /\ Cardinality(S) \in Nat
  BY CountNat DEF Count
<1>2. pc'[p] = to /\ \A q \in Session \ {p} : pc'[q] = pc[q]
  BY DEF Goto, InboxTypeOK
<1>3. job[p] = e /\ pc[p] = label /\ to # label => p \in S /\ T = S \ {p}
  BY <1>2 DEF At
<1>4. job[p] = e /\ pc[p] # label /\ to = label => p \notin S /\ T = S \cup {p}
  BY <1>2 DEF At
<1>5. job[p] # e \/ (pc[p] = label <=> to = label) => T = S
  BY <1>2 DEF At
<1>6. Cardinality(S \ {p}) = (IF p \in S THEN Cardinality(S) - 1 ELSE Cardinality(S))
  BY <1>1, FS_RemoveElement
<1>7. Cardinality(S \cup {p}) = (IF p \in S THEN Cardinality(S) ELSE Cardinality(S) + 1)
  BY <1>1, FS_AddElement
<1>8. Count(label, e) = Cardinality(S) /\ Count(label, e)' = Cardinality(T)
  BY DEF Count
<1> HIDE DEF S, T
<1> QED BY <1>3, <1>4, <1>5, <1>6, <1>7, <1>8

LEMMA StaysOut ==
  ASSUME InboxTypeOK, NEW p \in Session, NEW e,
         pc[p] \notin {"history", "fail"}, pc'[p] \notin {"history", "fail"},
         \A q \in Session \ {p} : pc'[q] = pc[q] /\ job'[q] = job[q]
  PROVE  Count("history", e)' = Count("history", e) /\ Count("fail", e)' = Count("fail", e)
<1>1. At("history", e)' = At("history", e) /\ At("fail", e)' = At("fail", e)
  BY DEF At
<1> QED BY <1>1 DEF Count

LEMMA CountTypes ==
  ASSUME InboxTypeOK, NEW e \in Event
  PROVE  /\ history[e] \in Nat /\ attempts[e] \in Nat
         /\ faults["statement"] \in Nat /\ faults["claim"] \in Nat
         /\ Count("history", e) \in Nat /\ Count("fail", e) \in Nat
         /\ Open(e) \in {0, 1}
BY CountNat DEF InboxTypeOK, InboxFault, Open

LEMMA OutsideStep ==
  ASSUME InboxTypeOK, NEW e \in Event, Bounds(e), NEW p \in Session,
         pc[p] \notin {"history", "fail"}, pc'[p] \notin {"history", "fail"},
         \A q \in Session \ {p} : pc'[q] = pc[q] /\ job'[q] = job[q],
         UNCHANGED <<attempts, history, faults>>,
         Open(e)' <= Open(e)
  PROVE  Bounds(e)'
<1>1. Count("history", e)' = Count("history", e) /\ Count("fail", e)' = Count("fail", e)
  BY StaysOut
<1>2. Open(e)' \in {0, 1}
  BY DEF Open
<1> QED BY <1>1, <1>2, CountTypes DEF Bounds

LEMMA CountStep ==
  ASSUME InboxTypeOK, JobInv, CountInv, [Next]_vars
  PROVE  CountInv'
<1> SUFFICES ASSUME NEW e \in Event, Bounds(e) PROVE Bounds(e)'
  BY DEF CountInv
<1> USE DEF inboxVars, sessionVars, tableVars
<1>0. /\ history[e] \in Nat /\ attempts[e] \in Nat
      /\ faults["statement"] \in Nat /\ faults["claim"] \in Nat
      /\ Count("history", e) \in Nat /\ Count("fail", e) \in Nat
      /\ Open(e) \in {0, 1}
  BY CountTypes
<1>1. CASE \E d \in Event : DirectWrite(d)
  <2>1. UNCHANGED <<pc, job, attempts, history, faults>> /\ Open(e)' <= Open(e)
    BY <1>1 DEF DirectWrite, IsNext, Arrived, InboxTypeOK, Open
  <2>2. Count("history", e)' = Count("history", e) /\ Count("fail", e)' = Count("fail", e)
    BY <2>1 DEF Count, At
  <2>3. Open(e)' \in {0, 1}
    BY DEF Open
  <2> QED BY <1>0, <2>1, <2>2, <2>3 DEF Bounds
<1>2. CASE \E p \in Session : \E d \in Event : Submit(p, d)
  <2>1. PICK p \in Session, d \in Event : Submit(p, d)
    BY <1>2
  <2>2. Open(e)' <= Open(e)
    BY <2>1 DEF Submit, IsNext, Arrived, InboxTypeOK, Open
  <2>3. /\ pc[p] = "free" /\ pc'[p] = "claim"
        /\ \A q \in Session \ {p} : pc'[q] = pc[q] /\ job'[q] = job[q]
        /\ UNCHANGED <<attempts, history, faults>>
    BY <2>1 DEF Submit, Goto, InboxTypeOK
  <2> QED BY <2>2, <2>3, OutsideStep
<1>3. CASE \E p \in Session : StartBatch(p)
  <2>1. PICK p \in Session : StartBatch(p)
    BY <1>3
  <2>2. Open(e)' <= Open(e)
    BY <1>0, <2>1 DEF StartBatch, Open
  <2>3. /\ pc[p] = "free" /\ pc'[p] = "fetch"
        /\ \A q \in Session \ {p} : pc'[q] = pc[q] /\ job'[q] = job[q]
        /\ UNCHANGED <<attempts, history, faults>>
    BY <2>1 DEF StartBatch, Goto, InboxTypeOK
  <2> QED BY <2>2, <2>3, OutsideStep
<1>4. CASE \E p \in Session : Fetch(p)
  <2>1. PICK p \in Session : Fetch(p)
    BY <1>4
  <2>2. Open(e)' <= Open(e)
    BY <1>0, <2>1 DEF Fetch, Open
  <2>3. /\ pc[p] = "fetch" /\ pc'[p] \in {"free", "claim"}
        /\ \A q \in Session \ {p} : pc'[q] = pc[q] /\ job'[q] = job[q]
        /\ UNCHANGED <<attempts, history, faults>>
    BY <2>1 DEF Fetch, Goto, InboxTypeOK
  <2> QED BY <2>2, <2>3, OutsideStep
<1>5. CASE \E p \in Session : Claim(p)
  <2>1. PICK p \in Session : Claim(p)
    BY <1>5
  <2>2. CASE status[job[p]] \in {"pending", "failed"}
    <3>1. /\ pc[p] = "claim" /\ Goto(p, "history") /\ UNCHANGED <<job, history, faults>>
          /\ status' = [status EXCEPT ![job[p]] = "processing"]
          /\ attempts' = [attempts EXCEPT ![job[p]] = @ + 1]
      BY <2>1, <2>2 DEF Claim
    <3>2. Count("fail", e)' = Count("fail", e)
      BY <3>1, Moves
    <3>3. CASE job[p] = e
      <4>1. Count("history", e)' = Count("history", e) + 1
        BY <3>1, <3>3, Moves
      <4>2. Open(e) = 1 /\ Open(e)' = 0
        BY <2>2, <3>1, <3>3 DEF Open, InboxTypeOK
      <4>3. attempts'[e] = attempts[e] + 1
        BY <3>1, <3>3 DEF InboxTypeOK
      <4> QED BY <1>0, <3>1, <3>2, <4>1, <4>2, <4>3 DEF Bounds
    <3>4. CASE job[p] # e
      <4>1. Count("history", e)' = Count("history", e)
        BY <3>1, <3>4, Moves
      <4>2. Open(e)' = Open(e)
        BY <3>1, <3>4 DEF Open, InboxTypeOK
      <4>3. attempts'[e] = attempts[e]
        BY <3>1, <3>4 DEF InboxTypeOK
      <4> QED BY <1>0, <3>1, <3>2, <4>1, <4>2, <4>3 DEF Bounds
    <3> QED BY <3>3, <3>4
  <2>3. CASE status[job[p]] \notin {"pending", "failed"}
    <3>1. Open(e)' <= Open(e)
      BY <1>0, <2>1, <2>3 DEF Claim, Open
    <3>2. /\ pc[p] = "claim" /\ pc'[p] = "fetch"
          /\ \A q \in Session \ {p} : pc'[q] = pc[q] /\ job'[q] = job[q]
          /\ UNCHANGED <<attempts, history, faults>>
      BY <2>1, <2>3 DEF Claim, Goto, InboxTypeOK
    <3> QED BY <3>1, <3>2, OutsideStep
  <2> QED BY <2>2, <2>3
<1>6. CASE \E p \in Session : MapError(p)
  <2>1. PICK p \in Session : MapError(p)
    BY <1>6
  <2>2. /\ pc[p] = "history" /\ Goto(p, "fail")
        /\ UNCHANGED <<status, attempts, job, history, faults>>
    BY <2>1 DEF MapError
  <2>3. Count("history", e)' + Count("fail", e)' = Count("history", e) + Count("fail", e)
    BY <1>0, <2>2, Moves
  <2>4. /\ Count("history", e)' \in Int /\ Count("history", e)' <= Count("history", e)
        /\ Count("fail", e)' \in Int
    BY <1>0, <2>2, Moves
  <2>5. Open(e)' = Open(e)
    BY <2>2 DEF Open
  <2> QED BY <1>0, <2>2, <2>3, <2>4, <2>5 DEF Bounds
<1>7. CASE \E p \in Session : InsertHistory(p)
  <2>1. PICK p \in Session : InsertHistory(p)
    BY <1>7
  <2>2. /\ pc[p] = "history" /\ Goto(p, "realtime") /\ UNCHANGED <<status, attempts, job, faults>>
        /\ history' = [history EXCEPT ![job[p]] = @ + 1]
    BY <2>1 DEF InsertHistory
  <2>3. Count("fail", e)' = Count("fail", e) /\ Open(e)' = Open(e)
    BY <2>2, Moves DEF Open
  <2>4. history'[e] + Count("history", e)' = history[e] + Count("history", e)
    <3>1. CASE job[p] = e
      <4>1. Count("history", e)' = Count("history", e) - 1
        BY <2>2, <3>1, Moves
      <4>2. history'[e] = history[e] + 1
        BY <2>2, <3>1 DEF InboxTypeOK
      <4> QED BY <1>0, <4>1, <4>2
    <3>2. CASE job[p] # e
      <4>1. Count("history", e)' = Count("history", e)
        BY <2>2, <3>2, Moves
      <4>2. history'[e] = history[e]
        BY <2>2, <3>2 DEF InboxTypeOK
      <4> QED BY <4>1, <4>2
    <3> QED BY <3>1, <3>2
  <2> QED BY <2>2, <2>3, <2>4 DEF Bounds
<1>8. CASE \E p \in Session : UpsertRealtime(p)
  <2>1. PICK p \in Session : UpsertRealtime(p)
    BY <1>8
  <2>2. Open(e)' <= Open(e)
    BY <1>0, <2>1 DEF UpsertRealtime, Open
  <2>3. /\ pc[p] = "realtime" /\ pc'[p] = "mark"
        /\ \A q \in Session \ {p} : pc'[q] = pc[q] /\ job'[q] = job[q]
        /\ UNCHANGED <<attempts, history, faults>>
    BY <2>1 DEF UpsertRealtime, Goto, InboxTypeOK
  <2> QED BY <2>2, <2>3, OutsideStep
<1>9. CASE \E p \in Session : Mark(p)
  <2>1. PICK p \in Session : Mark(p)
    BY <1>9
  <2>2. Open(e)' <= Open(e)
    BY <2>1 DEF Mark, Open, InboxTypeOK
  <2>3. /\ pc[p] = "mark" /\ pc'[p] = "fetch"
        /\ \A q \in Session \ {p} : pc'[q] = pc[q] /\ job'[q] = job[q]
        /\ UNCHANGED <<attempts, history, faults>>
    BY <2>1 DEF Mark, Goto, InboxTypeOK
  <2> QED BY <2>2, <2>3, OutsideStep
<1>10. CASE \E p \in Session : Fail(p)
  <2>1. PICK p \in Session : Fail(p)
    BY <1>10
  <2>2. /\ pc[p] = "fail" /\ Goto(p, "fetch") /\ UNCHANGED <<attempts, job, history, faults>>
        /\ status' = [status EXCEPT ![job[p]] = "failed"]
    BY <2>1 DEF Fail
  <2>3. Count("history", e)' = Count("history", e)
    BY <2>2, Moves
  <2>4. Count("fail", e)' + Open(e)' <= Count("fail", e) + Open(e)
    <3>1. CASE job[p] = e
      <4>1. Count("fail", e)' = Count("fail", e) - 1
        BY <2>2, <3>1, Moves
      <4>2. Open(e)' \in {0, 1}
        BY DEF Open
      <4> QED BY <1>0, <4>1, <4>2
    <3>2. CASE job[p] # e
      <4>1. Count("fail", e)' = Count("fail", e)
        BY <2>2, <3>2, Moves
      <4>2. Open(e)' = Open(e)
        BY <2>2, <3>2 DEF Open, InboxTypeOK
      <4> QED BY <1>0, <4>1, <4>2
    <3> QED BY <3>1, <3>2
  <2>5. Count("fail", e)' \in Int /\ Open(e)' \in {0, 1}
    BY <1>0, <2>2, Moves DEF Open
  <2> QED BY <1>0, <2>2, <2>3, <2>4, <2>5 DEF Bounds
<1>11. CASE \E p \in Session : StatementError(p)
  <2>1. PICK p \in Session : StatementError(p)
    BY <1>11
  <2>2. /\ pc[p] \in Working /\ Goto(p, "fail") /\ UNCHANGED <<status, attempts, job, history>>
        /\ faults' = [faults EXCEPT !["statement"] = @ + 1]
    BY <2>1 DEF StatementError, Fault
  <2>3. Count("history", e)' \in Int /\ Count("history", e)' <= Count("history", e)
    BY <1>0, <2>2, Moves
  <2>4. Count("fail", e)' \in Int /\ Count("fail", e)' <= Count("fail", e) + 1
    BY <1>0, <2>2, Moves
  <2>5. Open(e)' = Open(e)
    BY <2>2 DEF Open
  <2>6. faults'["statement"] = faults["statement"] + 1 /\ faults'["claim"] = faults["claim"]
    BY <2>2 DEF InboxTypeOK, InboxFault
  <2> QED BY <1>0, <2>2, <2>3, <2>4, <2>5, <2>6 DEF Bounds
<1>12. CASE \E p \in Session : ClaimError(p)
  <2>1. PICK p \in Session : ClaimError(p)
    BY <1>12
  <2>2. /\ pc[p] = "claim" /\ Goto(p, "fail") /\ UNCHANGED <<status, attempts, job, history>>
        /\ faults' = [faults EXCEPT !["claim"] = @ + 1]
    BY <2>1 DEF ClaimError, Fault
  <2>3. Count("history", e)' = Count("history", e)
    BY <2>2, Moves
  <2>4. Count("fail", e)' \in Int /\ Count("fail", e)' <= Count("fail", e) + 1
    BY <1>0, <2>2, Moves
  <2>5. Open(e)' = Open(e)
    BY <2>2 DEF Open
  <2>6. faults'["statement"] = faults["statement"] /\ faults'["claim"] = faults["claim"] + 1
    BY <2>2 DEF InboxTypeOK, InboxFault
  <2> QED BY <1>0, <2>2, <2>3, <2>4, <2>5, <2>6 DEF Bounds
<1>13. CASE \E p \in Session : Crash(p)
  <2>1. PICK p \in Session : Crash(p)
    BY <1>13
  <2>2. /\ Goto(p, "free") /\ UNCHANGED <<status, attempts, job, history>>
        /\ faults' = [faults EXCEPT !["crash"] = @ + 1]
    BY <2>1 DEF Crash, Fault
  <2>3. Count("history", e)' \in Int /\ Count("history", e)' <= Count("history", e)
    BY <1>0, <2>2, Moves
  <2>4. Count("fail", e)' \in Int /\ Count("fail", e)' <= Count("fail", e)
    BY <1>0, <2>2, Moves
  <2>5. Open(e)' = Open(e)
    BY <2>2 DEF Open
  <2>6. faults'["statement"] = faults["statement"] /\ faults'["claim"] = faults["claim"]
    BY <2>2 DEF InboxTypeOK, InboxFault
  <2> QED BY <1>0, <2>2, <2>3, <2>4, <2>5, <2>6 DEF Bounds
<1>14. CASE UNCHANGED vars
  BY <1>14 DEF vars, Bounds, Count, At, Open
<1> QED
  BY <1>1, <1>2, <1>3, <1>4, <1>5, <1>6, <1>7, <1>8, <1>9, <1>10, <1>11, <1>12, <1>13,
     <1>14, StepCases

LEMMA InitStep == Init => InboxInv
<1> SUFFICES ASSUME Init PROVE InboxInv
  OBVIOUS
<1> USE DEF Init
<1>1. InboxTypeOK
  BY DEF InboxTypeOK, Row, Absent, InboxFault
<1>2. JobInv /\ OwnerInv /\ ProgressInv
  BY DEF JobInv, OwnerInv, ProgressInv, StatusMeansProgress, Busy, Holding, Working
<1>3. CountInv
  <2> SUFFICES ASSUME NEW e \in Event PROVE Bounds(e)
    BY DEF CountInv
  <2>1. At("history", e) = {} /\ At("fail", e) = {}
    BY DEF At
  <2>2. Count("history", e) = 0 /\ Count("fail", e) = 0
    BY <2>1, FS_EmptySet DEF Count
  <2> QED BY <2>2 DEF Bounds, Open, InboxFault
<1>4. RealtimeBackedByHistory
  BY DEF RealtimeBackedByHistory
<1> QED BY <1>1, <1>2, <1>3, <1>4 DEF InboxInv

(* The inductive invariant: the sessions agree with the statuses of the    *)
(* events they work on, and every history row is accounted for.            *)
THEOREM InboxInvariant == Spec => []InboxInv
<1>1. InboxInv /\ [Next]_vars => InboxInv'
  BY TypeStep, JobStep, OwnerStep, ProgressStep, CountStep, BackedStep DEF InboxInv
<1> QED BY <1>1, InitStep, PTL DEF Spec
-----------------------------------------------------------------------------
(* The tables and the sessions hold what their columns and labels may hold *)
(* (device_realtime_status and the ENUM of process_status).                *)
THEOREM InboxTypes == Spec => []InboxTypeOK
<1>1. InboxInv => InboxTypeOK
  BY DEF InboxInv
<1> QED BY <1>1, InboxInvariant, PTL

(* No two sessions process one event at a time unless a claim has failed   *)
(* (the claiming UPDATE of sp_process_wcs_alarm_event).                    *)
THEOREM ClaimIsExclusive == Spec => []OneOwner
<1>1. InboxInv => OneOwner
  BY DEF InboxInv, OwnerInv, OneOwner, Holding
<1> QED BY <1>1, InboxInvariant, PTL

(* An event has at most one history row plus one for each statement that   *)
(* failed, and at most one for each attempt, whoever submits it, however   *)
(* often, and whatever crashes.                                            *)
THEOREM HistoryRowsAreBounded == Spec => []OnceUnlessStatementsFail
<1>1. ASSUME InboxInv, NEW e \in Event
      PROVE  /\ history[e] <= 1 + faults["statement"] + faults["claim"]
             /\ history[e] <= attempts[e]
  BY <1>1, CountTypes DEF InboxInv, CountInv, Bounds
<1>2. InboxInv => OnceUnlessStatementsFail
  BY <1>1 DEF OnceUnlessStatementsFail
<1> QED BY <1>2, InboxInvariant, PTL

(* A processed event has a history row, and one in processing has a        *)
(* session at work on it unless a session was lost.                        *)
THEOREM StatusIsHonest == Spec => []StatusMeansProgress
<1>1. InboxInv => StatusMeansProgress
  BY DEF InboxInv, ProgressInv
<1> QED BY <1>1, InboxInvariant, PTL

(* Every realtime row can be traced back to an event in the history.       *)
THEOREM RealtimeIsBacked == Spec => []RealtimeBackedByHistory
<1>1. InboxInv => RealtimeBackedByHistory
  BY DEF InboxInv
<1> QED BY <1>1, InboxInvariant, PTL
=============================================================================
