-------------------------- MODULE SinkWorkerProofs --------------------------
(***************************************************************************)
(* Proofs about SinkWorker for any number of samples, any tables, routing  *)
(* and capacities, and any number of faults.                               *)
(***************************************************************************)
EXTENDS SinkWorker, FiniteSetTheorems, WellFoundedInduction, TLAPS

(* The current group is part of the batch and depends on the batch only. *)
LEMMA GroupFacts ==
  /\ Group \subseteq todo
  /\ Group' \subseteq todo'
  /\ todo' = todo => Group' = Group
BY DEF Group

(* A set of samples is finite, so its size is a number.                    *)
LEMMA SampleFinite ==
  ASSUME NEW S \in SUBSET Sample
  PROVE  IsFiniteSet(S) /\ Cardinality(S) \in Nat
<1>1. IsFiniteSet(Sample)
  BY SinkAssumption, FS_Interval DEF SinkAssumption, Sample
<1> QED
  BY <1>1, FS_Subset, FS_CardinalityType

(* Counting a fault keeps the fault counters natural numbers.              *)
LEMMA FaultType ==
  ASSUME faults \in [FaultKind -> Nat], NEW kind \in FaultKind, Fault(kind)
  PROVE  faults' \in [FaultKind -> Nat]
BY DEF Fault

-----------------------------------------------------------------------------
(* Every variable keeps its type (TypeOK): initially, and at every step. *)

(* Initially every variable has its type.                                  *)
LEMMA InitTypeOK == Init => TypeOK
<1> SUFFICES ASSUME Init PROVE TypeOK
  OBVIOUS
<1>1. offered \in 0 .. NSamples
  BY SinkAssumption DEF SinkAssumption, Init
<1>2. key \in [Sample -> Nat] /\ rows \in [Sample -> Nat]
  BY DEF Init
<1>3. faults \in [FaultKind -> Nat]
  BY DEF Init
<1> QED
  BY <1>1, <1>2, <1>3 DEF Init, TypeOK

(* Every step of the worker, the collectors and the environment keeps      *)
(* the types.                                                              *)
LEMMA NextTypeOK == TypeOK /\ [Next]_vars => TypeOK'
<1> SUFFICES ASSUME TypeOK, [Next]_vars PROVE TypeOK'
  OBVIOUS
<1> USE DEF TypeOK, controlVars, collectorVars, sledVars, mysqlVars
<1>g. Group \subseteq Sample
  BY GroupFacts
<1>o. Oldest \subseteq Sample
  BY DEF Oldest
<1>a. AddRows(Group) \in [Sample -> Nat]
  BY DEF AddRows
<1>f. \A kept : Forget(kept) => /\ lost' \subseteq Sample
                                /\ chan' \subseteq Sample
                                /\ pending' \subseteq Sample
                                /\ todo' \subseteq Sample
  BY DEF Forget
<1>k. \A kind \in FaultKind : Fault(kind) => faults' \in [FaultKind -> Nat]
  BY FaultType
<1>1. CASE Offer
  <2>1. offered + 1 \in Sample /\ offered' \in 0 .. NSamples
    BY <1>1, SinkAssumption DEF SinkAssumption, Offer, Sample
  <2> QED
    BY <1>1, <2>1 DEF Offer
<1>2. CASE CollectorsEnd \/ Signal
  BY <1>2 DEF CollectorsEnd, Signal
<1>3. ASSUME NEW next \in {"replay", "drain"}, TakeSample(next)
      PROVE  TypeOK'
  BY <1>3 DEF TakeSample, StartBatch
<1>4. CASE Tick \/ FinalFlush
  BY <1>4, SinkAssumption DEF SinkAssumption, Tick, FinalFlush, StartBatch
<1>5. CASE LeaveLoop \/ BatchDone
  BY <1>5 DEF LeaveLoop, BatchDone
<1>6. CASE Stop
  BY <1>6, <1>f DEF Stop
<1>7. CASE InsertOk \/ InsertErr
  BY <1>7, <1>a, <1>g DEF InsertOk, InsertErr, OnInsertError, FinishGroup
<1>8. CASE InsertAmbiguous
  BY <1>8, <1>a, <1>g, <1>k DEF InsertAmbiguous, OnInsertError, FinishGroup, FaultKind
<1>9. CASE UpsertOk
  BY <1>9, <1>g DEF UpsertOk, AfterUpsert, FinishGroup
<1>10. CASE UpsertErr
  BY <1>10, <1>g, <1>k DEF UpsertErr, UpsertErrAt, UpsertedBefore, AfterUpsert, FinishGroup, FaultKind
<1>11. CASE Push
  <2>1. CASE Cardinality(sled) >= BufferCap
    BY <1>11, <2>1, <1>f DEF Push, Die
  <2>2. CASE ~(Cardinality(sled) >= BufferCap)
    <3>1. Cardinality(Group) \in Nat
      BY <1>g, SampleFinite
    <3>2. \A s \in Sample : Before(s, Group) \in Nat
      BY <1>g, SampleFinite DEF Before
    <3>3. key' \in [Sample -> Nat]
      BY <1>11, <2>2, <3>2 DEF Push
    <3>4. nextKey' \in Nat /\ sled' \subseteq Sample /\ pc' = "pushFlush"
      BY <1>11, <2>2, <3>1, <1>g DEF Push
    <3>5. UNCHANGED <<collectorVars, collecting, shutdown, chan, pending,
                      todo, after, durable, rows, shown, lost, down, faults>>
      BY <1>11, <2>2 DEF Push
    <3> QED
      BY <3>3, <3>4, <3>5
  <2> QED
    BY <2>1, <2>2
<1>12. CASE PushFlush \/ Ack \/ AckFlush
  BY <1>12, <1>g DEF PushFlush, Ack, AckFlush, FinishGroup
<1>13. CASE DrainBatch
  BY <1>13, <1>o DEF DrainBatch, StartBatch
<1>14. CASE BufferError
  BY <1>14, <1>f, <1>k DEF BufferError, Die, FaultKind
<1>15. CASE Outage
  BY <1>15, <1>k DEF Outage, FaultKind
<1>16. CASE Recovery
  BY <1>16 DEF Recovery
<1>17. CASE Restart
  <2>1. \A k : Recovered(k) \subseteq Sample
    BY DEF Recovered
  <2>2. 0 \in 0 .. NSamples
    BY SinkAssumption DEF SinkAssumption
  <2>3. drained' \in 0 .. NSamples /\ UNCHANGED <<offered, dropped>>
    BY <1>17, <2>2 DEF Restart
  <2> QED
    BY <1>17, <2>1, <2>3, <1>f, <1>k DEF Restart, FaultKind
<1>18. CASE UNCHANGED vars
  BY <1>18 DEF vars
<1> QED
  BY <1>1, <1>2, <1>3, <1>4, <1>5, <1>6, <1>7, <1>8, <1>9, <1>10, <1>11, <1>12,
     <1>13, <1>14, <1>15, <1>16, <1>17, <1>18
  DEF Next, WorkerNext, FaultNext, Recv, Drain, Tick, FinalFlush

(* Every variable has its type in every state.                             *)
THEOREM TypeCorrect == Spec => []TypeOK
BY InitTypeOK, NextTypeOK, PTL DEF Spec

-----------------------------------------------------------------------------
(* The parts of the inductive invariant.  Each lemma has a step for every   *)
(* kind of action: those that leave the batch alone, those that start one,  *)
(* and the steps of one table group.                                        *)

(* A row is added to every member of the group, and no row is ever removed. *)
LEMMA RowsOfInsert ==
  ASSUME TypeOK, InsertOk \/ InsertAmbiguous
  PROVE  /\ \A s \in Group : rows'[s] = rows[s] + 1
         /\ \A s \in Sample \ Group : rows'[s] = rows[s]
         /\ Group \subseteq Stored'
         /\ Stored' = Stored \cup Group
<1>1. Group \subseteq Sample
  BY GroupFacts DEF TypeOK
<1>2. rows' = AddRows(Group) /\ rows \in [Sample -> Nat]
  BY DEF TypeOK, InsertOk, InsertAmbiguous
<1>3. /\ \A s \in Group : rows'[s] = rows[s] + 1
      /\ \A s \in Sample \ Group : rows'[s] = rows[s]
  BY <1>1, <1>2 DEF AddRows
<1> QED
  BY <1>1, <1>2, <1>3 DEF Stored

(* Only the two inserts touch the history rows.                            *)
LEMMA RowsOtherwise ==
  ASSUME [Next]_vars, ~InsertOk, ~InsertAmbiguous
  PROVE  rows' = rows /\ Stored' = Stored
<1>1. rows' = rows
  BY DEF Next, WorkerNext, FaultNext, vars, mysqlVars, Offer, CollectorsEnd, Signal,
         Recovery, Recv, Tick, LeaveLoop, Drain, FinalFlush, Stop, BatchDone,
         InsertErr, UpsertOk, Push, PushFlush, DrainBatch, Ack, AckFlush,
         UpsertErr, UpsertErrAt, UpsertedBefore, BufferError, Outage, Restart, TakeSample
<1> QED
  BY <1>1 DEF Stored

(* A step leaves the current group as the steps after it rely on.          *)
LEMMA NextBatchInv == TypeOK /\ BatchInv /\ [Next]_vars => BatchInv'
<1> SUFFICES ASSUME TypeOK, BatchInv, [Next]_vars PROVE BatchInv'
  OBVIOUS
<1> USE GroupFacts DEF BatchInv, Replaying, controlVars, sledVars
<1>r. Stored \subseteq Stored'
  BY RowsOfInsert, RowsOtherwise
<1>1. CASE UNCHANGED <<pc, todo, after, sled>>
  BY <1>1, <1>r
<1>2. ASSUME NEW batch, NEW next \in {"replay", "drain", "final", "idle"},
             StartBatch(batch, next)
      PROVE  BatchInv'
  BY <1>2 DEF StartBatch
<1>3. ASSUME NEW next \in {"replay", "drain"}, TakeSample(next)
      PROVE  BatchInv'
  BY <1>1, <1>2, <1>3 DEF TakeSample
<1>4. CASE Tick \/ FinalFlush \/ DrainBatch
  BY <1>2, <1>4 DEF Tick, FinalFlush, DrainBatch
<1>5. CASE LeaveLoop \/ BatchDone
  BY <1>5 DEF LeaveLoop, BatchDone, TypeOK
<1>6. CASE Stop
  BY <1>6 DEF Stop, Forget
<1>7. ASSUME Die PROVE BatchInv'
  BY <1>7 DEF Die, Forget
<1>8. CASE Restart
  BY <1>8 DEF Restart, Forget
<1>9. CASE InsertOk
  BY <1>9, RowsOfInsert DEF InsertOk
<1>10. CASE InsertErr \/ InsertAmbiguous
  BY <1>10 DEF InsertErr, InsertAmbiguous, OnInsertError, FinishGroup
<1>11. CASE UpsertOk \/ UpsertErr
  BY <1>11, <1>r DEF UpsertOk, UpsertErr, UpsertErrAt, UpsertedBefore, AfterUpsert, FinishGroup
<1>12. CASE Push
  BY <1>7, <1>12 DEF Push
<1>13. CASE PushFlush \/ AckFlush
  BY <1>13 DEF PushFlush, AckFlush, FinishGroup
<1>14. CASE Ack
  BY <1>14, <1>r DEF Ack
<1>15. CASE BufferError
  BY <1>7, <1>15 DEF BufferError
<1>16. CASE Offer \/ CollectorsEnd \/ Signal \/ Recovery \/ Outage \/ UNCHANGED vars
  BY <1>1, <1>16 DEF Offer, CollectorsEnd, Signal, Recovery, Outage, vars
<1> QED
  BY <1>3, <1>4, <1>5, <1>6, <1>8, <1>9, <1>10, <1>11, <1>12, <1>13, <1>14, <1>15, <1>16
  DEF Next, WorkerNext, FaultNext, Recv, Drain

(* A step keeps a replayed batch buffered and a new batch unbuffered,      *)
(* and what is on disk buffered or stored.                                 *)
LEMMA NextBufferInv == TypeOK /\ BatchInv /\ BufferInv /\ PlaceInv /\ [Next]_vars => BufferInv'
<1> SUFFICES ASSUME TypeOK, BatchInv, BufferInv, PlaceInv, [Next]_vars PROVE BufferInv'
  OBVIOUS
<1> USE GroupFacts DEF BufferInv, Replaying, controlVars, sledVars
<1>r. Stored \subseteq Stored'
  BY RowsOfInsert, RowsOtherwise
<1>1. CASE UNCHANGED <<pc, todo, after, sled, durable>>
  BY <1>1, <1>r
<1>3. ASSUME NEW next \in {"replay", "drain"}, TakeSample(next)
      PROVE  BufferInv'
  BY <1>1, <1>3, <1>r DEF TakeSample, StartBatch, PlaceInv, Held
<1>4. CASE Tick \/ FinalFlush
  BY <1>4, <1>r DEF Tick, FinalFlush, StartBatch, PlaceInv, Held
<1>5. CASE LeaveLoop \/ BatchDone
  BY <1>5, <1>r DEF LeaveLoop, BatchDone, TypeOK, BatchInv
<1>6. CASE Stop
  BY <1>6, <1>r DEF Stop, Forget
<1>7. ASSUME Die, UNCHANGED <<sled, durable>> PROVE BufferInv'
  BY <1>7, <1>r DEF Die, Forget
<1>8. CASE Restart
  BY <1>8, <1>r DEF Restart, Forget
<1>9. CASE InsertOk
  BY <1>9, <1>r DEF InsertOk
<1>10. CASE InsertErr \/ InsertAmbiguous
  BY <1>10, <1>r DEF InsertErr, InsertAmbiguous, OnInsertError, FinishGroup
<1>11. CASE UpsertOk \/ UpsertErr
  BY <1>11, <1>r DEF UpsertOk, UpsertErr, UpsertErrAt, UpsertedBefore, AfterUpsert, FinishGroup
<1>12. CASE Push
  BY <1>7, <1>12, <1>r DEF Push, BatchInv
<1>13. CASE PushFlush \/ AckFlush
  BY <1>13, <1>r DEF PushFlush, AckFlush, FinishGroup, BatchInv
<1>14. CASE Ack
  BY <1>14, <1>r DEF Ack, BatchInv
<1>15. CASE BufferError
  BY <1>7, <1>15 DEF BufferError
<1>16. CASE Offer \/ CollectorsEnd \/ Signal \/ Recovery \/ Outage \/ UNCHANGED vars
  BY <1>1, <1>16 DEF Offer, CollectorsEnd, Signal, Recovery, Outage, vars
<1>17. CASE DrainBatch
  BY <1>17, <1>r DEF DrainBatch, StartBatch, Oldest
<1> QED
  BY <1>3, <1>4, <1>5, <1>6, <1>8, <1>9, <1>10, <1>11, <1>12, <1>13, <1>14, <1>15, <1>16, <1>17
  DEF Next, WorkerNext, FaultNext, Recv, Drain

(* A step keeps every sample in one place.                                 *)
LEMMA NextPlaceInv ==
  TypeOK /\ BatchInv /\ BufferInv /\ PlaceInv /\ [Next]_vars => PlaceInv'
<1> SUFFICES ASSUME TypeOK, BatchInv, BufferInv, PlaceInv, [Next]_vars PROVE PlaceInv'
  OBVIOUS
<1> USE GroupFacts DEF PlaceInv, Held, Replaying, collectorVars, controlVars, sledVars, mysqlVars
<1>r. ~InsertOk /\ ~InsertAmbiguous => rows' = rows
  BY RowsOtherwise
<1>1. CASE Offer
  <2>1. offered + 1 \in Sample /\ offered + 1 > offered
    BY <1>1, SinkAssumption DEF SinkAssumption, Offer, Sample, TypeOK
  <2>2. \A s \in Sample : s > offered + 1 => s > offered /\ s # offered + 1
    BY DEF TypeOK, Sample
  <2> QED
    BY <1>1, <2>1, <2>2 DEF Offer
<1>2. ASSUME UNCHANGED <<offered, dropped, chan, pending, todo, sled, rows, lost>>
      PROVE  PlaceInv'
  BY <1>2
<1>3. ASSUME NEW next \in {"replay", "drain"}, pc \in {"idle", "drain"}, TakeSample(next)
      PROVE  PlaceInv'
  BY <1>3 DEF TakeSample, StartBatch, BatchInv
<1>4. CASE Tick \/ FinalFlush
  BY <1>4 DEF Tick, FinalFlush, StartBatch, BatchInv
<1>5. CASE CollectorsEnd \/ Signal \/ Recovery \/ Outage \/ LeaveLoop \/ BatchDone \/ UNCHANGED vars
  BY <1>2, <1>5 DEF CollectorsEnd, Signal, Recovery, Outage, LeaveLoop, BatchDone, vars
<1>6. CASE Stop
  BY <1>6 DEF Stop, Forget
<1>7. ASSUME Die, UNCHANGED <<offered, dropped, sled, rows>> PROVE PlaceInv'
  BY <1>7 DEF Die, Forget
<1>8. CASE Restart
  <2>1. PICK k \in 0 .. nextKey : sled' = Recovered(k) /\ Forget(Recovered(k))
    BY <1>8 DEF Restart
  <2>2. /\ Recovered(k) \subseteq sled \cup Stored
        /\ Stored = {s \in Sample : rows[s] > 0}
    BY DEF Recovered, BufferInv, Stored
  <2>3. \A s \in Recovered(k) : s \notin lost \cup dropped /\ ~(s > offered)
    BY <2>2 DEF TypeOK
  <2>4. UNCHANGED <<offered, dropped, rows>>
    BY <1>8 DEF Restart
  <2>5. chan' = {} /\ pending' = {} /\ todo' = {}
    BY <2>1 DEF Forget
  <2>6. \A s \in lost' : /\ s \in lost \/ s \in Held
                         /\ rows[s] = 0
                         /\ s \notin Recovered(k)
    BY <2>1, <2>3 DEF Forget
  <2> QED
    BY <2>1, <2>3, <2>4, <2>5, <2>6 DEF TypeOK
<1>9. CASE InsertOk
  BY <1>9, RowsOfInsert DEF InsertOk, TypeOK
<1>10. CASE InsertAmbiguous
  BY <1>10, RowsOfInsert DEF InsertAmbiguous, OnInsertError, FinishGroup, TypeOK
<1>11. CASE InsertErr
  BY <1>11, <1>r DEF InsertErr, OnInsertError, FinishGroup
<1>12. CASE UpsertOk \/ UpsertErr
  BY <1>12 DEF UpsertOk, UpsertErr, UpsertErrAt, UpsertedBefore, AfterUpsert, FinishGroup
<1>13. CASE Push
  BY <1>7, <1>13 DEF Push
<1>14. CASE PushFlush \/ AckFlush
  BY <1>14 DEF PushFlush, AckFlush, FinishGroup
<1>15. CASE Ack
  BY <1>15 DEF Ack
<1>16. CASE BufferError
  BY <1>7, <1>16 DEF BufferError
<1>17. CASE DrainBatch
  BY <1>17 DEF DrainBatch, StartBatch, Oldest, BatchInv
<1> QED
  BY <1>1, <1>3, <1>4, <1>5, <1>6, <1>8, <1>9, <1>10, <1>11, <1>12, <1>13, <1>14, <1>15, <1>16, <1>17
  DEF Next, WorkerNext, FaultNext, Recv, Drain

(* A step makes no accepted sample vanish.                                 *)
LEMMA NextAccounted ==
  TypeOK /\ BatchInv /\ BufferInv /\ PlaceInv /\ Accounted /\ [Next]_vars => Accounted'
<1> SUFFICES ASSUME TypeOK, BatchInv, BufferInv, PlaceInv, Accounted, [Next]_vars
             PROVE  Accounted'
  OBVIOUS
<1> USE GroupFacts DEF Accounted, Held, Replaying, collectorVars, controlVars, sledVars
<1>r. Stored \subseteq Stored'
  BY RowsOfInsert, RowsOtherwise
<1>0. ~Offer => Accepted' = Accepted
  BY DEF Accepted, Next, WorkerNext, FaultNext, vars, CollectorsEnd, Signal,
         Recovery, Recv, Tick, LeaveLoop, Drain, FinalFlush, Stop, BatchDone, InsertOk,
         InsertErr, UpsertOk, Push, PushFlush, DrainBatch, Ack, AckFlush, InsertAmbiguous,
         UpsertErr, UpsertErrAt, UpsertedBefore, BufferError, Outage, Restart, TakeSample
<1>1. CASE Offer
  <2>1. 1 .. (offered + 1) = (1 .. offered) \cup {offered + 1}
    BY DEF TypeOK
  <2>2. Accepted' \subseteq Accepted \cup chan'
    BY <1>1, <2>1 DEF Offer, Accepted
  <2> QED
    BY <1>1, <1>r, <2>2 DEF Offer
<1>2. ASSUME UNCHANGED <<chan, pending, todo, sled, lost>>, ~Offer PROVE Accounted'
  BY <1>0, <1>2, <1>r
<1>3. ASSUME NEW next \in {"replay", "drain"}, pc \in {"idle", "drain"}, TakeSample(next), ~Offer
      PROVE  Accounted'
  BY <1>0, <1>3, <1>r DEF TakeSample, StartBatch, BatchInv
<1>4. CASE (Tick \/ FinalFlush) /\ ~Offer
  BY <1>0, <1>4, <1>r DEF Tick, FinalFlush, StartBatch, BatchInv
<1>5. CASE /\ CollectorsEnd \/ Signal \/ Recovery \/ Outage \/ LeaveLoop \/ BatchDone \/ UNCHANGED vars
           /\ ~Offer
  BY <1>2, <1>5 DEF CollectorsEnd, Signal, Recovery, Outage, LeaveLoop, BatchDone, vars
<1>6. ASSUME NEW kept, Forget(kept), sled' = kept, UNCHANGED rows, ~Offer
      PROVE  Accounted'
  <2>1. \A s \in Held : s \in kept \/ s \in lost' \/ rows[s] # 0
    BY <1>6 DEF Forget
  <2>2. \A s \in Sample : rows[s] # 0 => s \in Stored'
    BY <1>6 DEF Stored, TypeOK
  <2>3. lost \subseteq lost' /\ Held \subseteq Sample
    BY <1>6 DEF Forget, TypeOK
  <2> QED
    BY <1>0, <1>6, <1>r, <2>1, <2>2, <2>3
<1>7. CASE (Stop \/ BufferError) /\ ~Offer
  BY <1>6, <1>7 DEF Stop, BufferError, Die, mysqlVars
<1>8. CASE Restart /\ ~Offer
  BY <1>6, <1>8 DEF Restart, mysqlVars
<1>9. CASE InsertOk /\ ~Offer
  BY <1>2, <1>9 DEF InsertOk
<1>10. CASE (InsertErr \/ InsertAmbiguous) /\ ~Offer
  BY <1>0, <1>10, <1>r DEF InsertErr, InsertAmbiguous, OnInsertError, FinishGroup, BufferInv
<1>11. CASE (UpsertOk \/ UpsertErr) /\ ~Offer
  BY <1>0, <1>11, <1>r DEF UpsertOk, UpsertErr, UpsertErrAt, UpsertedBefore, AfterUpsert, FinishGroup, BatchInv
<1>12. CASE Push /\ ~Offer
  <2>1. CASE Die /\ UNCHANGED sledVars
    BY <1>6, <1>12, <2>1 DEF Push, Die, mysqlVars
  <2>2. CASE sled' = sled \cup Group /\ UNCHANGED <<chan, pending, todo, lost>>
    BY <1>0, <1>12, <1>r, <2>2
  <2> QED
    BY <1>12, <2>1, <2>2 DEF Push
<1>13. CASE (PushFlush \/ AckFlush) /\ ~Offer
  BY <1>0, <1>13, <1>r DEF PushFlush, AckFlush, FinishGroup, BatchInv
<1>14. CASE Ack /\ ~Offer
  BY <1>0, <1>14, <1>r DEF Ack, BatchInv
<1>15. CASE DrainBatch /\ ~Offer
  BY <1>0, <1>15, <1>r DEF DrainBatch, StartBatch, BatchInv
<1> QED
  BY <1>1, <1>3, <1>4, <1>5, <1>7, <1>8, <1>9, <1>10, <1>11, <1>12, <1>13, <1>14, <1>15
  DEF Next, WorkerNext, FaultNext, Recv, Drain

(* Faults are only ever counted up. *)
LEMMA FaultCount ==
  ASSUME TypeOK, NEW kind \in FaultKind, Fault(kind)
  PROVE  /\ faults'[kind] = faults[kind] + 1
         /\ \A other \in FaultKind \ {kind} : faults'[other] = faults[other]
BY DEF TypeOK, Fault

(* No step takes a fault back.                                             *)
LEMMA FaultsGrow ==
  ASSUME TypeOK, [Next]_vars
  PROVE  \A kind \in FaultKind : faults[kind] \in Nat /\ faults'[kind] \in Nat
                                /\ faults[kind] <= faults'[kind]
<1>1. CASE faults' = faults
  BY <1>1 DEF TypeOK
<1>2. ASSUME NEW kind \in FaultKind, Fault(kind)
      PROVE  \A other \in FaultKind : faults[other] \in Nat /\ faults'[other] \in Nat
                                     /\ faults[other] <= faults'[other]
  BY <1>2, FaultCount DEF TypeOK
<1>3. faults' = faults \/ \E kind \in FaultKind : Fault(kind)
  BY DEF FaultKind, Next, WorkerNext, FaultNext, vars, Offer, CollectorsEnd, Signal,
         Recovery, Recv, Tick, LeaveLoop, Drain, FinalFlush, Stop, BatchDone, InsertOk,
         InsertErr, UpsertOk, Push, PushFlush, DrainBatch, Ack, AckFlush, InsertAmbiguous,
         UpsertErr, UpsertErrAt, UpsertedBefore, BufferError, Outage, Restart, TakeSample
<1> QED
  BY <1>1, <1>2, <1>3

Excess == faults["restart"] + faults["ambiguous"]

(* A step keeps the rows of a sample within its faults.                    *)
LEMMA NextRowsInv ==
  TypeOK /\ BatchInv /\ BufferInv /\ PlaceInv /\ RowsInv /\ [Next]_vars => RowsInv'
<1> SUFFICES ASSUME TypeOK, BatchInv, BufferInv, PlaceInv, RowsInv, [Next]_vars
             PROVE  RowsInv'
  OBVIOUS
<1>f. /\ faults["restart"] \in Nat /\ faults["ambiguous"] \in Nat
      /\ faults'["restart"] \in Nat /\ faults'["ambiguous"] \in Nat
      /\ faults["restart"] <= faults'["restart"]
      /\ faults["ambiguous"] <= faults'["ambiguous"]
  BY FaultsGrow DEF FaultKind
<1>e. Excess \in Nat /\ Excess' \in Nat /\ Excess <= Excess'
  BY <1>f DEF Excess
<1>n. \A s \in Sample : rows[s] \in Nat /\ rows[s] <= 1 + Excess
  BY <1>f DEF RowsInv, DuplicatesNeedFaults, Excess, TypeOK
<1>i. pc # "dead" => \A s \in Held \ Written : rows[s] <= Excess
  BY DEF RowsInv, Excess
<1>s. SUFFICES /\ \A s \in Sample : rows'[s] <= 1 + Excess'
               /\ pc' # "dead" => \A s \in Held' \ Written' : rows'[s] <= Excess'
  BY <1>f DEF RowsInv, DuplicatesNeedFaults, Excess
<1>h. Held \subseteq Sample /\ Held' \subseteq Sample
  BY NextTypeOK DEF Held, TypeOK
<1> USE GroupFacts DEF Replaying, collectorVars, controlVars, sledVars, mysqlVars
<1>r. ~InsertOk /\ ~InsertAmbiguous => rows' = rows
  BY RowsOtherwise
(* Steps that write no row and put nothing new in the hands of the worker. *)
<1>1. ASSUME rows' = rows, pc # "dead", Held' \ Written' \subseteq Held \ Written
      PROVE  /\ \A s \in Sample : rows'[s] <= 1 + Excess'
             /\ pc' # "dead" => \A s \in Held' \ Written' : rows'[s] <= Excess'
  BY <1>1, <1>i, <1>h, <1>n, <1>e
<1>2. ASSUME rows' = rows, pc' = "dead"
      PROVE  /\ \A s \in Sample : rows'[s] <= 1 + Excess'
             /\ pc' # "dead" => \A s \in Held' \ Written' : rows'[s] <= Excess'
  BY <1>2, <1>n, <1>e
<1>3. CASE Offer
  <2>1. offered + 1 \in Sample /\ rows[offered + 1] = 0
    BY <1>3, SinkAssumption DEF SinkAssumption, Offer, Sample, TypeOK, PlaceInv
  <2>2. rows' = rows /\ pc' = pc /\ Held' \ Written' \subseteq (Held \ Written) \cup {offered + 1}
    BY <1>3 DEF Offer, Held, Written
  <2> QED
    BY <1>3, <2>1, <2>2, <1>i, <1>n, <1>e, <1>h DEF Offer, Open
<1>4. CASE UNCHANGED <<pc, todo, chan, pending, sled, rows>>
  <2>1. Held' \ Written' = Held \ Written
    BY <1>4 DEF Held, Written
  <2> QED
    BY <2>1, <1>4, <1>1, <1>2
<1>5. CASE CollectorsEnd \/ Signal \/ Recovery \/ Outage \/ UNCHANGED vars
  BY <1>4, <1>5 DEF CollectorsEnd, Signal, Recovery, Outage, vars
<1>6. ASSUME NEW next \in {"replay", "drain"}, pc \in {"idle", "drain"}, TakeSample(next)
      PROVE  Held' \ Written' \subseteq Held \ Written /\ rows' = rows
  BY <1>6 DEF TakeSample, StartBatch, Held, Written
<1>7. ASSUME Tick \/ FinalFlush \/ DrainBatch \/ LeaveLoop \/ BatchDone \/ Stop
      PROVE  Held' \ Written' \subseteq Held \ Written /\ rows' = rows /\ pc # "dead"
  BY <1>7 DEF Tick, FinalFlush, StartBatch, DrainBatch, Oldest, LeaveLoop,
              BatchDone, Stop, Forget, Held, Written, BatchInv, TypeOK
<1>8. ASSUME Recv \/ Drain
      PROVE  Held' \ Written' \subseteq Held \ Written /\ rows' = rows /\ pc # "dead"
  BY <1>8, <1>6 DEF Recv, Drain
<1>9. ASSUME InsertErr \/ UpsertOk \/ UpsertErr \/ PushFlush \/ Ack \/ AckFlush
      PROVE  Held' \ Written' \subseteq Held \ Written /\ rows' = rows /\ pc # "dead"
  <2>1. rows' = rows /\ pc # "dead"
    BY <1>9 DEF InsertErr, UpsertOk, UpsertErr, UpsertErrAt, UpsertedBefore, PushFlush, Ack, AckFlush
  <2>2. CASE InsertErr
    BY <2>2 DEF InsertErr, OnInsertError, FinishGroup, Held, Written
  <2>3. CASE UpsertOk \/ UpsertErr
    BY <2>3 DEF UpsertOk, UpsertErr, UpsertErrAt, UpsertedBefore, AfterUpsert, FinishGroup, Held, Written, PlaceInv,
                BufferInv
  <2>4. CASE PushFlush
    BY <2>4 DEF PushFlush, FinishGroup, Held, Written
  <2>5. CASE Ack
    BY <2>5 DEF Ack, Held, Written
  <2>6. CASE AckFlush
    BY <2>6 DEF AckFlush, FinishGroup, Held, Written, PlaceInv, BatchInv
  <2> QED
    BY <1>9, <2>1, <2>2, <2>3, <2>4, <2>5, <2>6
<1>10. CASE Push
  <2>1. CASE pc' = "dead"
    BY <1>2, <1>10, <2>1, <1>r DEF Push
  <2>2. CASE pc' # "dead"
    BY <1>1, <1>10, <2>2 DEF Push, Die, Held, Written
  <2> QED
    BY <2>1, <2>2
<1>11. CASE BufferError
  BY <1>2, <1>11 DEF BufferError, Die
<1>12. CASE Restart
  <2>1. Excess' = Excess + 1
    BY <1>12, <1>f, FaultCount DEF Restart, Excess, FaultKind
  <2> QED
    BY <1>12, <2>1, <1>e, <1>h, <1>n DEF Restart
<1>13. CASE InsertOk
  <2>1. Group \subseteq Held \ Written /\ pc # "dead"
    BY <1>13 DEF InsertOk, Held, Written
  <2>2. Held' \ Written' = Held \ Group
    BY <1>13 DEF InsertOk, Held, Written
  <2>3. Held \ Group \subseteq Held \ Written
    BY <1>13 DEF InsertOk, Written
  <2> QED
    BY <1>13, <2>1, <2>2, <2>3, RowsOfInsert, <1>e, <1>i, <1>n, <1>h
<1>14. CASE InsertAmbiguous
  <2>1. Excess' = Excess + 1
    BY <1>14, <1>f, FaultCount DEF InsertAmbiguous, Excess, FaultKind
  <2>2. pc # "dead" /\ Written = {} /\ Written' = {} /\ Held' \subseteq Held /\ Group \subseteq Held
    BY <1>14 DEF InsertAmbiguous, OnInsertError, FinishGroup, Held, Written
  <2>3. \A s \in Held : rows[s] <= Excess /\ rows[s] \in Nat
    BY <2>2, <1>i, <1>n, <1>h
  <2>4. \A s \in Held : rows'[s] <= Excess'
    BY <1>14, <2>1, <2>3, RowsOfInsert, <1>e, <1>h
  <2>5. \A s \in Sample \ Group : rows'[s] <= 1 + Excess'
    BY <1>14, <2>1, RowsOfInsert, <1>e, <1>n
  <2>6. \A s \in Sample : rows'[s] \in Nat
    BY NextTypeOK DEF TypeOK
  <2>7. \A s \in Group : rows'[s] <= 1 + Excess'
    BY <2>2, <2>4, <2>6, <1>e, <1>h
  <2> QED
    BY <2>2, <2>4, <2>5, <2>7
<1> QED
  BY <1>1, <1>3, <1>5, <1>7, <1>8, <1>9, <1>10, <1>11, <1>12, <1>13, <1>14
  DEF Next, WorkerNext, FaultNext

(* A step empties the batch builder before the final flush.                *)
LEMMA NextStopInv == TypeOK /\ StopInv /\ [Next]_vars => StopInv'
<1> SUFFICES ASSUME TypeOK, StopInv, [Next]_vars PROVE StopInv'
  OBVIOUS
<1> USE DEF StopInv, controlVars
<1> USE DEF TypeOK, collectorVars
<1>0. offered \in Nat /\ drained \in Nat
  BY SinkAssumption DEF SinkAssumption
<1>1. CASE Offer
  <2>1. offered' = offered + 1 /\ drained' = drained /\ chan' \subseteq chan \cup {offered + 1}
    BY <1>1 DEF Offer
  <2>2. UNCHANGED <<pc, after, pending>>
    BY <1>1 DEF Offer
  <2> QED
    BY <1>0, <2>1, <2>2
<1>2. CASE CollectorsEnd \/ Signal \/ Recovery \/ Outage \/ UNCHANGED vars
  BY <1>2 DEF CollectorsEnd, Signal, Recovery, Outage, vars
<1>3. ASSUME NEW next \in {"replay", "drain"}, pc \in {"idle", "drain"}, TakeSample(next)
      PROVE  StopInv'
  BY <1>3 DEF TakeSample, StartBatch
<1>4. CASE Tick \/ FinalFlush \/ DrainBatch
  BY <1>4 DEF Tick, FinalFlush, DrainBatch, StartBatch
<1>5. CASE LeaveLoop \/ BatchDone
  BY <1>5 DEF LeaveLoop, BatchDone, TypeOK
<1>6. CASE Stop
  BY <1>0, <1>6 DEF Stop, Forget
<1>12. CASE Restart
  <2>1. after' = "idle" /\ pc' = "replay" /\ drained' = 0 /\ offered' = offered
    BY <1>12 DEF Restart
  <2> QED
    BY <1>0, <2>1
<1>7. ASSUME Die, UNCHANGED collectorVars PROVE StopInv'
  BY <1>7 DEF Die, Forget
<1>8. CASE BufferError \/ Push
  BY <1>7, <1>8 DEF BufferError, Push
<1>9. CASE InsertOk \/ InsertErr \/ InsertAmbiguous
  BY <1>9 DEF InsertOk, InsertErr, InsertAmbiguous, OnInsertError, FinishGroup
<1>10. CASE UpsertOk \/ UpsertErr
  BY <1>10 DEF UpsertOk, UpsertErr, UpsertErrAt, UpsertedBefore, AfterUpsert, FinishGroup
<1>11. CASE PushFlush \/ Ack \/ AckFlush
  BY <1>11 DEF PushFlush, Ack, AckFlush, FinishGroup
<1> QED
  BY <1>1, <1>2, <1>3, <1>4, <1>5, <1>6, <1>8, <1>9, <1>10, <1>11, <1>12
  DEF Next, WorkerNext, FaultNext, Recv, Drain

-----------------------------------------------------------------------------
(* SinkInv holds in every reachable state: the safety properties below are  *)
(* all read off from it.                                                    *)

(* The inductive invariant holds initially.                                *)
LEMMA InitSinkInv == Init => SinkInv
<1> SUFFICES ASSUME Init PROVE SinkInv
  OBVIOUS
<1>1. TypeOK
  BY InitTypeOK
<1>2. \A s \in Sample : rows[s] = 0
  BY DEF Init
<1>3. /\ faults["restart"] = 0 /\ faults["ambiguous"] = 0
  BY DEF Init, FaultKind
<1>4. Stored = {} /\ Accepted = {}
  BY <1>2 DEF Stored, Accepted, Init
<1>5. Held = {} /\ Group = {} /\ Written = {}
  BY DEF Held, Group, Written, Init
<1>6. BatchInv /\ BufferInv /\ Accounted
  BY <1>4, <1>5 DEF BatchInv, BufferInv, Accounted, Init, Replaying
<1>7. PlaceInv
  BY <1>2, <1>5 DEF PlaceInv, Init
<1>8. RowsInv
  BY <1>2, <1>3, <1>5 DEF RowsInv, DuplicatesNeedFaults
<1>10. StopInv
  BY DEF StopInv, Init
<1> QED
  BY <1>1, <1>6, <1>7, <1>8, <1>10 DEF SinkInv

(* The inductive invariant holds in every reachable state.                 *)
THEOREM Invariance == Spec => []SinkInv
<1>1. SinkInv /\ [Next]_vars => SinkInv'
  BY NextTypeOK, NextAccounted, NextBatchInv, NextBufferInv, NextPlaceInv,
     NextRowsInv, NextStopInv DEF SinkInv
<1> QED
  BY InitSinkInv, <1>1, PTL DEF Spec

(* No sample vanishes inside the pipeline. *)
THEOREM SamplesAccounted == Spec => []Accounted
<1>1. SinkInv => Accounted
  BY DEF SinkInv
<1> QED
  BY <1>1, Invariance, PTL

(* Rows are duplicated by process ends and misread inserts only. *)
THEOREM DuplicatesBounded == Spec => []DuplicatesNeedFaults
<1>1. SinkInv => DuplicatesNeedFaults
  BY DEF SinkInv, RowsInv
<1> QED
  BY <1>1, Invariance, PTL

(* One step of the worker takes nothing off the disk that is not stored. *)
LEMMA DurableStep ==
  ASSUME SinkInv, [Next]_vars
  PROVE  \A s \in durable : s \in durable' \/ rows'[s] > 0
<1>1. durable \subseteq sled \cup Stored /\ Stored \subseteq Stored'
  BY RowsOfInsert, RowsOtherwise DEF SinkInv, BufferInv
<1>2. Stored' = {s \in Sample : rows'[s] > 0}
  BY DEF Stored
<1>3. CASE durable' = sled \/ durable' = durable
  BY <1>1, <1>2, <1>3
<1>4. ASSUME NEW k, durable' = Recovered(k)
      PROVE  \A s \in durable : s \in durable' \/ rows'[s] > 0
  BY <1>1, <1>2, <1>4 DEF Recovered
<1>5. durable' = sled \/ durable' = durable \/ \E k : durable' = Recovered(k)
  BY DEF Next, WorkerNext, FaultNext, vars, sledVars, Offer, CollectorsEnd, Signal,
         Recovery, Recv, Tick, LeaveLoop, Drain, FinalFlush, Stop, BatchDone, InsertOk,
         InsertErr, UpsertOk, Push, PushFlush, DrainBatch, Ack, AckFlush,
         InsertAmbiguous, UpsertErr, UpsertErrAt, UpsertedBefore, BufferError, Outage, Restart, TakeSample
<1> QED
  BY <1>3, <1>4, <1>5

(* What is on disk stays there until MySQL has it, crash or no crash. *)
THEOREM DurabilityHolds == Spec => DurableUntilStored
<1>1. SinkInv /\ [Next]_vars => [\A s \in durable : s \in durable' \/ rows'[s] > 0]_vars
  BY DurableStep
<1> QED
  BY <1>1, Invariance, PTL DEF Spec, DurableUntilStored

(* A stop in good order loses only what came after the drain. *)
THEOREM StopLosesLittle == Spec => StopLosesOnlyLateArrivals
<1> DEFINE Late == pc' = "stopped" /\ pc # "stopped" => \A s \in lost' \ lost : s > drained
<1>1. SinkInv /\ [Next]_vars => [Late]_vars
  <2> SUFFICES ASSUME SinkInv, [Next]_vars, pc' = "stopped", pc # "stopped"
               PROVE  \A s \in lost' \ lost : s > drained
    OBVIOUS
  <2>1. Stop
    BY DEF SinkInv, TypeOK, controlVars, vars, Next, WorkerNext, FaultNext, Offer,
           CollectorsEnd, Signal, Recovery, Recv, Tick, LeaveLoop, Drain, FinalFlush,
           BatchDone, InsertOk, InsertErr, UpsertOk, Push, PushFlush, DrainBatch, Ack,
           AckFlush, InsertAmbiguous, UpsertErr, UpsertErrAt, UpsertedBefore, BufferError, Outage, Restart, TakeSample,
           StartBatch, FinishGroup, OnInsertError, AfterUpsert, Die
  <2>2. pending = {} /\ todo = {} /\ \A s \in chan : s > drained
    BY <2>1 DEF Stop, SinkInv, StopInv, BatchInv
  <2> QED
    BY <2>1, <2>2 DEF Stop, Forget
<1> QED
  BY <1>1, Invariance, PTL DEF Spec, StopLosesOnlyLateArrivals

-----------------------------------------------------------------------------
(* The buffer: its size, and the order in which it hands samples back. *)

(* Everything the disk may hold, and the samples that may still be pushed. *)
Kept  == sled \cup durable
Fresh == IF Replaying THEN {} ELSE IF pc = "pushFlush" THEN todo \ Group ELSE todo

(* A batch is no larger than BatchSize, and between a write to sled and    *)
(* its flush only one of the two trees is ahead of the other.              *)
SizeInv ==
  /\ Cardinality(pending) < BatchSize
  /\ Cardinality(todo) <= BatchSize
  /\ pc \notin {"pushFlush", "ackFlush", "dead"} => sled = durable
  /\ pc = "pushFlush" => sled \subseteq durable \cup Group
  /\ pc = "ackFlush" => sled \subseteq durable
  /\ sled \subseteq durable \/ durable \subseteq sled
  /\ Cardinality(sled) < BufferCap + BatchSize
  /\ Cardinality(durable) < BufferCap + BatchSize

(* A FIFO before the buffer: the batch builder holds what came before the  *)
(* channel, a new batch what came before both, and the buffer what came,   *)
(* of the same table, before all of them.                                  *)
FifoInv ==
  /\ \A s \in pending, t \in chan : s < t
  /\ ~ Replaying => \A s \in todo, t \in chan \cup pending : s < t
  /\ \A s \in Kept, t \in chan \cup pending \cup Fresh : TableOf[s] = TableOf[t] => s < t

(* Keys are unique, those of a table's samples are in their order, and all *)
(* are below the next one, also those that a restart may bring back.       *)
KeysInv ==
  /\ \A s \in Kept : key[s] < nextKey
  /\ \A s, t \in Kept : key[s] = key[t] => s = t
  /\ \A s, t \in Kept : TableOf[s] = TableOf[t] /\ s < t => key[s] < key[t]

(* A non-empty set of buffered samples has one with the greatest key.      *)
LEMMA LastKey ==
  ASSUME TypeOK, KeysInv, NEW S \in SUBSET sled, S # {}
  PROVE  \E m \in S : \A s \in S : s # m => key[s] < key[m]
<1> DEFINE R == OpToRel(<, Nat)
           Above == {nextKey - key[s] : s \in S}
<1>1. \A s \in S : key[s] \in Nat /\ nextKey \in Nat /\ key[s] < nextKey
  BY DEF TypeOK, KeysInv, Kept
<1>2. Above \subseteq Nat /\ Above # {}
  BY <1>1
<1> HIDE DEF Above
<1>3. \E a \in Above : \A b \in Above : ~ (<<b, a>> \in R)
  <2>1. IsWellFoundedOn(R, Nat)
    BY NatLessThanWellFounded, Zenon
  <2> HIDE DEF R
  <2> QED BY <1>2, <2>1, WFMin
<1>4. \A a, b \in Nat : b < a => <<b, a>> \in R
  BY DEF OpToRel
<1> HIDE DEF R
<1>5. PICK least \in Above : \A b \in Above : ~ (<<b, least>> \in R)
  BY <1>3
<1>6. PICK m \in S : least = nextKey - key[m]
  BY DEF Above
<1>7. ASSUME NEW s \in S, s # m PROVE key[s] < key[m]
  <2>1. nextKey - key[s] \in Above
    BY DEF Above
  <2>2. nextKey - key[s] \in Nat /\ least \in Nat
    BY <1>2, <2>1
  <2>3. ~ (nextKey - key[s] < least)
    BY <1>4, <1>5, <2>1, <2>2
  <2>4. key[s] # key[m]
    BY <1>7 DEF KeysInv, Kept
  <2> QED BY <1>1, <1>6, <2>3, <2>4
<1> QED BY <1>7

(* drain_batch returns a batch of at most BatchSize entries: all of them   *)
(* but the last come before the last.                                      *)
LEMMA OldestIsABatch ==
  ASSUME TypeOK, KeysInv
  PROVE  Cardinality(Oldest) <= BatchSize
<1>1. BatchSize \in Nat \ {0} /\ Cardinality({}) = 0
  BY SinkAssumption, FS_EmptySet DEF SinkAssumption
<1>2. CASE Oldest = {}
  BY <1>1, <1>2
<1>3. CASE Oldest # {}
  <2>1. Oldest \in SUBSET sled
    BY DEF Oldest
  <2>2. PICK m \in Oldest : \A s \in Oldest : s # m => key[s] < key[m]
    BY <1>3, <2>1, LastKey
  <2> DEFINE Earlier == {t \in sled : key[t] < key[m]}
  <2>3. Cardinality(Earlier) < BatchSize
    BY <2>2 DEF Oldest
  <2>4. Oldest \ {m} \subseteq Earlier /\ Earlier \in SUBSET Sample
        /\ Oldest \ {m} \in SUBSET Sample /\ m \notin Oldest \ {m}
    BY <2>1, <2>2 DEF TypeOK
  <2>5. /\ IsFiniteSet(Earlier) /\ Cardinality(Earlier) \in Nat
        /\ IsFiniteSet(Oldest \ {m}) /\ Cardinality(Oldest \ {m}) \in Nat
    BY <2>4, SampleFinite
  <2> HIDE DEF Earlier
  <2>6. Cardinality(Oldest \ {m}) <= Cardinality(Earlier)
    BY <2>4, <2>5, FS_Subset
  <2>7. Cardinality((Oldest \ {m}) \cup {m}) = Cardinality(Oldest \ {m}) + 1
    BY <2>4, <2>5, FS_AddElement
  <2>8. (Oldest \ {m}) \cup {m} = Oldest
    BY <2>2
  <2>9. Cardinality(Oldest) = Cardinality(Oldest \ {m}) + 1
    BY <2>7, <2>8, Zenon
  <2> DEFINE rest == Cardinality(Oldest \ {m})
             all  == Cardinality(Oldest)
             most == Cardinality(Earlier)
  <2>10. /\ rest \in Nat /\ most \in Nat /\ rest <= most /\ most < BatchSize
         /\ all = rest + 1 /\ BatchSize \in Nat
    BY <1>1, <2>3, <2>5, <2>6, <2>9
  <2> HIDE DEF rest, all, most
  <2>11. all <= BatchSize
    BY <2>10
  <2> QED BY <2>11 DEF all
<1> QED BY <1>2, <1>3

(* A step keeps the buffer and the batches within their sizes.             *)
LEMMA NextSizeInv ==
  ASSUME TypeOK, BatchInv, SizeInv, KeysInv, [Next]_vars
  PROVE  SizeInv'
<1> USE GroupFacts DEF Replaying, controlVars, sledVars
<1>n. /\ BatchSize \in Nat \ {0} /\ BufferCap \in Nat
      /\ \A S \in SUBSET Sample : IsFiniteSet(S) /\ Cardinality(S) \in Nat
      /\ \A S \in SUBSET Sample : \A R \in SUBSET S : Cardinality(R) <= Cardinality(S)
  BY SinkAssumption, SampleFinite, FS_Subset DEF SinkAssumption
<1>e. Cardinality({}) = 0
  BY FS_EmptySet
<1>1. ASSUME UNCHANGED <<pending, sled, durable, todo, after>>,
             pc \notin {"pushFlush", "ackFlush", "dead"}
      PROVE  SizeInv'
  BY <1>1 DEF SizeInv
<1>2. ASSUME NEW next \in {"replay", "drain"}, pc \in {"idle", "drain"}, TakeSample(next)
      PROVE  SizeInv'
  <2>1. PICK s \in chan :
          /\ \/ /\ ~ (Cardinality(pending \cup {s}) >= BatchSize)
                /\ pending' = pending \cup {s} /\ UNCHANGED <<todo, after, pc>>
             \/ pending' = {} /\ todo' = pending \cup {s} /\ after' = next /\ pc' = "insert"
          /\ UNCHANGED <<sled, durable>>
    BY <1>2 DEF TakeSample, StartBatch
  <2>2. pending \cup {s} \in SUBSET Sample
    BY DEF TypeOK
  <2>3. Cardinality(pending \cup {s}) \in Nat /\ Cardinality(pending \cup {s}) <= BatchSize
    <3>1. Cardinality(pending \cup {s}) <= Cardinality(pending) + 1
      BY <1>n, FS_AddElement DEF TypeOK
    <3>2. Cardinality(pending \cup {s}) \in Nat /\ Cardinality(pending) \in Nat
      BY <1>n, <2>2 DEF TypeOK
    <3>3. Cardinality(pending) < BatchSize
      BY DEF SizeInv
    <3> QED BY <1>n, <3>1, <3>2, <3>3
  <2>4. CASE /\ ~ (Cardinality(pending \cup {s}) >= BatchSize)
             /\ pending' = pending \cup {s} /\ UNCHANGED <<todo, after, pc>>
    <3>1. Cardinality(pending') < BatchSize
      BY <1>n, <2>3, <2>4
    <3> QED BY <2>1, <2>4, <3>1 DEF SizeInv
  <2>5. CASE pending' = {} /\ todo' = pending \cup {s} /\ after' = next /\ pc' = "insert"
    <3>1. Cardinality(pending') < BatchSize /\ Cardinality(todo') <= BatchSize
      BY <1>n, <1>e, <2>3, <2>5
    <3>2. sled = durable
      BY <1>2 DEF SizeInv
    <3> QED BY <2>1, <2>5, <3>1, <3>2 DEF SizeInv
  <2> QED BY <2>1, <2>4, <2>5
<1>3. CASE Tick \/ FinalFlush
  <2>1. /\ pending' = {} /\ todo' = pending /\ pc' = "insert" /\ UNCHANGED <<sled, durable>>
        /\ pc \in {"idle", "drain"}
    BY <1>3 DEF Tick, FinalFlush, StartBatch
  <2>2. Cardinality(pending') < BatchSize /\ Cardinality(todo') <= BatchSize
    <3>1. Cardinality(pending) \in Nat /\ Cardinality(pending) < BatchSize
      BY <1>n DEF SizeInv, TypeOK
    <3> QED BY <1>n, <1>e, <2>1, <3>1
  <2> QED BY <2>1, <2>2 DEF SizeInv
<1>4. ASSUME todo' = {}, pending' = {},
             \/ pc' = "dead" /\ UNCHANGED <<sled, durable>>
             \/ sled' = durable' /\ (sled' \subseteq sled \/ sled' \subseteq durable)
      PROVE  SizeInv'
  <2>1. Cardinality(pending') < BatchSize /\ Cardinality(todo') <= BatchSize
    BY <1>n, <1>e, <1>4
  <2>2. CASE pc' = "dead" /\ UNCHANGED <<sled, durable>>
    BY <2>1, <2>2 DEF SizeInv
  <2>3. CASE sled' = durable' /\ (sled' \subseteq sled \/ sled' \subseteq durable)
    <3>1. Cardinality(sled') <= Cardinality(sled) \/ Cardinality(sled') <= Cardinality(durable)
      BY <1>n, <2>3 DEF TypeOK
    <3>2. /\ Cardinality(sled) \in Nat /\ Cardinality(durable) \in Nat
          /\ Cardinality(sled) < BufferCap + BatchSize
          /\ Cardinality(durable) < BufferCap + BatchSize
      BY <1>n DEF TypeOK, SizeInv
    <3>3. Cardinality(sled') \in Nat
      BY <1>n, NextTypeOK DEF TypeOK
    <3>4. Cardinality(sled') < BufferCap + BatchSize
      BY <1>n, <3>1, <3>2, <3>3
    <3> QED BY <2>1, <2>3, <3>4 DEF SizeInv
  <2> QED BY <1>4, <2>2, <2>3
<1>5. CASE Stop
  BY <1>4, <1>5 DEF Stop, Forget
<1>6. ASSUME Die, UNCHANGED <<sled, durable>> PROVE SizeInv'
  BY <1>4, <1>6 DEF Die, Forget
<1>7. CASE Restart
  <2>1. PICK k \in 0 .. nextKey : sled' = Recovered(k) /\ durable' = Recovered(k)
    BY <1>7 DEF Restart
  <2>2. Recovered(k) \subseteq sled \/ Recovered(k) \subseteq durable
    BY DEF Recovered, SizeInv
  <2> QED BY <1>4, <1>7, <2>1, <2>2 DEF Restart, Forget
<1>8. ASSUME UNCHANGED <<pending, sled, durable, after>>, todo' \in SUBSET todo,
             pc \notin {"pushFlush", "ackFlush", "dead"}
      PROVE  SizeInv'
  <2>1. Cardinality(todo') <= Cardinality(todo) /\ Cardinality(todo) \in Nat
        /\ Cardinality(todo') \in Nat
    BY <1>8, <1>n DEF TypeOK
  <2>2. Cardinality(todo') <= BatchSize
    BY <1>8, <1>n, <2>1 DEF SizeInv
  <2> QED BY <1>8, <2>2 DEF SizeInv
<1>9. CASE InsertErr \/ InsertAmbiguous \/ UpsertOk \/ UpsertErr
  <2>1. UNCHANGED <<pending, sled, durable, after>> /\ todo' \in SUBSET todo
    BY <1>9 DEF InsertErr, InsertAmbiguous, OnInsertError, UpsertOk, UpsertErr, UpsertErrAt,
                AfterUpsert, FinishGroup
  <2>2. pc \notin {"pushFlush", "ackFlush", "dead"}
    BY <1>9 DEF InsertErr, InsertAmbiguous, UpsertOk, UpsertErr, UpsertErrAt
  <2> QED BY <1>8, <2>1, <2>2
<1>10. CASE Push
  <2>1. CASE Cardinality(sled) >= BufferCap
    BY <1>6, <1>10, <2>1 DEF Push
  <2>2. CASE ~ (Cardinality(sled) >= BufferCap)
    <3>1. /\ sled' = sled \cup Group /\ pc' = "pushFlush" /\ pc = "push"
          /\ UNCHANGED <<durable, pending, todo, after>>
      BY <1>10, <2>2 DEF Push
    <3>2. Cardinality(Group) <= BatchSize /\ Cardinality(Group) \in Nat
      <4>1. Cardinality(Group) <= Cardinality(todo) /\ Cardinality(todo) <= BatchSize
        BY <1>n, <3>1 DEF TypeOK, SizeInv, BatchInv
      <4>2. Cardinality(Group) \in Nat /\ Cardinality(todo) \in Nat
        BY <1>n DEF TypeOK
      <4> QED BY <1>n, <4>1, <4>2
    <3>3. Cardinality(sled') <= Cardinality(sled) + Cardinality(Group)
      <4>1. IsFiniteSet(sled) /\ IsFiniteSet(Group) /\ IsFiniteSet(sled \cap Group)
        BY <1>n, FS_Intersection DEF TypeOK
      <4>2. Cardinality(sled \cup Group)
              = Cardinality(sled) + Cardinality(Group) - Cardinality(sled \cap Group)
        BY <4>1, FS_Union
      <4>3. Cardinality(sled \cap Group) \in Nat /\ Cardinality(sled) \in Nat
        BY <4>1, FS_CardinalityType
      <4> QED BY <3>1, <3>2, <4>2, <4>3
    <3>4. Cardinality(sled) \in Nat /\ Cardinality(sled') \in Nat
      BY <1>n, NextTypeOK DEF TypeOK
    <3>5. Cardinality(sled') < BufferCap + BatchSize
      BY <1>n, <2>2, <3>2, <3>3, <3>4
    <3>6. durable \subseteq sled' /\ sled' \subseteq durable' \cup Group'
      BY <3>1 DEF SizeInv
    <3> QED BY <3>1, <3>5, <3>6 DEF SizeInv
  <2> QED BY <2>1, <2>2
<1>11. CASE PushFlush \/ AckFlush
  <2>1. /\ durable' = sled /\ todo' = todo \ Group /\ pc' = "insert"
        /\ UNCHANGED <<sled, pending, after>>
    BY <1>11 DEF PushFlush, AckFlush, FinishGroup
  <2>2. Cardinality(todo') <= BatchSize
    <3>1. /\ Cardinality(todo') <= Cardinality(todo)
          /\ Cardinality(todo) \in Nat /\ Cardinality(todo') \in Nat
      BY <1>n, <2>1 DEF TypeOK
    <3> QED BY <1>n, <2>1, <3>1 DEF SizeInv
  <2> QED BY <2>1, <2>2 DEF SizeInv
<1>12. CASE Ack
  <2>1. /\ sled' = sled \ Group /\ pc' = "ackFlush" /\ pc = "ack"
        /\ UNCHANGED <<durable, pending, todo, after>>
    BY <1>12 DEF Ack
  <2>2. Cardinality(sled') < BufferCap + BatchSize
    <3>1. /\ Cardinality(sled') <= Cardinality(sled)
          /\ Cardinality(sled) \in Nat /\ Cardinality(sled') \in Nat
      BY <1>n, <2>1 DEF TypeOK
    <3> QED BY <1>n, <3>1 DEF SizeInv
  <2>3. sled' \subseteq durable'
    BY <2>1 DEF SizeInv
  <2> QED BY <2>1, <2>2, <2>3 DEF SizeInv
<1>13. CASE DrainBatch
  BY <1>13, OldestIsABatch DEF DrainBatch, StartBatch, SizeInv
<1>14. CASE BufferError
  BY <1>6, <1>14 DEF BufferError
<1>15. CASE LeaveLoop \/ InsertOk
  BY <1>1, <1>15 DEF LeaveLoop, InsertOk
<1>16. CASE BatchDone
  BY <1>1, <1>16 DEF BatchDone
<1>17. CASE Offer \/ CollectorsEnd \/ Signal \/ Recovery \/ Outage \/ UNCHANGED vars
  BY <1>17 DEF Offer, CollectorsEnd, Signal, Recovery, Outage, vars, SizeInv
<1>18. CASE Recv \/ Drain
  BY <1>2, <1>18 DEF Recv, Drain
<1> QED
  BY <1>3, <1>5, <1>7, <1>9, <1>10, <1>11, <1>12, <1>13, <1>14, <1>15, <1>16, <1>17, <1>18
  DEF Next, WorkerNext, FaultNext

(* Samples are numbers up to the last one offered, and those of the rest   *)
(* of a batch are of other tables than its current group.                  *)
LEMMA OrderFacts ==
  ASSUME TypeOK, BufferInv, PlaceInv
  PROVE  /\ Sample \subseteq Nat /\ Held \cup Kept \subseteq Sample
         /\ \A s \in Held \cup Kept : s <= offered
         /\ \A s \in Group, t \in todo \ Group : TableOf[s] # TableOf[t]
<1>1. Held \cup Kept \subseteq Sample /\ Sample \subseteq Nat /\ offered \in Nat
  BY SinkAssumption DEF SinkAssumption, TypeOK, Held, Kept, Sample
<1>2. ASSUME NEW s \in Held \cup Kept PROVE s <= offered
  <2>1. s > offered => s \notin Held /\ s \notin Stored
    <3>1. s > offered => rows[s] = 0 /\ s \notin Held
      BY <1>1 DEF PlaceInv
    <3> QED BY <3>1 DEF Stored
  <2>2. s \in Held \cup Stored
    BY DEF BufferInv, Held, Kept
  <2>3. s \in Nat
    BY <1>1
  <2> QED BY <1>1, <2>1, <2>2, <2>3
<1>3. \A s \in todo : TableOf[s] \in Nat
  BY SinkAssumption DEF SinkAssumption, TypeOK
<1>4. \A s \in Group, t \in todo \ Group : TableOf[s] # TableOf[t]
  BY <1>3 DEF Group
<1> QED BY <1>1, <1>2, <1>4

(* A step keeps the buffer before the batch, the batch before the builder, *)
(* and the builder before the channel.                                     *)
LEMMA NextFifoInv ==
  ASSUME TypeOK, BatchInv, BufferInv, PlaceInv, FifoInv, [Next]_vars
  PROVE  FifoInv'
<1> USE GroupFacts DEF Replaying, controlVars, sledVars, Kept
<1>n. /\ Sample \subseteq Nat /\ Held \cup Kept \subseteq Sample
      /\ \A s \in Held \cup Kept : s <= offered
      /\ \A s \in Group, t \in todo \ Group : TableOf[s] # TableOf[t]
  BY OrderFacts
<1>1. ASSUME UNCHANGED <<chan, pending, sled, durable, todo, after>>,
             (pc = "pushFlush") = (pc' = "pushFlush")
      PROVE  FifoInv'
  <2>1. Fresh' = Fresh
    BY <1>1 DEF Fresh
  <2> QED BY <1>1, <2>1 DEF FifoInv
<1>2. CASE Offer
  <2>1. /\ UNCHANGED <<pending, sled, durable, todo, after, pc>>
        /\ chan' \subseteq chan \cup {offered + 1}
    BY <1>2 DEF Offer
  <2>2. Fresh' = Fresh
    BY <2>1 DEF Fresh
  <2>3. \A s \in Held \cup Kept : s < offered + 1
    <3>1. offered \in Nat
      BY SinkAssumption DEF SinkAssumption, TypeOK
    <3> SUFFICES ASSUME NEW s \in Held \cup Kept PROVE s < offered + 1
      OBVIOUS
    <3>2. s \in Nat /\ s <= offered
      BY <1>n
    <3> QED BY <3>1, <3>2
  <2> QED BY <2>1, <2>2, <2>3 DEF FifoInv, Held
<1>3. ASSUME NEW next \in {"replay", "drain"}, pc \in {"idle", "drain"}, TakeSample(next)
      PROVE  FifoInv'
  <2>1. PICK s \in chan :
          /\ \A t \in chan : s <= t
          /\ chan' = chan \ {s}
          /\ \/ pending' = pending \cup {s} /\ UNCHANGED <<todo, after, pc>>
             \/ pending' = {} /\ todo' = pending \cup {s} /\ after' = next /\ pc' = "insert"
          /\ UNCHANGED <<sled, durable>>
    BY <1>3 DEF TakeSample, StartBatch
  <2>2. todo = {} /\ Fresh = {}
    BY <1>3 DEF BatchInv, Fresh
  <2>3. chan' \cup pending' \cup Fresh' \subseteq chan \cup pending
    BY <2>1, <2>2 DEF Fresh
  <2>4. ASSUME NEW t \in chan' PROVE s < t
    <3>1. s \in Nat /\ t \in Nat
      BY <1>n, <2>1 DEF Held
    <3>2. s <= t /\ s # t
      BY <2>1
    <3> QED BY <3>1, <3>2
  <2>5. \A r \in pending \cup {s}, t \in chan' : r < t
    BY <2>1, <2>4 DEF FifoInv
  <2>6. \A r \in Kept', t \in chan' \cup pending' \cup Fresh' : TableOf[r] = TableOf[t] => r < t
    BY <2>1, <2>3 DEF FifoInv
  <2> QED BY <2>1, <2>2, <2>5, <2>6 DEF FifoInv
<1>4. CASE Tick \/ FinalFlush
  <2>1. /\ pending' = {} /\ todo' = pending /\ pc' = "insert" /\ after' # "idle"
        /\ UNCHANGED <<chan, sled, durable>>
    BY <1>4 DEF Tick, FinalFlush, StartBatch
  <2>2. Fresh' = pending
    BY <2>1 DEF Fresh
  <2> QED BY <2>1, <2>2 DEF FifoInv
<1>5. ASSUME chan' = {}, pending' = {}, todo' = {}, Kept' \subseteq Kept
      PROVE  FifoInv'
  BY <1>5 DEF FifoInv, Fresh
<1>6. CASE Stop
  BY <1>5, <1>6 DEF Stop, Forget
<1>7. ASSUME Die, UNCHANGED <<sled, durable>> PROVE FifoInv'
  BY <1>5, <1>7 DEF Die, Forget
<1>8. CASE Restart
  <2>1. PICK k \in 0 .. nextKey : sled' = Recovered(k) /\ durable' = Recovered(k)
    BY <1>8 DEF Restart
  <2>2. Recovered(k) \subseteq Kept
    BY DEF Recovered
  <2> QED BY <1>5, <1>8, <2>1, <2>2 DEF Restart, Forget
<1>9. ASSUME UNCHANGED <<chan, pending, after>>, Kept' \subseteq Kept,
             todo' \subseteq todo, Fresh' \subseteq Fresh
      PROVE  FifoInv'
  BY <1>9 DEF FifoInv
<1>10. CASE InsertErr \/ InsertAmbiguous \/ UpsertOk \/ UpsertErr
  <2>1. UNCHANGED <<chan, pending, sled, durable, after>> /\ todo' \subseteq todo
    BY <1>10 DEF InsertErr, InsertAmbiguous, OnInsertError, UpsertOk, UpsertErr, UpsertErrAt,
                 AfterUpsert, FinishGroup
  <2>2. pc # "pushFlush" /\ pc' # "pushFlush"
    BY <1>10 DEF InsertErr, InsertAmbiguous, OnInsertError, UpsertOk, UpsertErr, UpsertErrAt,
                 AfterUpsert, FinishGroup
  <2>3. Fresh' \subseteq Fresh
    BY <2>1, <2>2 DEF Fresh
  <2> QED BY <1>9, <2>1, <2>3
<1>11. CASE Push
  <2>1. CASE Cardinality(sled) >= BufferCap
    BY <1>7, <1>11, <2>1 DEF Push
  <2>2. CASE ~ (Cardinality(sled) >= BufferCap)
    <3>1. /\ sled' = sled \cup Group /\ pc' = "pushFlush" /\ pc = "push" /\ ~ Replaying
          /\ UNCHANGED <<chan, durable, pending, todo, after>>
      BY <1>11, <2>2 DEF Push, BatchInv
    <3>2. Fresh = todo /\ Fresh' = todo \ Group /\ Kept' = Kept \cup Group
      BY <3>1 DEF Fresh
    <3>3. ASSUME NEW s \in Group, NEW t \in chan \cup pending \cup Fresh',
                 TableOf[s] = TableOf[t]
          PROVE  s < t
      BY <1>n, <3>1, <3>2, <3>3 DEF FifoInv
    <3>4. \A s \in Kept, t \in chan \cup pending \cup Fresh' : TableOf[s] = TableOf[t] => s < t
      BY <3>2 DEF FifoInv
    <3>5. \A s \in Kept', t \in chan' \cup pending' \cup Fresh' :
            TableOf[s] = TableOf[t] => s < t
      BY <3>1, <3>2, <3>3, <3>4
    <3> QED BY <3>1, <3>5 DEF FifoInv
  <2> QED BY <2>1, <2>2
<1>12. CASE PushFlush \/ AckFlush
  <2>1. /\ durable' = sled /\ todo' = todo \ Group /\ pc' = "insert"
        /\ UNCHANGED <<chan, sled, pending, after>>
        /\ pc = "pushFlush" \/ Replaying
    BY <1>12 DEF PushFlush, AckFlush, FinishGroup, BatchInv
  <2>2. Fresh' \subseteq Fresh
    BY <2>1 DEF Fresh
  <2> QED BY <1>9, <2>1, <2>2
<1>13. CASE Ack
  <2>1. /\ sled' = sled \ Group /\ Replaying
        /\ UNCHANGED <<chan, durable, pending, todo, after>>
    BY <1>13 DEF Ack, BatchInv
  <2>2. Fresh' = {}
    BY <2>1 DEF Fresh
  <2> QED BY <1>9, <2>1, <2>2
<1>14. CASE DrainBatch
  <2>1. after' = "idle" /\ UNCHANGED <<chan, pending, sled, durable>>
    BY <1>14 DEF DrainBatch, StartBatch
  <2>2. Fresh' = {}
    BY <2>1 DEF Fresh
  <2> QED BY <2>1, <2>2 DEF FifoInv
<1>15. CASE BufferError
  BY <1>7, <1>15 DEF BufferError
<1>16. CASE LeaveLoop \/ InsertOk
  BY <1>1, <1>16 DEF LeaveLoop, InsertOk
<1>17. CASE BatchDone
  <2>1. pc = "insert" /\ pc' # "pushFlush" /\ UNCHANGED <<chan, pending, sled, durable, todo, after>>
    BY <1>17 DEF BatchDone, TypeOK
  <2> QED BY <1>1, <2>1
<1>18. CASE CollectorsEnd \/ Signal \/ Recovery \/ Outage \/ UNCHANGED vars
  BY <1>1, <1>18 DEF CollectorsEnd, Signal, Recovery, Outage, vars
<1>19. CASE Recv \/ Drain
  BY <1>3, <1>19 DEF Recv, Drain
<1> QED
  BY <1>2, <1>4, <1>6, <1>8, <1>10, <1>11, <1>12, <1>13, <1>14, <1>15, <1>16, <1>17, <1>18, <1>19
  DEF Next, WorkerNext, FaultNext

(* How many members of a group come before one grows from one to the next, *)
(* and is less than there are members.                                     *)
LEMMA BeforeGrows ==
  ASSUME NEW G \in SUBSET Sample, NEW s \in G, NEW t \in G
  PROVE  /\ Before(s, G) \in Nat /\ Before(s, G) < Cardinality(G)
         /\ s < t => Before(s, G) < Before(t, G)
<1> DEFINE A == {u \in G : u < s}
           B == {u \in G : u < t}
<1>1. Sample \subseteq Nat
  BY DEF Sample
<1>2. /\ A \in SUBSET Sample /\ B \in SUBSET Sample /\ A \cup {s} \in SUBSET G
      /\ s \notin A
      /\ s < t => A \cup {s} \in SUBSET B
  <2>1. s \in Nat /\ t \in Nat /\ \A u \in G : u \in Nat
    BY <1>1
  <2>2. A \cup {s} \in SUBSET G /\ A \in SUBSET Sample /\ B \in SUBSET Sample
    OBVIOUS
  <2>3. s \notin A
    BY <2>1
  <2>4. ASSUME s < t PROVE A \cup {s} \in SUBSET B
    <3>1. ASSUME NEW u \in G, u < s PROVE u < t
      BY <2>1, <2>4, <3>1
    <3>2. A \subseteq B
      BY <3>1
    <3>3. s \in B
      BY <2>4
    <3> QED BY <3>2, <3>3
  <2> QED BY <2>2, <2>3, <2>4
<1>3. /\ IsFiniteSet(A) /\ Cardinality(A) \in Nat
      /\ IsFiniteSet(B) /\ Cardinality(B) \in Nat
      /\ IsFiniteSet(G) /\ Cardinality(G) \in Nat
  BY <1>2, SampleFinite
<1>4. Cardinality(A \cup {s}) = Cardinality(A) + 1
  BY <1>2, <1>3, FS_AddElement
<1>5. Cardinality(A \cup {s}) <= Cardinality(G)
  BY <1>2, <1>3, FS_Subset
<1>6. s < t => Cardinality(A \cup {s}) <= Cardinality(B)
  BY <1>1, <1>2, <1>3, FS_Subset
<1>7. Before(s, G) = Cardinality(A) /\ Before(t, G) = Cardinality(B)
  BY DEF Before
<1> HIDE DEF A, B
<1> QED BY <1>3, <1>4, <1>5, <1>6, <1>7

(* A push gives a group keys above all others, in the order of its samples.*)
LEMMA NextKeysInv ==
  ASSUME TypeOK, BatchInv, BufferInv, PlaceInv, FifoInv, KeysInv, [Next]_vars
  PROVE  KeysInv'
<1>1. ASSUME UNCHANGED <<key, nextKey>>, Kept' \subseteq Kept PROVE KeysInv'
  BY <1>1 DEF KeysInv
<1>2. CASE Push /\ ~ (Cardinality(sled) >= BufferCap)
  <2>1. /\ sled' = sled \cup Group /\ UNCHANGED durable /\ ~ Replaying /\ pc = "push"
        /\ key' = [s \in Sample |->
                     IF s \in Group THEN nextKey + Before(s, Group) ELSE key[s]]
        /\ nextKey' = nextKey + Cardinality(Group)
    BY <1>2 DEF Push, BatchInv
  <2>2. Kept' = Kept \cup Group /\ Group \subseteq Fresh
    BY <2>1, GroupFacts DEF Kept, Fresh
  <2>3. Group \in SUBSET Sample /\ Kept \subseteq Sample /\ Sample \subseteq Nat
    BY OrderFacts, GroupFacts DEF TypeOK
  <2>4. \A s \in Kept, t \in Group : TableOf[s] = TableOf[t] => s < t
    BY <2>2 DEF FifoInv
  <2>5. Kept \cap Group = {}
    BY <2>3, <2>4
  <2>6. /\ \A s \in Kept : key'[s] = key[s] /\ key[s] \in Nat /\ key[s] < nextKey
        /\ \A s \in Group : key'[s] = nextKey + Before(s, Group)
        /\ nextKey \in Nat
    BY <2>1, <2>3, <2>5 DEF TypeOK, KeysInv
  <2>7. \A s, t \in Group : /\ Before(s, Group) \in Nat /\ Before(s, Group) < Cardinality(Group)
                            /\ s < t => Before(s, Group) < Before(t, Group)
    BY <2>3, BeforeGrows
  <2>8. Cardinality(Group) \in Nat
    BY <2>3, SampleFinite
  <2>9. \A s \in Kept' : key'[s] < nextKey'
    BY <2>1, <2>2, <2>6, <2>7, <2>8
  <2>10. ASSUME NEW s \in Kept', NEW t \in Kept', TableOf[s] = TableOf[t], s < t
         PROVE  key'[s] < key'[t]
    <3>1. CASE s \in Kept /\ t \in Kept
      BY <2>6, <2>10, <3>1 DEF KeysInv
    <3>2. CASE s \in Kept /\ t \in Group
      BY <2>6, <2>7, <3>2
    <3>3. CASE s \in Group /\ t \in Kept
      BY <2>3, <2>4, <2>10, <3>3
    <3>4. CASE s \in Group /\ t \in Group
      BY <2>6, <2>7, <2>10, <3>4
    <3> QED BY <2>2, <3>1, <3>2, <3>3, <3>4
  <2>11. ASSUME NEW s \in Kept', NEW t \in Kept', key'[s] = key'[t]
         PROVE  s = t
    <3>1. CASE s \in Kept /\ t \in Kept
      BY <2>6, <2>11, <3>1 DEF KeysInv
    <3>2. CASE s \in Kept /\ t \in Group
      BY <2>6, <2>7, <2>11, <3>2
    <3>3. CASE s \in Group /\ t \in Kept
      BY <2>6, <2>7, <2>11, <3>3
    <3>4. CASE s \in Group /\ t \in Group
      <4>1. s \in Nat /\ t \in Nat
        BY <2>3, <3>4
      <4>2. Before(s, Group) = Before(t, Group)
        BY <2>6, <2>7, <2>11, <3>4
      <4>3. ~ (s < t) /\ ~ (t < s)
        BY <2>7, <3>4, <4>2
      <4> QED BY <4>1, <4>3
    <3> QED BY <2>2, <3>1, <3>2, <3>3, <3>4
  <2> QED BY <2>9, <2>10, <2>11 DEF KeysInv
<1>3. CASE Restart
  <2>1. PICK k \in 0 .. nextKey : sled' = Recovered(k) /\ durable' = Recovered(k)
    BY <1>3 DEF Restart
  <2>2. Kept' \subseteq Kept /\ UNCHANGED <<key, nextKey>>
    BY <1>3, <2>1 DEF Recovered, Restart, Kept
  <2> QED BY <1>1, <2>2
<1>4. CASE ~ (Push /\ ~ (Cardinality(sled) >= BufferCap)) /\ ~ Restart
  <2>1. UNCHANGED <<key, nextKey>>
    BY <1>4 DEF Next, WorkerNext, FaultNext, vars, sledVars, Offer, CollectorsEnd, Signal,
         Recovery, Recv, Tick, LeaveLoop, Drain, FinalFlush, Stop, BatchDone, InsertOk,
         InsertErr, UpsertOk, Push, PushFlush, DrainBatch, Ack, AckFlush,
         InsertAmbiguous, UpsertErr, UpsertErrAt, BufferError, Outage, TakeSample
  <2>2. Kept' \subseteq Kept
    BY <1>4 DEF Next, WorkerNext, FaultNext, vars, sledVars, Offer, CollectorsEnd, Signal,
         Recovery, Recv, Tick, LeaveLoop, Drain, FinalFlush, Stop, BatchDone, InsertOk,
         InsertErr, UpsertOk, Push, PushFlush, DrainBatch, Ack, AckFlush,
         InsertAmbiguous, UpsertErr, UpsertErrAt, BufferError, Outage, TakeSample, Kept
  <2> QED BY <1>1, <2>1, <2>2
<1> QED BY <1>2, <1>3, <1>4

(* What the worker is done with and its realtime row has not been offered: *)
(* a group that waits to be acknowledged is done with, and what sled has   *)
(* not flushed may be gone.                                                *)
Missed ==
  (Stored \ ((sled \cap durable) \cup todo \cup shown))
    \cup (IF pc \in {"ack", "ackFlush"} THEN Group \ shown ELSE {})

(* The times a batch may have been left out.                               *)
Interrupted == faults["upsert"] + faults["restart"] + IF pc = "dead" THEN 1 ELSE 0

MissedInv == Cardinality(Missed) <= BatchSize * Interrupted

(* Each interruption makes at most a batch more missed.                    *)
LEMMA MissedGrows ==
  ASSUME TypeOK, SizeInv, MissedInv, NEW M \in SUBSET (Missed \cup todo), NEW n \in Nat,
         n >= Interrupted + 1
  PROVE  Cardinality(M) <= BatchSize * n
<1>1. /\ BatchSize \in Nat \ {0} /\ Interrupted \in Nat
      /\ Missed \in SUBSET Sample /\ todo \in SUBSET Sample
      /\ Missed \cup todo \in SUBSET Sample /\ Missed \cap todo \in SUBSET Sample
  BY SinkAssumption, GroupFacts
  DEF SinkAssumption, Interrupted, Missed, Stored, TypeOK, FaultKind
<1>2. \A S \in SUBSET Sample : IsFiniteSet(S) /\ Cardinality(S) \in Nat
  BY SampleFinite
<1>3. Cardinality(M) <= Cardinality(Missed \cup todo) /\ Cardinality(M) \in Nat
  BY <1>1, <1>2, FS_Subset
<1>4. Cardinality(Missed \cup todo)
        = Cardinality(Missed) + Cardinality(todo) - Cardinality(Missed \cap todo)
  BY <1>1, <1>2, FS_Union
<1>5. Cardinality(Missed) <= BatchSize * Interrupted /\ Cardinality(todo) <= BatchSize
  BY DEF MissedInv, SizeInv
<1> DEFINE i == Interrupted
<1>6. /\ Cardinality(Missed) \in Nat /\ Cardinality(todo) \in Nat
      /\ Cardinality(Missed \cap todo) \in Nat /\ Cardinality(Missed \cup todo) \in Nat
  BY <1>1, <1>2
<1>7. i \in Nat /\ Cardinality(M) <= BatchSize * i + BatchSize
  BY <1>1, <1>3, <1>4, <1>5, <1>6
<1>8. BatchSize * (i + 1) = BatchSize * i + BatchSize /\ BatchSize * (i + 1) <= BatchSize * n
  <2> HIDE DEF i
  <2>1. i + 1 <= n /\ i \in Nat
    BY <1>7 DEF i
  <2> QED BY <1>1, <2>1
<1>9. BatchSize * i \in Nat /\ BatchSize * (i + 1) \in Nat /\ BatchSize * n \in Nat
  BY <1>1, <1>7
<1> QED BY <1>1, <1>3, <1>7, <1>8, <1>9

(* A step that is no interruption makes nothing more missed.               *)
LEMMA MissedStays ==
  ASSUME TypeOK, MissedInv, Missed' \subseteq Missed, Interrupted' = Interrupted
  PROVE  MissedInv'
<1>1. Missed \in SUBSET Sample /\ Missed' \in SUBSET Sample
  BY GroupFacts DEF Missed, Stored, TypeOK
<1>2. /\ Cardinality(Missed') <= Cardinality(Missed)
      /\ Cardinality(Missed) \in Nat /\ Cardinality(Missed') \in Nat
  BY <1>1, SampleFinite, FS_Subset
<1>3. BatchSize * Interrupted \in Nat
  BY SinkAssumption DEF SinkAssumption, Interrupted, TypeOK, FaultKind
<1> QED BY <1>2, <1>3 DEF MissedInv

(* A step leaves out a batch only when it counts an interruption.          *)
LEMMA NextMissedInv ==
  ASSUME SinkInv, SizeInv, MissedInv, [Next]_vars
  PROVE  MissedInv'
<1> USE GroupFacts DEF SinkInv, Replaying, controlVars, sledVars, mysqlVars
<1>n. /\ faults["upsert"] \in Nat /\ faults["restart"] \in Nat /\ Interrupted \in Nat
      /\ Missed' = (Stored' \ ((sled' \cap durable') \cup todo' \cup shown'))
                      \cup (IF pc' \in {"ack", "ackFlush"} THEN Group' \ shown' ELSE {})
      /\ Interrupted' = faults'["upsert"] + faults'["restart"] + IF pc' = "dead" THEN 1 ELSE 0
  BY DEF Interrupted, Missed, TypeOK, FaultKind
<1>o. ~ InsertOk /\ ~ InsertAmbiguous => Stored' = Stored
  BY RowsOtherwise
<1>1. ASSUME Missed' \subseteq Missed, UNCHANGED faults, (pc' = "dead") = (pc = "dead")
      PROVE  MissedInv'
  BY <1>1, <1>n, MissedStays DEF Interrupted
<1>2. CASE Offer \/ CollectorsEnd \/ Signal \/ Recovery \/ UNCHANGED vars
  BY <1>1, <1>2, <1>n DEF Offer, CollectorsEnd, Signal, Recovery, vars, Stored, Missed
<1>3. CASE Outage
  <2>1. Missed' = Missed /\ UNCHANGED pc
    BY <1>3, <1>n DEF Outage, Missed, Stored
  <2>2. faults'["upsert"] = faults["upsert"] /\ faults'["restart"] = faults["restart"]
    BY <1>3 DEF Outage, Fault, TypeOK, FaultKind
  <2>3. Interrupted' = Interrupted
    BY <1>n, <2>1, <2>2 DEF Interrupted
  <2> QED BY <2>1, <2>3, MissedStays
<1>4. ASSUME Missed' \subseteq Missed \cup todo, Interrupted' = Interrupted + 1
      PROVE  MissedInv'
  <2>1. Interrupted' \in Nat /\ Interrupted' >= Interrupted + 1
    BY <1>n, <1>4
  <2>2. Cardinality(Missed') <= BatchSize * Interrupted'
    BY <1>4, <2>1, MissedGrows
  <2> QED BY <2>2 DEF MissedInv
<1>5. ASSUME Die, UNCHANGED <<sled, durable, shown>>, Stored' = Stored, pc # "dead",
             faults'["upsert"] = faults["upsert"], faults'["restart"] = faults["restart"]
      PROVE  MissedInv'
  <2>1. pc' = "dead" /\ todo' = {}
    BY <1>5 DEF Die, Forget
  <2>2. Missed' \subseteq Missed \cup todo
    BY <1>n, <1>5, <2>1 DEF Missed
  <2>3. Interrupted' = Interrupted + 1
    BY <1>n, <1>5, <2>1 DEF Interrupted
  <2> QED BY <1>4, <2>2, <2>3
<1>6. ASSUME NEW next \in {"replay", "drain"}, pc \in {"idle", "drain"}, TakeSample(next),
             Stored' = Stored
      PROVE  MissedInv'
  <2>1. todo = {} /\ pc' \in {pc, "insert"} /\ UNCHANGED <<sled, durable, shown, faults>>
    BY <1>6 DEF TakeSample, StartBatch, BatchInv
  <2>2. Missed' \subseteq Missed
    BY <1>n, <1>6, <2>1 DEF Missed
  <2> QED BY <1>1, <1>6, <2>1, <2>2
<1>7. CASE (Recv \/ Drain) /\ ~ InsertOk /\ ~ InsertAmbiguous
  BY <1>6, <1>7, <1>o DEF Recv, Drain
<1>8. CASE (Tick \/ FinalFlush \/ DrainBatch) /\ ~ InsertOk /\ ~ InsertAmbiguous
  <2>1. /\ todo = {} /\ pc \in {"idle", "drain", "replay"} /\ pc' = "insert"
        /\ UNCHANGED <<sled, durable, shown, faults>>
    BY <1>8 DEF Tick, FinalFlush, DrainBatch, StartBatch, BatchInv
  <2>2. Missed' \subseteq Missed
    BY <1>n, <1>o, <1>8, <2>1 DEF Missed
  <2> QED BY <1>1, <2>1, <2>2
<1>9. CASE (LeaveLoop \/ BatchDone \/ Stop) /\ ~ InsertOk /\ ~ InsertAmbiguous
  <2>1. /\ todo = {} /\ todo' = {} /\ pc \in {"idle", "insert", "final"}
        /\ pc' \in {"idle", "replay", "drain", "final", "stopped"}
        /\ UNCHANGED <<shown, faults>>
        /\ sled' = sled /\ (durable' = durable \/ durable' = sled)
    BY <1>9 DEF LeaveLoop, BatchDone, Stop, Forget, BatchInv, TypeOK
  <2>2. Missed' \subseteq Missed
    BY <1>n, <1>o, <1>9, <2>1 DEF Missed
  <2> QED BY <1>1, <2>1, <2>2
<1>10. CASE InsertOk
  <2>1. /\ pc = "insert" /\ pc' = "upsert" /\ Stored' = Stored \cup Group
        /\ UNCHANGED <<sled, durable, shown, todo, faults>>
    BY <1>10, RowsOfInsert DEF InsertOk
  <2>2. Missed' \subseteq Missed
    BY <1>n, <2>1 DEF Missed
  <2> QED BY <1>1, <2>1, <2>2
<1>11. CASE InsertAmbiguous
  <2>1. /\ pc = "insert" /\ Stored' = Stored \cup Group
        /\ \/ todo' = todo /\ pc' = "push"
           \/ Replaying /\ todo' = todo \ Group /\ pc' = "insert"
        /\ UNCHANGED <<sled, durable, shown>>
    BY <1>11, RowsOfInsert DEF InsertAmbiguous, OnInsertError, FinishGroup
  <2>2. sled = durable /\ (Replaying => todo \subseteq sled)
    BY <2>1 DEF SizeInv, BufferInv
  <2>3. Missed' \subseteq Missed
    BY <1>n, <2>1, <2>2 DEF Missed
  <2>4. faults'["upsert"] = faults["upsert"] /\ faults'["restart"] = faults["restart"]
    BY <1>11, FaultCount DEF InsertAmbiguous, FaultKind
  <2>5. Interrupted' = Interrupted
    BY <1>n, <2>1, <2>4 DEF Interrupted
  <2> QED BY <2>3, <2>5, MissedStays
<1>12. CASE InsertErr /\ ~ InsertOk /\ ~ InsertAmbiguous
  <2>1. /\ pc = "insert"
        /\ \/ todo' = todo /\ pc' = "push"
           \/ Replaying /\ todo' = todo \ Group /\ pc' = "insert"
        /\ UNCHANGED <<sled, durable, shown, faults>>
    BY <1>12 DEF InsertErr, OnInsertError, FinishGroup
  <2>2. sled = durable /\ (Replaying => todo \subseteq sled)
    BY <2>1 DEF SizeInv, BufferInv
  <2>3. Missed' \subseteq Missed
    BY <1>n, <1>o, <1>12, <2>1, <2>2 DEF Missed
  <2> QED BY <1>1, <2>1, <2>3
<1>13. CASE UpsertOk /\ ~ InsertOk /\ ~ InsertAmbiguous
  <2>1. /\ pc = "upsert" /\ shown' = shown \cup Group
        /\ \/ todo' = todo /\ pc' = "ack"
           \/ todo' = todo \ Group /\ pc' = "insert"
        /\ UNCHANGED <<sled, durable, faults>>
    BY <1>13 DEF UpsertOk, AfterUpsert, FinishGroup
  <2>2. Missed' \subseteq Missed
    BY <1>n, <1>o, <1>13, <2>1 DEF Missed
  <2> QED BY <1>1, <2>1, <2>2
<1>14. CASE UpsertErr /\ ~ InsertOk /\ ~ InsertAmbiguous
  <2>1. /\ pc = "upsert" /\ shown \subseteq shown'
        /\ \/ todo' = todo /\ pc' = "ack"
           \/ todo' = todo \ Group /\ pc' = "insert"
        /\ UNCHANGED <<sled, durable>>
    BY <1>14 DEF UpsertErr, UpsertErrAt, UpsertedBefore, AfterUpsert, FinishGroup
  <2>2. Missed' \subseteq Missed \cup todo
    BY <1>n, <1>o, <1>14, <2>1 DEF Missed
  <2>3. /\ faults'["upsert"] = faults["upsert"] + 1
        /\ faults'["restart"] = faults["restart"]
    BY <1>14, FaultCount DEF UpsertErr, UpsertErrAt, FaultKind
  <2>4. Interrupted' = Interrupted + 1
    BY <1>n, <2>1, <2>3 DEF Interrupted
  <2> QED BY <1>4, <2>2, <2>4
<1>15. CASE Restart /\ ~ InsertOk /\ ~ InsertAmbiguous
  <2>1. PICK k \in 0 .. nextKey : sled' = Recovered(k) /\ durable' = Recovered(k)
    BY <1>15 DEF Restart
  <2>2. sled \cap durable \subseteq Recovered(k)
    BY DEF Recovered
  <2>3. pc' = "replay" /\ todo' = {} /\ UNCHANGED shown
    BY <1>15 DEF Restart, Forget
  <2>4. Missed' \subseteq Missed \cup todo
    BY <1>n, <1>o, <1>15, <2>1, <2>2, <2>3 DEF Missed
  <2>5. /\ faults'["upsert"] = faults["upsert"]
        /\ faults'["restart"] = faults["restart"] + 1
    BY <1>15, FaultCount DEF Restart, FaultKind
  <2>6. CASE pc = "dead"
    <3>1. todo = {}
      BY <2>6 DEF BatchInv
    <3>2. Interrupted' = Interrupted
      BY <1>n, <2>3, <2>5, <2>6 DEF Interrupted
    <3> QED BY <2>4, <3>1, <3>2, MissedStays
  <2>7. CASE pc # "dead"
    <3>1. Interrupted' = Interrupted + 1
      BY <1>n, <2>3, <2>5, <2>7 DEF Interrupted
    <3> QED BY <1>4, <2>4, <3>1
  <2> QED BY <2>6, <2>7
<1>16. CASE Push /\ ~ InsertOk /\ ~ InsertAmbiguous
  <2>1. CASE Cardinality(sled) >= BufferCap
    BY <1>5, <1>o, <1>16, <2>1 DEF Push
  <2>2. CASE ~ (Cardinality(sled) >= BufferCap)
    <3>1. /\ pc = "push" /\ pc' = "pushFlush" /\ sled \subseteq sled'
          /\ UNCHANGED <<durable, todo, shown, faults>>
      BY <1>16, <2>2 DEF Push
    <3>2. Missed' \subseteq Missed
      BY <1>n, <1>o, <1>16, <3>1 DEF Missed
    <3> QED BY <1>1, <3>1, <3>2
  <2> QED BY <2>1, <2>2
<1>17. CASE PushFlush /\ ~ InsertOk /\ ~ InsertAmbiguous
  <2>1. /\ pc = "pushFlush" /\ pc' = "insert" /\ durable' = sled /\ todo' = todo \ Group
        /\ UNCHANGED <<sled, shown, faults>>
    BY <1>17 DEF PushFlush, FinishGroup
  <2>2. Group \subseteq sled
    BY <2>1 DEF BatchInv
  <2>3. Missed' \subseteq Missed
    BY <1>n, <1>o, <1>17, <2>1, <2>2 DEF Missed
  <2> QED BY <1>1, <2>1, <2>3
<1>18. CASE Ack /\ ~ InsertOk /\ ~ InsertAmbiguous
  <2>1. /\ pc = "ack" /\ pc' = "ackFlush" /\ sled' = sled \ Group
        /\ UNCHANGED <<durable, todo, shown, faults>>
    BY <1>18 DEF Ack
  <2>2. Missed' \subseteq Missed
    BY <1>n, <1>o, <1>18, <2>1 DEF Missed
  <2> QED BY <1>1, <2>1, <2>2
<1>19. CASE AckFlush /\ ~ InsertOk /\ ~ InsertAmbiguous
  <2>1. /\ pc = "ackFlush" /\ pc' = "insert" /\ durable' = sled /\ todo' = todo \ Group
        /\ UNCHANGED <<sled, shown, faults>>
    BY <1>19 DEF AckFlush, FinishGroup
  <2>2. sled \subseteq durable
    BY <2>1 DEF SizeInv
  <2>3. Missed' \subseteq Missed
    BY <1>n, <1>o, <1>19, <2>1, <2>2 DEF Missed
  <2> QED BY <1>1, <2>1, <2>3
<1>20. CASE BufferError /\ ~ InsertOk /\ ~ InsertAmbiguous
  <2>1. /\ Die /\ UNCHANGED <<sled, durable, shown>> /\ pc # "dead"
        /\ faults'["upsert"] = faults["upsert"] /\ faults'["restart"] = faults["restart"]
    BY <1>20, FaultCount DEF BufferError, FaultKind
  <2> QED BY <1>5, <1>o, <1>20, <2>1
<1> QED
  BY <1>2, <1>3, <1>7, <1>8, <1>9, <1>10, <1>11, <1>12, <1>13, <1>14, <1>15, <1>16, <1>17,
     <1>18, <1>19, <1>20
  DEF Next, WorkerNext, FaultNext

(* The invariant of the buffer, and of what is missed, on top of SinkInv.  *)
LEMMA BufferInvariance == Spec => [](SizeInv /\ FifoInv /\ KeysInv /\ MissedInv)
<1>1. Init => SizeInv /\ FifoInv /\ KeysInv /\ MissedInv
  <2> SUFFICES ASSUME Init PROVE SizeInv /\ FifoInv /\ KeysInv /\ MissedInv
    OBVIOUS
  <2>1. Cardinality({}) = 0 /\ BatchSize \in Nat \ {0} /\ BufferCap \in Nat
    BY FS_EmptySet, SinkAssumption DEF SinkAssumption
  <2>2. SizeInv /\ FifoInv /\ KeysInv
    BY <2>1 DEF Init, SizeInv, FifoInv, KeysInv, Kept, Fresh, Replaying
  <2>3. Missed = {} /\ Interrupted = 0
    BY DEF Init, Missed, Stored, Interrupted, FaultKind
  <2> QED BY <2>1, <2>2, <2>3 DEF MissedInv
<1>2. SinkInv /\ SizeInv /\ FifoInv /\ KeysInv /\ MissedInv /\ [Next]_vars
        => SizeInv' /\ FifoInv' /\ KeysInv' /\ MissedInv'
  BY NextSizeInv, NextFifoInv, NextKeysInv, NextMissedInv DEF SinkInv
<1> QED BY <1>1, <1>2, Invariance, PTL DEF Spec

(* Realtime rows follow the history rows, but for a batch for every upsert *)
(* that failed and every end of the worker (insert_sample_refs).           *)
THEOREM RealtimeFollows == Spec => []RealtimeFollowsHistory
<1>1. SinkInv /\ MissedInv => RealtimeFollowsHistory
  <2> SUFFICES ASSUME SinkInv, MissedInv PROVE RealtimeFollowsHistory
    OBVIOUS
  <2> DEFINE M == Stored \ (sled \cup todo \cup shown)
  <2>1. M \subseteq Missed /\ Missed \in SUBSET Sample /\ M \in SUBSET Sample
    BY GroupFacts DEF Missed, Stored, SinkInv, TypeOK
  <2>2. /\ Cardinality(M) <= Cardinality(Missed)
        /\ Cardinality(M) \in Nat /\ Cardinality(Missed) \in Nat
    BY <2>1, SampleFinite, FS_Subset
  <2>3. BatchSize * Interrupted \in Nat /\ Cardinality(Missed) <= BatchSize * Interrupted
    BY SinkAssumption DEF SinkAssumption, Interrupted, SinkInv, TypeOK, FaultKind, MissedInv
  <2>4. Cardinality(M) <= BatchSize * Interrupted
    BY <2>2, <2>3
  <2> QED BY <2>4 DEF RealtimeFollowsHistory, Interrupted
<1> QED BY <1>1, Invariance, BufferInvariance, PTL

(* The buffer overshoots its limit by less than one batch, whatever        *)
(* restarts and failing flushes bring back (ensure_size_available).        *)
THEOREM BufferStaysBounded == Spec => []BufferBounded
<1>1. SizeInv => BufferBounded
  BY DEF SizeInv, BufferBounded
<1> QED BY <1>1, BufferInvariance, PTL

(* The samples of a table are replayed in the order they arrived, across   *)
(* failed replays and restarts (generate_id, drain_batch).                 *)
THEOREM ReplayIsOrdered == Spec => []ReplayKeepsOrder
<1>1. KeysInv => ReplayKeepsOrder
  BY DEF KeysInv, Kept, ReplayKeepsOrder
<1> QED BY <1>1, BufferInvariance, PTL

-----------------------------------------------------------------------------
(* The worker implements SinkDelivery. *)

(* The status of a sample, one condition at a time. *)
StatusMeans(s) ==
  /\ StatusOf(s) = "stored" <=> rows[s] > 0
  /\ StatusOf(s) = "lost" <=> s \in lost
  /\ StatusOf(s) = "buffered" <=> rows[s] = 0 /\ s \in durable
  /\ StatusOf(s) = "refused" <=> s \in dropped
  /\ StatusOf(s) = "offered" <=> s > offered
  /\ StatusOf(s) \in {"offered", "refused", "memory", "buffered", "stored", "lost"}

(* The status of a sample is decided by the state variables the way        *)
(* StatusMeans says: in a state of the invariant the cases exclude one another.*)
LEMMA StatusCases == SinkInv => \A s \in Sample : StatusMeans(s)
<1> SUFFICES ASSUME SinkInv, NEW s \in Sample PROVE StatusMeans(s)
  OBVIOUS
<1>1. rows[s] \in Nat
  BY DEF SinkInv, TypeOK
<1>2. /\ s \in lost \/ s \in dropped => rows[s] = 0 /\ s \notin sled
      /\ ~(s \in lost /\ s \in dropped)
      /\ s > offered => rows[s] = 0 /\ s \notin sled /\ s \notin lost /\ s \notin dropped
  BY DEF SinkInv, PlaceInv, Held
<1>3. s \in durable /\ rows[s] = 0 => s \in sled
  BY DEF SinkInv, BufferInv, Stored
<1> QED
  BY <1>1, <1>2, <1>3 DEF StatusOf, StatusMeans

(* The same after a step.                                                  *)
LEMMA StatusCasesNext == SinkInv' => (\A s \in Sample : StatusMeans(s))'
BY StatusCases, PTL

(* Where a step can move a sample that was offered or refused before it. *)
LEMMA OfferStep ==
  ASSUME TypeOK, [Next]_vars
  PROVE  /\ dropped \subseteq dropped'
         /\ lost \subseteq lost'
         /\ \A s \in Sample : s <= offered => s <= offered' /\ (s \in dropped' => s \in dropped)
         /\ \A s \in Sample : s > offered =>
              s > offered' \/ UNCHANGED <<lost, rows, durable>>
<1>1. CASE Offer
  BY <1>1 DEF Offer, TypeOK, Sample, sledVars, mysqlVars
<1>2. CASE ~Offer
  <2>1. UNCHANGED <<offered, dropped>>
    BY <1>2 DEF Next, WorkerNext, FaultNext, vars, collectorVars, CollectorsEnd, Signal,
         Recovery, Recv, Tick, LeaveLoop, Drain, FinalFlush, Stop, BatchDone, InsertOk,
         InsertErr, UpsertOk, Push, PushFlush, DrainBatch, Ack, AckFlush,
         InsertAmbiguous, UpsertErr, UpsertErrAt, UpsertedBefore, BufferError, Outage, Restart, TakeSample
  <2>2. lost \subseteq lost'
    BY <1>2 DEF Next, WorkerNext, FaultNext, vars, CollectorsEnd, Signal, Die, Forget,
         Recovery, Recv, Tick, LeaveLoop, Drain, FinalFlush, Stop, BatchDone, InsertOk,
         InsertErr, UpsertOk, Push, PushFlush, DrainBatch, Ack, AckFlush,
         InsertAmbiguous, UpsertErr, UpsertErrAt, UpsertedBefore, BufferError, Outage, Restart, TakeSample
  <2> QED
    BY <2>1, <2>2
<1> QED
  BY <1>1, <1>2

(* A step moves a sample as SinkDelivery promises. *)
LEMMA DeliveryStep ==
  ASSUME SinkInv, SinkInv', [Next]_vars, NEW s \in Sample, StatusOf(s)' # StatusOf(s)
  PROVE  <<StatusOf(s), StatusOf(s)'>> \in Delivery!Promised
<1>1. StatusMeans(s) /\ StatusMeans(s)'
  BY StatusCases, StatusCasesNext
<1>2. /\ s \in durable => s \in durable' \/ rows'[s] > 0
      /\ rows[s] > 0 => rows'[s] > 0
  <2>1. Stored \subseteq Stored'
    BY RowsOfInsert, RowsOtherwise DEF SinkInv
  <2> QED
    BY <2>1, DurableStep DEF Stored
<1>3. /\ rows[s] \in Nat /\ rows'[s] \in Nat /\ s \in Nat
      /\ offered \in Nat /\ offered' \in Nat
      /\ s \in dropped' \cup lost' => rows'[s] = 0
  BY SinkAssumption DEF SinkAssumption, SinkInv, TypeOK, PlaceInv, Sample
<1>4. /\ s \in dropped => s \in dropped'
      /\ s \in lost => s \in lost'
      /\ s <= offered => s <= offered' /\ (s \in dropped' => s \in dropped)
      /\ s > offered => s > offered' \/ UNCHANGED <<lost, rows, durable>>
  BY OfferStep DEF SinkInv
<1>5. s > offered => s \notin lost /\ s \notin durable /\ rows[s] = 0
  BY DEF SinkInv, PlaceInv, BufferInv, Held, Stored
<1> QED
  BY <1>1, <1>2, <1>3, <1>4, <1>5 DEF StatusMeans, Delivery!Promised

(* Every behaviour of the worker is one SinkDelivery allows. *)
THEOREM DeliveryRefined == Spec => ImplementsDelivery
<1> DEFINE status == [s \in Sample |-> StatusOf(s)]
<1>1. Init => Delivery!Init
  <2> SUFFICES ASSUME Init, NEW s \in Sample PROVE StatusOf(s) = "offered"
    BY DEF Delivery!Init
  <2>1. s > offered
    BY DEF Init, Sample
  <2> QED
    BY <2>1, InitSinkInv, StatusCases DEF StatusMeans
<1>2. SinkInv /\ SinkInv' /\ [Next]_vars => [Delivery!Next]_status
  <2> SUFFICES ASSUME SinkInv, SinkInv', [Next]_vars PROVE Delivery!Next
    OBVIOUS
  <2>1. \A s \in Sample : StatusOf(s)' \in Delivery!Status
    BY StatusCasesNext DEF StatusMeans, Delivery!Status
  <2>2. status' = [s \in Sample |-> StatusOf(s)']
    OBVIOUS
  <2>3. \A s \in Sample : status[s] = StatusOf(s) /\ status'[s] = StatusOf(s)'
    BY <2>2
  <2>4. \A s \in Sample : status'[s] # status[s] => <<status[s], status'[s]>> \in Delivery!Promised
    BY <2>3, DeliveryStep
  <2> QED
    BY <2>1, <2>2, <2>4 DEF Delivery!Next
<1> QED
  BY <1>1, <1>2, Invariance, PTL DEF Spec, ImplementsDelivery, Delivery!Spec
=============================================================================
