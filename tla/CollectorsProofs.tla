-------------------------- MODULE CollectorsProofs --------------------------
(***************************************************************************)
(* Proofs about Collectors: for any number of subscriptions, batches,      *)
(* endpoints, sessions and failures, a collector that runs monitors every  *)
(* item and leaves no complete session behind.                             *)
(***************************************************************************)
EXTENDS Collectors, SequenceTheorems, TLAPS

(* The parts of the invariant about the two collectors. *)
OpcTypeOK ==
  /\ limit \in RetryLimits
  /\ shutdown \in BOOLEAN
  /\ opc \in {"check", "connect", "wait", "subscribe", "items", "run", "sleep",
              "ok", "err", "panicked"}
  /\ sub \in 1 .. NSubs /\ batch \in 1 .. NBatches
  /\ loops \in Seq(Loop)
  /\ opc \in {"wait", "subscribe", "items", "run"} => loops # <<>>
  /\ failures \in Nat

(* What has been sent for a session is what it monitors or was refused.    *)
Holds(l, sent) == l.refused \subseteq sent /\ l.items = sent \ l.refused

Building == opc \in {"wait", "subscribe", "items", "run"} => Holds(Current, SentSoFar)

NoneLeft ==
  \A i \in DOMAIN loops :
    Live(loops[i]) /\ Complete(loops[i]) => i = Len(loops) /\ opc \in {"run", "ok"}

OpcInv == OpcTypeOK /\ Building /\ NoneLeft

WcsInv ==
  /\ wcs \in {"check", "build", "select", "poll", "sleep", "ended"}
  /\ asked \in 0 .. NEndpoints /\ (wcs = "poll" => asked < NEndpoints)
  /\ ticks \in Nat
  /\ wcs # "poll" => asked \in {0, NEndpoints}

LEMMA InvParts == CollectorsInv <=> OpcInv /\ WcsInv
BY DEF CollectorsInv, CollectorsTypeOK, OpcInv, OpcTypeOK, Building, Holds, NoneLeft, WcsInv

(* The last event loop is the collector's. *)
LEMMA CurrentIsLast ==
  ASSUME OpcTypeOK, loops # <<>>
  PROVE  /\ Len(loops) \in DOMAIN loops /\ Current \in Loop
         /\ Len(loops) \in Nat /\ DOMAIN loops = 1 .. Len(loops)
<1>1. loops \in Seq(Loop)
  BY DEF OpcTypeOK
<1> QED
  <2> HIDE DEF Loop
  <2>1. Len(loops) \in DOMAIN loops /\ Len(loops) \in Nat /\ DOMAIN loops = 1 .. Len(loops)
    BY <1>1
  <2> QED BY <1>1, <2>1 DEF Current

(* A function on 1 .. k is a sequence of length k. *)
LEMMA FunctionIsSequence ==
  ASSUME NEW S, NEW k \in Nat, NEW f \in [1 .. k -> S]
  PROVE  f \in Seq(S) /\ Len(f) = k /\ DOMAIN f = 1 .. k
  OBVIOUS

(* One event loop has changed.                                             *)
LEMMA OneChanges ==
  ASSUME OpcTypeOK, NEW i \in DOMAIN loops, NEW new \in Loop, loops' = [loops EXCEPT ![i] = new]
  PROVE  /\ loops' \in Seq(Loop) /\ Len(loops') = Len(loops) /\ DOMAIN loops' = DOMAIN loops
         /\ loops' # <<>>
         /\ \A j \in DOMAIN loops : loops'[j] = IF j = i THEN new ELSE loops[j]
<1> DEFINE n == Len(loops)
<1>1. loops \in Seq(Loop) /\ loops # <<>>
  BY DEF OpcTypeOK
<1>2. n \in Nat /\ DOMAIN loops = 1 .. n
  BY <1>1, CurrentIsLast
<1> HIDE DEF Loop
<1>3. loops' \in [1 .. n -> Loop]
  <2>1. loops \in [1 .. n -> Loop]
    BY <1>1, <1>2
  <2> QED BY <1>2, <2>1
<1>4. loops' \in Seq(Loop) /\ Len(loops') = n /\ DOMAIN loops' = 1 .. n
  <2> HIDE DEF n
  <2> QED BY <1>2, <1>3, FunctionIsSequence
<1> QED BY <1>1, <1>2, <1>4

(* A step that leaves the event loops alone and ends or goes on with a     *)
(* set-up that is not complete.                                            *)
LEMMA Unfinished ==
  ASSUME CollectorsAssumption, OpcInv, opc \in {"wait", "subscribe", "items"}
  PROVE  \A i \in DOMAIN loops : ~ (Live(loops[i]) /\ Complete(loops[i]))
BY DEF OpcInv, NoneLeft

LEMMA InitInv == CollectorsAssumption /\ Init => CollectorsInv
<1> SUFFICES ASSUME CollectorsAssumption, Init PROVE CollectorsInv
  OBVIOUS
<1>1. OpcTypeOK
  <2>1. 1 \in 1 .. NSubs /\ 1 \in 1 .. NBatches
    BY DEF CollectorsAssumption
  <2>2. loops \in Seq(Loop)
    <3> HIDE DEF Loop
    <3> QED BY DEF Init
  <2> QED BY <2>1, <2>2 DEF Init, OpcTypeOK
<1>2. Building /\ NoneLeft
  BY DEF Init, Building, NoneLeft
<1>3. WcsInv
  BY DEF CollectorsAssumption, Init, WcsInv
<1> QED BY <1>1, <1>2, <1>3, InvParts DEF OpcInv
-----------------------------------------------------------------------------
(* A collector without a session of its own leaves none that is complete. *)
LEMMA IdleSteps ==
  ASSUME CollectorsAssumption, OpcInv, Check \/ Sleep
  PROVE  OpcInv'
<1>1. UNCHANGED <<limit, shutdown, sub, batch, loops, failures>>
  BY DEF Check, Sleep, wcsVars
<1>2. opc \in {"check", "sleep"} /\ opc' \in {"check", "connect", "ok"}
  BY DEF Check, Sleep
<1>3. OpcTypeOK' /\ Building' /\ NoneLeft'
  BY <1>1, <1>2 DEF OpcInv, OpcTypeOK, Building, Holds, NoneLeft, Live, Complete, Loop, Items
<1> QED BY <1>3 DEF OpcInv

(* A set-up that fails is not complete. *)
LEMMA FailedSteps ==
  ASSUME CollectorsAssumption, OpcInv,
         DescriptionMapError \/ SetupError \/ SetupPanics \/ (WaitEnds /\ opc' # "subscribe")
  PROVE  OpcInv'
<1>1. UNCHANGED <<limit, shutdown, sub, batch, loops>>
  BY DEF DescriptionMapError, SetupError, SetupPanics, WaitEnds, wcsVars
<1>2. opc \in {"wait", "subscribe", "items"} /\ opc' \in {"sleep", "err", "panicked"}
  BY DEF DescriptionMapError, SetupError, SetupPanics, WaitEnds, Failed
<1>3. failures' \in Nat
  BY DEF DescriptionMapError, SetupError, SetupPanics, WaitEnds, Failure, OpcInv, OpcTypeOK
<1>4. OpcTypeOK' /\ Building'
  BY <1>1, <1>2, <1>3 DEF OpcInv, OpcTypeOK, Building, Holds, Loop, Items
<1>5. NoneLeft'
  BY <1>1, <1>2, Unfinished DEF NoneLeft, Live, Complete, Items
<1> QED BY <1>4, <1>5 DEF OpcInv

LEMMA ConnectStep ==
  ASSUME CollectorsAssumption, OpcInv, Connect
  PROVE  OpcInv'
<1>1. UNCHANGED <<limit, shutdown, sub, batch, failures>> /\ opc = "connect"
  BY DEF Connect, wcsVars
<1>2. \A i \in DOMAIN loops : ~ (Live(loops[i]) /\ Complete(loops[i]))
  BY <1>1 DEF OpcInv, NoneLeft
<1>3. CASE Failed /\ UNCHANGED loops
  <2>1. opc' \in {"sleep", "err"}
    BY <1>3 DEF Failed
  <2>2. OpcTypeOK' /\ Building'
    BY <1>1, <1>3, <2>1 DEF OpcInv, OpcTypeOK, Building, Holds, Loop, Items
  <2>3. NoneLeft'
    BY <1>2, <1>3 DEF NoneLeft, Live, Complete, Items
  <2> QED BY <2>2, <2>3 DEF OpcInv
<1>4. CASE /\ loops' = Append(loops, NewLoop)
           /\ opc' = "wait"
  <2> DEFINE new == NewLoop
             n   == Len(loops) + 1
  <2>1. new \in Loop
    <3>1. NSubs \in Nat
      BY DEF CollectorsAssumption
    <3> QED BY <3>1 DEF Loop, NewLoop
  <2>2. loops \in Seq(Loop)
    BY DEF OpcInv, OpcTypeOK
  <2>3. /\ loops' \in Seq(Loop) /\ Len(loops') = n /\ loops'[n] = new /\ loops' # <<>>
        /\ \A i \in DOMAIN loops' : i = n \/ (i \in DOMAIN loops /\ loops'[i] = loops[i])
    <3> HIDE DEF Loop
    <3> QED BY <1>4, <2>1, <2>2
  <2>4. OpcTypeOK'
    BY <1>1, <1>4, <2>3 DEF OpcInv, OpcTypeOK, Loop, Items
  <2>5. Building'
    BY <1>4, <2>3 DEF Building, Holds, Current, SentSoFar, NewLoop
  <2>6. Items # {}
    <3>1. 1 \in 1 .. NSubs /\ 1 \in 1 .. NBatches /\ 1 \in 1 .. NItems
      BY DEF CollectorsAssumption
    <3>2. <<1, 1, 1>> \in Items
      BY <3>1 DEF Items
    <3> QED BY <3>2
  <2>7. NoneLeft'
    BY <1>2, <2>3, <2>6 DEF NoneLeft, Live, Complete, Items, NewLoop
  <2> QED BY <2>4, <2>5, <2>7 DEF OpcInv
<1> QED BY <1>3, <1>4 DEF Connect

(* The set-up goes on to the next subscription. *)
LEMMA AdvanceSteps ==
  ASSUME CollectorsAssumption, OpcInv, Connected \/ (WaitEnds /\ opc' = "subscribe")
  PROVE  OpcInv'
<1>1. /\ UNCHANGED <<limit, shutdown, batch, loops, failures>>
      /\ opc = "wait" /\ opc' = "subscribe" /\ sub' = 1
  BY DEF Connected, WaitEnds, Failed, wcsVars
<1>2. sub' \in 1 .. NSubs
  BY <1>1 DEF CollectorsAssumption
<1>3. OpcTypeOK'
  BY <1>1, <1>2 DEF OpcInv, OpcTypeOK, Loop, Items
<1>4. SentSoFar' = SentSoFar
  <2>1. \A i \in Items : ~ (i[1] < 1)
    BY DEF Items
  <2> QED BY <1>1, <2>1 DEF SentSoFar, Items
<1>5. Building'
  BY <1>1, <1>4 DEF OpcInv, Building, Holds, Current
<1>6. NoneLeft'
  BY <1>1, Unfinished DEF NoneLeft, Live, Complete, Items
<1> QED BY <1>3, <1>5, <1>6 DEF OpcInv

(* A subscription is created, without items yet.                           *)
LEMMA CreateSubscriptionStep ==
  ASSUME CollectorsAssumption, OpcInv, CreateSubscription
  PROVE  OpcInv'
<1> DEFINE n   == Len(loops)
           new == [loops[n] EXCEPT !.subs = sub]
<1>1. /\ opc = "subscribe" /\ opc' = "items" /\ batch' = 1
      /\ UNCHANGED <<limit, shutdown, sub, failures>>
      /\ loops' = [loops EXCEPT ![n] = new]
      /\ sub \in 1 .. NSubs /\ loops # <<>>
  BY DEF CreateSubscription, wcsVars, OpcInv, OpcTypeOK
<1>2. n \in DOMAIN loops /\ loops[n] \in Loop
  BY <1>1, CurrentIsLast DEF OpcInv, Current
<1>3. /\ new \in Loop /\ new.state = loops[n].state
      /\ new.items = loops[n].items /\ new.refused = loops[n].refused
  <2>1. sub \in 0 .. NSubs
    BY <1>1
  <2> QED BY <1>2, <2>1 DEF Loop
<1>4. /\ loops' \in Seq(Loop) /\ Len(loops') = n /\ DOMAIN loops' = DOMAIN loops
      /\ loops' # <<>>
      /\ \A j \in DOMAIN loops : loops'[j] = IF j = n THEN new ELSE loops[j]
  <2> HIDE DEF Loop, new
  <2> QED BY <1>1, <1>2, <1>3, OneChanges DEF OpcInv
<1>5. OpcTypeOK'
  <2>1. batch' \in 1 .. NBatches
    BY <1>1 DEF CollectorsAssumption
  <2> QED BY <1>1, <1>4, <2>1 DEF OpcInv, OpcTypeOK, Loop, Items
<1>6. SentSoFar' = SentSoFar
  <2>1. \A i \in Items : ~ (i[2] < 1)
    BY DEF Items
  <2> QED BY <1>1, <2>1 DEF SentSoFar, Items
<1>7. Current'.items = Current.items /\ Current'.refused = Current.refused
  BY <1>2, <1>3, <1>4 DEF Current
<1>8. Building'
  BY <1>1, <1>6, <1>7 DEF OpcInv, Building, Holds
<1>9. NoneLeft'
  BY <1>1, <1>3, <1>4, Unfinished DEF NoneLeft, Live, Complete, Items
<1> QED BY <1>5, <1>8, <1>9 DEF OpcInv

(* A batch of items is sent: the set-up is complete only with the last,    *)
(* whichever of the items the server refuses.                              *)
LEMMA CreateItemsStep ==
  ASSUME CollectorsAssumption, OpcInv, CreateItems
  PROVE  OpcInv'
<1> DEFINE n    == Len(loops)
           sent == Batch(sub, batch)
           upTo == {i \in Items : i[1] < sub \/ (i[1] = sub /\ i[2] <= batch)}
<1>1. /\ opc = "items" /\ UNCHANGED <<limit, shutdown>>
      /\ sub \in 1 .. NSubs /\ batch \in 1 .. NBatches /\ loops # <<>>
  BY DEF CreateItems, wcsVars, OpcInv, OpcTypeOK
<1>2. PICK refused \in SUBSET sent : Answer(sent, refused)
  BY DEF CreateItems
<1> DEFINE new == [loops[n] EXCEPT !.items = @ \cup (sent \ refused), !.refused = @ \cup refused]
<1>3. failures' \in Nat
  <2>1. failures \in Nat
    BY DEF OpcInv, OpcTypeOK
  <2> QED BY <1>2, <2>1 DEF Answer, Failure
<1>4. n \in DOMAIN loops /\ loops[n] \in Loop
  BY <1>1, CurrentIsLast DEF OpcInv, Current
<1>5. sent \subseteq Items /\ refused \subseteq Items
  BY <1>2 DEF Batch
<1>6. /\ new \in Loop
      /\ new.items = loops[n].items \cup (sent \ refused)
      /\ new.refused = loops[n].refused \cup refused
  BY <1>4, <1>5 DEF Loop
<1>7. loops' = [loops EXCEPT ![n] = new]
  BY <1>2, <1>4 DEF Answer
<1>8. /\ loops' \in Seq(Loop) /\ Len(loops') = n /\ DOMAIN loops' = DOMAIN loops
      /\ loops' # <<>>
      /\ \A j \in DOMAIN loops : loops'[j] = IF j = n THEN new ELSE loops[j]
  <2> HIDE DEF Loop, new
  <2> QED BY <1>4, <1>6, <1>7, OneChanges DEF OpcInv
<1>9. Current' = new
  BY <1>4, <1>8 DEF Current
<1>10. Holds(loops[n], {i \in Items : i[1] < sub \/ (i[1] = sub /\ i[2] < batch)})
  BY <1>1 DEF OpcInv, Building, Current, SentSoFar
<1>11. Holds(new, upTo)
  <2>1. \A i \in Items : i[1] \in Int /\ i[2] \in Int
    BY DEF Items
  <2>2. sub \in Int /\ batch \in Int
    BY <1>1
  <2>3. \A i \in Items : i[1] < sub \/ (i[1] = sub /\ i[2] <= batch)
          <=> (i[1] < sub \/ (i[1] = sub /\ i[2] < batch)) \/ (i[1] = sub /\ i[2] = batch)
    BY <2>1, <2>2
  <2>4. upTo = {i \in Items : i[1] < sub \/ (i[1] = sub /\ i[2] < batch)} \cup sent
    BY <2>3 DEF Batch
  <2>5. sent \cap {i \in Items : i[1] < sub \/ (i[1] = sub /\ i[2] < batch)} = {}
    BY <2>1, <2>2 DEF Batch
  <2> HIDE DEF sent, upTo, new
  <2> QED BY <1>2, <1>6, <1>10, <2>4, <2>5 DEF Holds
<1>12. \A i \in DOMAIN loops : ~ (Live(loops[i]) /\ Complete(loops[i]))
  BY <1>1, Unfinished
<1>13. NSubs \in Nat /\ NBatches \in Nat /\ 1 \in 1 .. NItems
  BY DEF CollectorsAssumption
<1>14. \A i \in Items : i[1] \in 1 .. NSubs /\ i[2] \in 1 .. NBatches
  BY DEF Items
<1>15. ASSUME NEW i \in Items, i \notin upTo PROVE ~ Complete(new)
  BY <1>11, <1>15 DEF Holds, Complete
<1>16. (opc' = "run" \/ ~ Complete(new)) => NoneLeft'
  <2> HIDE DEF Loop, new
  <2>1. ASSUME opc' = "run" \/ ~ Complete(new), NEW i \in DOMAIN loops',
               Live(loops'[i]), Complete(loops'[i])
        PROVE  i = Len(loops') /\ opc' \in {"run", "ok"}
    <3>1. i = n
      BY <1>8, <1>12, <2>1
    <3> QED BY <1>4, <1>8, <2>1, <3>1
  <2>2. ASSUME opc' = "run" \/ ~ Complete(new), NEW i \in DOMAIN loops'
        PROVE  (Live(loops[i]) /\ Complete(loops[i]) => i = Len(loops) /\ opc \in {"run", "ok"})'
    BY <2>1, <2>2 DEF Live, Complete, Items
  <2> HIDE DEF Complete
  <2> QED BY <2>2 DEF NoneLeft
<1>17. CASE batch < NBatches
  <2>1. batch' = batch + 1 /\ opc' = "items" /\ sub' = sub
    BY <1>1, <1>17 DEF CreateItems, NextBatch
  <2>2. OpcTypeOK'
    <3>1. limit \in RetryLimits /\ shutdown \in BOOLEAN
      BY DEF OpcInv, OpcTypeOK
    <3>2. batch' \in 1 .. NBatches
      BY <1>1, <1>13, <1>17, <2>1
    <3>3. loops' \in Seq(Loop)'
      <4> HIDE DEF new
      <4> QED BY <1>8 DEF Loop, Items
    <3> QED BY <1>1, <1>3, <1>8, <2>1, <3>1, <3>2, <3>3 DEF OpcTypeOK
  <2>3. \A i \in Items : i[2] <= batch <=> i[2] < batch'
    BY <1>1, <1>14, <2>1
  <2>4. SentSoFar' = upTo
    BY <2>1, <2>3 DEF SentSoFar, Items
  <2>5. Building'
    BY <1>9, <1>11, <2>4 DEF Building, Holds
  <2>6. <<sub, batch + 1, 1>> \in Items /\ <<sub, batch + 1, 1>> \notin upTo
    <3>1. sub \in 1 .. NSubs /\ batch + 1 \in 1 .. NBatches
      BY <1>1, <1>13, <1>17
    <3>2. <<sub, batch + 1, 1>> \in Items
      BY <1>13, <3>1 DEF Items
    <3>3. <<sub, batch + 1, 1>>[1] = sub /\ <<sub, batch + 1, 1>>[2] = batch + 1
      OBVIOUS
    <3> QED BY <1>1, <3>2, <3>3
  <2>7. NoneLeft'
    BY <1>15, <1>16, <2>6
  <2> QED BY <2>2, <2>5, <2>7 DEF OpcInv
<1>18. CASE batch = NBatches /\ sub < NSubs
  <2>1. sub' = sub + 1 /\ opc' = "subscribe" /\ batch' = batch
    BY <1>1, <1>13, <1>18 DEF CreateItems, NextBatch
  <2>2. OpcTypeOK'
    BY <1>1, <1>3, <1>8, <1>13, <1>18, <2>1 DEF OpcInv, OpcTypeOK, Loop, Items
  <2>3. \A i \in Items : i[1] < sub \/ (i[1] = sub /\ i[2] <= batch) <=> i[1] < sub'
    BY <1>1, <1>13, <1>14, <1>18, <2>1
  <2>4. SentSoFar' = upTo
    BY <2>1, <2>3 DEF SentSoFar, Items
  <2>5. Building'
    BY <1>9, <1>11, <2>4 DEF Building, Holds
  <2>6. <<sub + 1, batch, 1>> \in Items /\ <<sub + 1, batch, 1>> \notin upTo
    <3>1. sub + 1 \in 1 .. NSubs /\ batch \in 1 .. NBatches
      BY <1>1, <1>13, <1>18
    <3>2. <<sub + 1, batch, 1>> \in Items
      BY <1>13, <3>1 DEF Items
    <3>3. <<sub + 1, batch, 1>>[1] = sub + 1 /\ <<sub + 1, batch, 1>>[2] = batch
      OBVIOUS
    <3> QED BY <1>1, <3>2, <3>3
  <2>7. NoneLeft'
    BY <1>15, <1>16, <2>6
  <2> QED BY <2>2, <2>5, <2>7 DEF OpcInv
<1>19. CASE batch = NBatches /\ sub = NSubs
  <2>1. opc' = "run" /\ sub' = sub /\ batch' = batch
    BY <1>1, <1>13, <1>19 DEF CreateItems, NextBatch
  <2>2. OpcTypeOK'
    BY <1>1, <1>3, <1>8, <2>1 DEF OpcInv, OpcTypeOK, Loop, Items
  <2>3. \A i \in Items : i[1] < sub \/ (i[1] = sub /\ i[2] <= batch)
    BY <1>13, <1>14, <1>19
  <2>4. SentSoFar' = upTo
    BY <2>1, <2>3 DEF SentSoFar, Items
  <2>5. Building'
    BY <1>9, <1>11, <2>4 DEF Building, Holds
  <2>6. NoneLeft'
    BY <1>16, <2>1
  <2> QED BY <2>2, <2>5, <2>6 DEF OpcInv
<1>20. \/ batch < NBatches
       \/ batch = NBatches /\ sub < NSubs
       \/ batch = NBatches /\ sub = NSubs
  BY <1>1, <1>13
<1> QED BY <1>17, <1>18, <1>19, <1>20

(* An event loop that changes its state keeps its items. *)
LEMMA StateSteps ==
  ASSUME CollectorsAssumption, OpcInv, UNCHANGED <<limit, shutdown, sub, batch>>,
         failures' \in Nat, NEW i \in DOMAIN loops,
         NEW to \in {"connecting", "connected", "stopped", "closed"},
         Live([loops[i] EXCEPT !.state = to]) => Live(loops[i]),
         loops' = [loops EXCEPT ![i].state = to],
         opc' = opc \/ opc' = "ok"
  PROVE  OpcInv'
<1> DEFINE new == [loops[i] EXCEPT !.state = to]
<1>1. loops \in Seq(Loop) /\ loops # <<>>
  BY DEF OpcInv, OpcTypeOK
<1>2. Len(loops) \in DOMAIN loops
  BY <1>1, CurrentIsLast DEF OpcInv
<1>3. loops[i] \in Loop
  <2> HIDE DEF Loop
  <2> QED BY <1>1
<1>4. new \in Loop /\ new.items = loops[i].items /\ new.refused = loops[i].refused
  BY <1>3 DEF Loop
<1>5. /\ loops' \in Seq(Loop) /\ Len(loops') = Len(loops) /\ DOMAIN loops' = DOMAIN loops
      /\ loops' # <<>>
      /\ \A j \in DOMAIN loops : loops'[j] = IF j = i THEN new ELSE loops[j]
  <2>1. loops' = [loops EXCEPT ![i] = new]
    OBVIOUS
  <2> HIDE DEF Loop, new
  <2> QED BY <1>4, <2>1, OneChanges DEF OpcInv
<1>6. OpcTypeOK'
  BY <1>5 DEF OpcInv, OpcTypeOK, Loop, Items
<1>7. /\ loops'[Len(loops')].items = loops[Len(loops)].items
      /\ loops'[Len(loops')].refused = loops[Len(loops)].refused
  BY <1>2, <1>4, <1>5
<1>8. Building'
  BY <1>7 DEF OpcInv, Building, Holds, Current, SentSoFar, Items
<1>9. \A j \in DOMAIN loops : /\ Live(loops'[j]) => Live(loops[j])
                              /\ loops'[j].items = loops[j].items
                              /\ loops'[j].refused = loops[j].refused
  BY <1>4, <1>5
<1>10. NoneLeft'
  BY <1>5, <1>9 DEF OpcInv, NoneLeft, Live, Complete, Items
<1> QED BY <1>6, <1>8, <1>10 DEF OpcInv

LEMMA LoopSteps ==
  ASSUME CollectorsAssumption, OpcInv, NEW i \in DOMAIN loops,
         Establish(i) \/ Lose(i) \/ GiveUp(i) \/ Close(i)
  PROVE  OpcInv'
<1>1. PICK to \in {"connecting", "connected", "stopped", "closed"} :
        loops' = [loops EXCEPT ![i].state = to]
  BY DEF Establish, Lose, GiveUp, Close, Becomes
<1>2. Live(loops[i])
  BY DEF Establish, Lose, GiveUp, Close, Becomes, Live
<1>3. UNCHANGED <<limit, shutdown, sub, batch, opc>> /\ failures' \in Nat
  BY DEF Establish, Lose, GiveUp, Close, Failure, OpcInv, OpcTypeOK
<1> QED BY <1>1, <1>2, <1>3, StateSteps

LEMMA EndSteps ==
  ASSUME CollectorsAssumption, OpcInv, LoopEnded \/ OpcShutdown
  PROVE  OpcInv'
<1>1. opc = "run" /\ UNCHANGED <<limit, shutdown, sub, batch, failures>>
  BY DEF LoopEnded, OpcShutdown, wcsVars
<1>2. loops # <<>> /\ Len(loops) \in DOMAIN loops /\ Current \in Loop
  BY <1>1, CurrentIsLast DEF OpcInv, OpcTypeOK
<1>3. CASE LoopEnded
  <2>1. UNCHANGED loops /\ opc' \in {"ok", "sleep", "err"} /\ ~ Live(loops[Len(loops)])
    BY <1>3 DEF LoopEnded, Failed, Live, Current
  <2>2. OpcTypeOK' /\ Building'
    BY <1>1, <2>1 DEF OpcInv, OpcTypeOK, Building, Holds, Loop, Items
  <2>3. NoneLeft'
    BY <1>1, <2>1 DEF OpcInv, NoneLeft, Live, Complete, Items
  <2> QED BY <2>2, <2>3 DEF OpcInv
<1>4. CASE OpcShutdown /\ UNCHANGED loops
  <2>1. opc' = "ok"
    BY <1>4 DEF OpcShutdown
  <2>2. OpcTypeOK' /\ Building' /\ NoneLeft'
    BY <1>1, <1>4, <2>1 DEF OpcInv, OpcTypeOK, Building, Holds, NoneLeft, Live, Complete, Loop, Items
  <2> QED BY <2>2 DEF OpcInv
<1>5. CASE OpcShutdown /\ loops' = [loops EXCEPT ![Len(loops)].state = "closed"]
  <2>1. opc' = "ok"
    BY <1>5 DEF OpcShutdown
  <2>2. ~ Live([loops[Len(loops)] EXCEPT !.state = "closed"])
    BY <1>2 DEF Live, Loop, Current
  <2>3. failures' \in Nat
    BY <1>1 DEF OpcInv, OpcTypeOK
  <2> QED BY <1>1, <1>2, <1>5, <2>1, <2>2, <2>3, StateSteps
<1> QED BY <1>3, <1>4, <1>5 DEF OpcShutdown

LEMMA WcsSteps ==
  ASSUME CollectorsAssumption, WcsInv, WcsStep \/ TickDue \/ StartRound \/ WcsShutdown
  PROVE  WcsInv'
<1>1. NEndpoints \in Nat \ {0} /\ MaxTicks \in Nat
  BY DEF CollectorsAssumption
<1>2. CASE PollEndpoint
  <2>1. asked \in 0 .. NEndpoints /\ asked < NEndpoints /\ ticks \in Nat
    BY <1>2 DEF PollEndpoint, WcsInv
  <2>2. asked' = asked + 1 /\ wcs' = (IF asked + 1 < NEndpoints THEN "poll" ELSE "select") /\ ticks' = ticks
    BY <1>2 DEF PollEndpoint, Asked
  <2> QED BY <1>1, <2>1, <2>2 DEF WcsInv
<1>3. CASE WcsCheck \/ WcsSleep \/ WcsShutdown \/ BuildClient
  <2>1. asked' = asked /\ ticks' \in Nat /\ wcs # "poll" /\ wcs' \in {"check", "build", "select", "sleep", "ended"}
    BY <1>3 DEF WcsCheck, WcsSleep, WcsShutdown, BuildClient, WcsInv
  <2> QED BY <2>1 DEF WcsInv
<1>4. CASE TickDue
  <2>1. ticks' \in Nat
    BY <1>4 DEF TickDue, WcsInv
  <2>2. asked' = asked /\ wcs' = wcs
    BY <1>4 DEF TickDue
  <2> QED BY <2>1, <2>2 DEF WcsInv
<1>5. CASE StartRound
  <2>1. ticks' \in Nat
    BY <1>5 DEF StartRound, WcsInv
  <2>2. asked' = 0 /\ wcs' = "poll"
    BY <1>5 DEF StartRound
  <2> QED BY <1>1, <2>1, <2>2 DEF WcsInv
<1> QED BY <1>2, <1>3, <1>4, <1>5 DEF WcsStep

(* What one collector does leaves the other's part alone. *)
LEMMA OpcUnchanged ==
  OpcInv /\ UNCHANGED <<limit, shutdown, opcVars, failures>> => OpcInv'
<1> SUFFICES ASSUME OpcInv, UNCHANGED <<limit, shutdown, opcVars, failures>> PROVE OpcInv'
  OBVIOUS
<1>1. OpcTypeOK' /\ Building' /\ NoneLeft'
  BY DEF OpcInv, OpcTypeOK, Building, Holds, NoneLeft, Live, Complete, Loop, Items, Current, SentSoFar, opcVars
<1> QED BY <1>1 DEF OpcInv

LEMMA WcsUnchanged == WcsInv /\ UNCHANGED wcsVars => WcsInv'
BY DEF WcsInv, wcsVars

LEMMA NextInv == CollectorsAssumption /\ CollectorsInv /\ [Next]_vars => CollectorsInv'
<1> SUFFICES ASSUME CollectorsAssumption, OpcInv, WcsInv, [Next]_vars PROVE OpcInv' /\ WcsInv'
  BY DEF CollectorsInv, CollectorsTypeOK, OpcInv, OpcTypeOK, Building, Holds, NoneLeft, WcsInv
<1>1. CASE Signal
  <2>1. UNCHANGED <<limit, opcVars, failures, wcsVars>> /\ shutdown' \in BOOLEAN
    BY <1>1 DEF Signal
  <2>2. OpcTypeOK' /\ Building' /\ NoneLeft'
    BY <2>1 DEF OpcInv, OpcTypeOK, Building, Holds, NoneLeft, Live, Complete, Loop, Items, Current, SentSoFar, opcVars
  <2> QED BY <2>1, <2>2, WcsUnchanged DEF OpcInv
<1>2. CASE OpcStep \/ SetupPanics \/ WaitEnds \/ LoopStep
  <2>1. OpcInv'
    BY <1>2, IdleSteps, FailedSteps, ConnectStep, AdvanceSteps, CreateSubscriptionStep,
       CreateItemsStep, EndSteps, LoopSteps
       DEF OpcStep, LoopStep
  <2>2. UNCHANGED wcsVars
    BY <1>2 DEF OpcStep, LoopStep, Check, Connect, Connected, DescriptionMapError, CreateSubscription,
                CreateItems, SetupError, SetupPanics, LoopEnded, OpcShutdown, Sleep, WaitEnds,
                Establish, Lose, GiveUp, Close, wcsVars
  <2> QED BY <2>1, <2>2, WcsUnchanged
<1>3. CASE WcsStep \/ TickDue \/ StartRound \/ WcsShutdown
  <2>1. UNCHANGED <<limit, shutdown, opcVars, failures>>
    BY <1>3 DEF WcsStep, WcsCheck, BuildClient, WcsSleep, PollEndpoint, TickDue, StartRound, WcsShutdown
  <2> QED BY <1>3, <2>1, OpcUnchanged, WcsSteps
<1>4. CASE UNCHANGED vars
  BY <1>4, OpcUnchanged, WcsUnchanged DEF vars
<1> QED BY <1>1, <1>2, <1>3, <1>4 DEF Next
-----------------------------------------------------------------------------
(* The inductive invariant of the two collectors. *)
THEOREM CollectorsInvariant == Spec => []CollectorsInv
<1>1. Init => CollectorsInv
  BY CollectorsAssumption, InitInv
<1>2. CollectorsInv /\ [Next]_vars => CollectorsInv'
  BY CollectorsAssumption, NextInv
<1> QED BY <1>1, <1>2, PTL DEF Spec

(* A collector that waits for the end of its session monitors every item   *)
(* of every subscription, however often the set-up was begun, but those    *)
(* which the server has refused to this session.                           *)
THEOREM RunningMonitorsAllButRefused == Spec => []MonitorsAllButRefused
<1>1. CollectorsInv => MonitorsAllButRefused
  BY DEF CollectorsInv, MonitorsAllButRefused, SentSoFar
<1> QED BY <1>1, CollectorsInvariant, PTL

(* Event loops left behind by failed set-ups never monitor everything. *)
THEOREM LeftSessionsAreHalfMade == Spec => []OneCompleteSession
<1>1. CollectorsInv => OneCompleteSession
  <2> SUFFICES ASSUME CollectorsInv, NEW i \in 1 .. Len(loops) - 1, Live(loops[i]),
                      Complete(loops[i])
               PROVE  FALSE
    BY DEF OneCompleteSession
  <2>1. loops \in Seq(Loop)
    BY DEF CollectorsInv, CollectorsTypeOK
  <2>2. DOMAIN loops = 1 .. Len(loops) /\ Len(loops) \in Nat
    <3> HIDE DEF Loop
    <3> QED BY <2>1
  <2> DEFINE n == Len(loops)
  <2>3. i \in DOMAIN loops /\ i # n
    <3>1. i \in 1 .. n - 1 /\ n \in Nat
      BY <2>2
    <3>2. i \in 1 .. n /\ i # n
      <4> HIDE DEF n
      <4> QED BY <3>1
    <3> QED BY <2>2, <3>2
  <2> QED BY <2>3 DEF CollectorsInv
<1> QED BY <1>1, CollectorsInvariant, PTL

(* A round of the poller asks every endpoint. *)
THEOREM PollerRoundsAreWhole == Spec => []RoundsAreWhole
<1>1. CollectorsInv => RoundsAreWhole
  BY DEF CollectorsInv, RoundsAreWhole
<1> QED BY <1>1, CollectorsInvariant, PTL

(* A step that leaves opc and the closed session of a collector alone.     *)
LEMMA EndsKept ==
  ASSUME EndsForAReason, limit' = limit, shutdown' \in {shutdown, TRUE}, opc' = opc,
         ~ shutdown => wcs' # "ended",
         opc = "ok" /\ Current.state = "closed" /\ loops # <<>> =>
           loops' # <<>> /\ Current' = Current
  PROVE  EndsForAReason'
<1>1. ~ shutdown' => ~ shutdown
  OBVIOUS
<1> QED BY <1>1 DEF EndsForAReason, Complete, Items

(* The last event loop is not closed when another step changes it.         *)
LEMMA LoopStepKeepsClosed ==
  ASSUME OpcTypeOK, loops # <<>>, Current.state = "closed", NEW i \in DOMAIN loops,
         Establish(i) \/ Lose(i) \/ GiveUp(i) \/ Close(i)
  PROVE  loops' # <<>> /\ Current' = Current
<1>1. PICK to \in {"connecting", "connected", "stopped", "closed"} :
        loops' = [loops EXCEPT ![i].state = to]
  BY DEF Establish, Lose, GiveUp, Close, Becomes
<1>2. i # Len(loops)
  BY DEF Establish, Lose, GiveUp, Close, Becomes, Current
<1>3. Len(loops) \in DOMAIN loops /\ Len(loops) \in Nat /\ DOMAIN loops = 1 .. Len(loops)
  BY CurrentIsLast
<1>4. DOMAIN loops' = DOMAIN loops /\ loops'[Len(loops)] = loops[Len(loops)]
  BY <1>1, <1>2, <1>3
<1>5. Len(loops') = Len(loops)
  <2> DEFINE new == [loops[i] EXCEPT !.state = to]
  <2>1. loops \in Seq(Loop)
    BY DEF OpcTypeOK
  <2>2. loops[i] \in Loop
    <3> HIDE DEF Loop
    <3> QED BY <2>1
  <2>3. new \in Loop
    BY <2>2 DEF Loop
  <2>4. loops' = [loops EXCEPT ![i] = new]
    BY <1>1
  <2> HIDE DEF Loop, new
  <2> QED BY <2>3, <2>4, OneChanges
<1> QED
  <2> HIDE DEF Loop
  <2>1. loops' # <<>>
    BY <1>3, <1>4
  <2> QED BY <1>4, <1>5, <2>1 DEF Current

LEMMA EndsStep ==
  ASSUME CollectorsAssumption, CollectorsInv, EndsForAReason, [Next]_vars
  PROVE  EndsForAReason'
<1>1. OpcTypeOK /\ Building
  BY InvParts DEF OpcInv
<1>2. CASE Signal \/ UNCHANGED vars
  <2>1. UNCHANGED <<limit, opc, loops, wcs>> /\ shutdown' \in {shutdown, TRUE}
    BY <1>2 DEF Signal, vars, opcVars, wcsVars
  <2>2. Current' = Current
    BY <2>1 DEF Current
  <2> QED BY <2>1, <2>2, EndsKept DEF EndsForAReason
<1>3. CASE WcsStep \/ TickDue \/ StartRound \/ WcsShutdown
  <2>1. UNCHANGED <<limit, shutdown, opc, loops>>
    BY <1>3 DEF WcsStep, WcsCheck, BuildClient, WcsSleep, PollEndpoint, TickDue, StartRound, WcsShutdown,
                opcVars
  <2>2. ~ shutdown => wcs' # "ended"
    BY <1>3 DEF WcsStep, WcsCheck, BuildClient, WcsSleep, PollEndpoint, Asked, TickDue, StartRound,
                WcsShutdown
  <2>3. Current' = Current
    BY <2>1 DEF Current
  <2> QED BY <2>1, <2>2, <2>3, EndsKept
<1>4. CASE \E i \in DOMAIN loops : Establish(i) \/ Lose(i) \/ GiveUp(i) \/ Close(i)
  <2>1. PICK i \in DOMAIN loops : Establish(i) \/ Lose(i) \/ GiveUp(i) \/ Close(i)
    BY <1>4
  <2>2. UNCHANGED <<limit, shutdown, opc, wcs>>
    BY <2>1 DEF Establish, Lose, GiveUp, Close, wcsVars
  <2>3. opc = "ok" /\ Current.state = "closed" /\ loops # <<>> => loops' # <<>> /\ Current' = Current
    BY <1>1, <2>1, LoopStepKeepsClosed
  <2> QED BY <2>2, <2>3, EndsKept DEF EndsForAReason
<1>5. CASE OpcStep \/ SetupPanics \/ WaitEnds
  <2>1. UNCHANGED <<limit, shutdown, wcs>>
    BY <1>5 DEF OpcStep, Check, Connect, Connected, DescriptionMapError, CreateSubscription, CreateItems,
                SetupError, SetupPanics, LoopEnded, OpcShutdown, Sleep, WaitEnds, wcsVars
  <2>2. /\ opc' = "err" => limit = 0
        /\ ~ shutdown /\ opc' = "ok" => LoopEnded /\ Current.state = "closed"
    <3>1. CASE SetupPanics \/ WaitEnds
      BY <3>1 DEF SetupPanics, WaitEnds, Failed
    <3>2. CASE CreateItems
      <4>1. opc' \in {"items", "subscribe", "run"}
        BY <3>2 DEF CreateItems, NextBatch
      <4> QED BY <4>1
    <3>3. CASE OpcStep /\ ~ CreateItems
      BY <3>3 DEF OpcStep, Check, Connect, Connected, DescriptionMapError, CreateSubscription,
                  SetupError, LoopEnded, OpcShutdown, Sleep, Failed
    <3> QED BY <1>5, <3>1, <3>2, <3>3
  <2>4. ASSUME ~ shutdown, opc' = "ok"
        PROVE  loops' # <<>> /\ Current'.state = "closed" /\ Complete(Current)'
    <3>1. opc = "run" /\ UNCHANGED loops /\ Current.state = "closed"
      BY <2>2, <2>4 DEF LoopEnded
    <3>2. loops # <<>> /\ Complete(Current)
      BY <1>1, <3>1 DEF OpcTypeOK, Building, Holds, Complete, SentSoFar
    <3> QED BY <3>1, <3>2 DEF Current, Complete, Items
  <2>5. ~ shutdown' => ~ shutdown /\ wcs' # "ended"
    BY <2>1 DEF EndsForAReason
  <2> QED BY <2>1, <2>2, <2>4, <2>5 DEF EndsForAReason, Complete, Items
<1> QED BY <1>2, <1>3, <1>4, <1>5 DEF Next, LoopStep

(* Collectors end by themselves only for the reasons they should.          *)
THEOREM CollectorsEndForAReason == Spec => []EndsForAReason
<1>1. Init => EndsForAReason
  BY DEF Init, EndsForAReason
<1>2. CollectorsInv /\ EndsForAReason /\ [Next]_vars => EndsForAReason'
  BY CollectorsAssumption, EndsStep
<1> QED BY <1>1, <1>2, CollectorsInvariant, PTL DEF Spec
=============================================================================
