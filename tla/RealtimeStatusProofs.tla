------------------------ MODULE RealtimeStatusProofs ------------------------
(***************************************************************************)
(* Proofs about the realtime rows: what the statements do to one row, for  *)
(* every row and every sample, and what the rows show in every execution   *)
(* of the sink worker (NewestShown, CountOfFaults).                        *)
(***************************************************************************)
EXTENDS RealtimeStatus, SinkWorkerProofs, WellFoundedInduction

(* Every row the statements leave is one RealtimeRow!Row describes: it has *)
(* a time as soon as a sample was applied, and a shown fault is counted    *)
(* (build_realtime_upsert_sql, realtime_initial_fault_count).              *)
THEOREM RowsStayRows ==
  ASSUME NEW row \in Row, NEW at \in Nat \ {0}, NEW alarm \in BOOLEAN
  PROVE  Seed(row) \in Row /\ Upsert(row, at, alarm) \in Row
<1> USE DEF Row, Replaced, CountsNow
<1>1. Seed(row) \in Row
  BY DEF Seed, Seeded
<1>2. Inserted(at, alarm) \in Row
  BY DEF Inserted, Begins
<1>3. CASE AcceptsNewer(row, at)
  BY <1>1, <1>2, <1>3 DEF Upsert, Updated, Begins
<1>4. CASE ~AcceptsNewer(row, at)
  BY <1>1, <1>2, <1>4 DEF Upsert, Updated
<1> QED
  BY <1>3, <1>4

(* Seeding a tag makes no difference to what its samples leave, but for    *)
(* one: on a seeded row a normal first sample counts as a fault, as the    *)
(* condition of fault_count is written (seed_realtime_status before and    *)
(* after the first upsert, sink.rs:94 and 111).                            *)
THEOREM SeedCountsOneMore ==
  ASSUME NEW row \in Row, NEW at \in Nat \ {0}, NEW alarm \in BOOLEAN
  PROVE  LET seeded == Upsert(Seed(row), at, alarm)
             bare   == Upsert(row, at, alarm)
         IN  /\ seeded.at = bare.at /\ seeded.alarm = bare.alarm
             /\ seeded.count = bare.count + (IF ~row.exists /\ ~alarm THEN 1 ELSE 0)
             /\ Seed(bare) = bare
<1> USE DEF Row, Absent, Seeded, Seed, Upsert, Updated, Replaced, CountsNow, Begins, AcceptsNewer
<1>1. CASE row.exists
  <2>1. Upsert(row, at, alarm).count \in Nat
    <3>1. row.count \in Nat /\ row.count + 1 \in Nat /\ row.count + 0 \in Nat
      OBVIOUS
    <3> QED BY <1>1, <3>1
  <2>2. Seed(row) = row /\ Seed(Upsert(row, at, alarm)) = Upsert(row, at, alarm)
    BY <1>1
  <2> QED BY <1>1, <2>1, <2>2
<1>2. CASE ~row.exists
  BY <1>2 DEF Inserted
<1> QED
  BY <1>1, <1>2

(* Applying a sample a second time at once changes nothing: a replay after *)
(* an acknowledgement that was cut off is harmless for the realtime row.   *)
THEOREM UpsertIdempotent ==
  ASSUME NEW row \in Row, NEW at \in Nat \ {0}, NEW alarm \in BOOLEAN
  PROVE  Upsert(Upsert(row, at, alarm), at, alarm) = Upsert(row, at, alarm)
<1> DEFINE filled(by, count) ==
             [exists |-> TRUE, seeded |-> by, at |-> at, alarm |-> alarm, count |-> count]
<1>1. \A by \in BOOLEAN, count \in Nat :
        Upsert(filled(by, count), at, alarm) = filled(by, count)
  <2> SUFFICES ASSUME NEW by \in BOOLEAN, NEW count \in Nat
               PROVE  Upsert(filled(by, count), at, alarm) = filled(by, count)
    OBVIOUS
  <2> DEFINE full == filled(by, count)
  <2>1. /\ full.exists /\ full.seeded = by /\ full.at = at
        /\ full.alarm = alarm /\ full.count = count
    OBVIOUS
  <2>2. AcceptsNewer(full, at) /\ CountsNow(full, alarm) = 0
    BY DEF AcceptsNewer, CountsNow, Begins
  <2>3. Replaced(full, at, alarm, 0) = full
    BY DEF Replaced
  <2> SUFFICES Upsert(full, at, alarm) = full
    OBVIOUS
  <2> HIDE DEF full
  <2> QED
    BY <2>1, <2>2, <2>3 DEF Upsert, Updated
<1>2. CASE ~row.exists
  <2>1. Begins(FALSE, alarm) \in Nat
    BY DEF Begins
  <2>2. Upsert(row, at, alarm) = filled(FALSE, Begins(FALSE, alarm))
    BY <1>2 DEF Upsert, Inserted
  <2> HIDE DEF filled
  <2> QED
    BY <1>1, <2>1, <2>2
<1>3. CASE row.exists /\ AcceptsNewer(row, at)
  <2>1. row.count + CountsNow(row, alarm) \in Nat /\ row.seeded \in BOOLEAN
    BY DEF Row, CountsNow, Begins
  <2>2. Upsert(row, at, alarm) = filled(row.seeded, row.count + CountsNow(row, alarm))
    BY <1>3 DEF Upsert, Updated, Replaced
  <2> HIDE DEF filled
  <2> QED
    BY <1>1, <2>1, <2>2
<1>4. CASE row.exists /\ ~AcceptsNewer(row, at)
  BY <1>4 DEF Upsert, Updated
<1> QED
  BY <1>2, <1>3, <1>4

(* Two samples of different times leave the same state whichever comes     *)
(* first; only fault_count depends on the order (replay_buffered after     *)
(* newer samples went straight to MySQL).                                  *)
THEOREM OrderDoesNotMatter ==
  ASSUME NEW row \in Row,
         NEW at1 \in Nat \ {0}, NEW alarm1 \in BOOLEAN,
         NEW at2 \in Nat \ {0}, NEW alarm2 \in BOOLEAN,
         at1 # at2
  PROVE  LET one == Upsert(Upsert(row, at1, alarm1), at2, alarm2)
             two == Upsert(Upsert(row, at2, alarm2), at1, alarm1)
         IN  one.at = two.at /\ one.alarm = two.alarm
<1>1. CASE row.exists
  BY <1>1 DEF Row, Upsert, Updated, Replaced, AcceptsNewer
<1>2. CASE ~row.exists
  BY <1>2 DEF Row, Upsert, Updated, Replaced, AcceptsNewer, Inserted
<1> QED
  BY <1>1, <1>2
-----------------------------------------------------------------------------
(* Induction up to a bound, over a set: a subset of 0 .. N that is not all *)
(* of it misses a least number.                                            *)
LEMMA UpToBound ==
  ASSUME NEW N \in Nat, NEW S, 0 \in S, \A n \in 1 .. N : n - 1 \in S => n \in S
  PROVE  0 .. N \subseteq S
<1> DEFINE T == {n \in 0 .. N : n \notin S}
           R == OpToRel(<, Nat)
<1> SUFFICES ASSUME T # {} PROVE FALSE
  OBVIOUS
<1>0. T \subseteq Nat
  OBVIOUS
<1>1. \E x \in T : \A y \in T : ~ (<<y, x>> \in R)
  <2>1. IsWellFoundedOn(R, Nat)
    BY NatLessThanWellFounded, Zenon
  <2> HIDE DEF R, T
  <2> QED BY <2>1, <1>0, WFMin
<1>2. \A x, y \in Nat : y < x => <<y, x>> \in R
  BY DEF OpToRel
<1> HIDE DEF R
<1>3. PICK x \in T : \A y \in T : ~ (<<y, x>> \in R)
  BY <1>1
<1>4. \A y \in T : ~ (y < x)
  <2> HIDE DEF T
  <2> QED BY <1>0, <1>2, <1>3
<1>5. x # 0 /\ x \in 1 .. N /\ x - 1 \in 0 .. N /\ x - 1 < x
  BY <1>3
<1>6. x - 1 \in S
  BY <1>4, <1>5
<1> QED BY <1>3, <1>5, <1>6

(* The rows after the samples 1 .. s of a group, given those after 1 .. s-1. *)
AfterSample(s, group, before) ==
  IF s \in group
  THEN [before EXCEPT ![NodeOf[s]] = Upsert(@, TsOf[s], AlarmOf[s])]
  ELSE before

IsRun(f, m, group) ==
  f = [s \in 0 .. m |-> IF s = 0 THEN realtime ELSE AfterSample(s, group, f[s - 1])]

(* A group is applied one sample after the other.                          *)
LEMMA RunExists ==
  ASSUME NEW group
  PROVE  \E f : IsRun(f, NSamples, group)
<1> DEFINE S == {m \in 0 .. NSamples : \E f : IsRun(f, m, group)}
<1>0. NSamples \in Nat
  BY SinkAssumption DEF SinkAssumption
<1>1. 0 \in S
  <2> DEFINE g == [s \in 0 .. 0 |-> realtime]
  <2>1. IsRun(g, 0, group)
    BY DEF IsRun
  <2> HIDE DEF g
  <2> QED BY <2>1, <1>0
<1>2. ASSUME NEW n \in 1 .. NSamples, n - 1 \in S PROVE n \in S
  <2>1. PICK f : IsRun(f, n - 1, group)
    BY <1>2
  <2> DEFINE g == [s \in 0 .. n |-> IF s = n THEN AfterSample(n, group, f[n - 1]) ELSE f[s]]
  <2>2. IsRun(g, n, group)
    BY <2>1, <1>0 DEF IsRun
  <2> HIDE DEF g
  <2> QED BY <2>2, <1>0
<1> HIDE DEF S
<1>3. 0 .. NSamples \subseteq S
  BY <1>0, <1>1, <1>2, UpToBound
<1> QED BY <1>0, <1>3 DEF S

LEMMA AppliedInOrder ==
  ASSUME NEW group
  PROVE  \E f : IsRun(f, NSamples, group) /\ Applied(group) = f[NSamples]
<1> DEFINE run == CHOOSE f : IsRun(f, NSamples, group)
<1>1. IsRun(run, NSamples, group)
  <2> PICK f : IsRun(f, NSamples, group)
    BY RunExists
  <2> QED OBVIOUS
<1>2. Applied(group) = run[NSamples]
  BY Zenon DEF Applied, IsRun, AfterSample
<1> HIDE DEF run
<1> QED BY <1>1, <1>2

-----------------------------------------------------------------------------
(* What NewestShown says of a row to which the samples of S were applied.  *)
Shows(row, S) ==
  \/ S = {} /\ row \in {Absent, Seeded}
  \/ \E s \in S : /\ \A t \in S : TsOf[t] <= TsOf[s]
                  /\ row.at = TsOf[s]
                  /\ row.alarm = AlarmOf[s]

LEMMA RealtimeFacts ==
  /\ NSamples \in Nat
  /\ \A s \in Sample : TsOf[s] \in Nat \ {0} /\ AlarmOf[s] \in BOOLEAN /\ NodeOf[s] \in Node
BY RealtimeAssumption, SinkAssumption DEF RealtimeAssumption, SinkAssumption, Node

LEMMA AbsentAndSeeded == Absent \in Row /\ Seeded \in Row
BY DEF Absent, Seeded, Row

LEMMA SeedShows ==
  ASSUME NEW row \in Row, NEW S \in SUBSET Sample, Shows(row, S)
  PROVE  Shows(Seed(row), S)
<1>1. CASE row.exists
  BY <1>1 DEF Seed
<1>2. CASE ~row.exists
  <2>1. row.at = 0
    BY <1>2 DEF Row
  <2>2. S = {}
    BY <2>1, RealtimeFacts DEF Shows
  <2> QED BY <1>2, <2>2 DEF Seed, Shows
<1> QED BY <1>1, <1>2

(* A sample replaces what the row shows unless the row shows a newer one.  *)
LEMMA UpsertShows ==
  ASSUME NEW row \in Row, NEW S \in SUBSET Sample, Shows(row, S), NEW s \in Sample
  PROVE  Shows(Upsert(row, TsOf[s], AlarmOf[s]), S \cup {s})
<1> DEFINE new == Upsert(row, TsOf[s], AlarmOf[s])
<1> SUFFICES Shows(new, S \cup {s})
  OBVIOUS
<1>1. TsOf[s] \in Nat \ {0} /\ row.at \in Nat /\ \A t \in S : TsOf[t] \in Nat
  BY RealtimeFacts DEF Row
<1>2. \A t \in S : TsOf[t] <= row.at
  BY <1>1 DEF Shows
<1>3. CASE row.exists /\ ~ AcceptsNewer(row, TsOf[s])
  <2>1. new = row /\ row.at # 0 /\ TsOf[s] <= row.at
    BY <1>1, <1>3 DEF Upsert, Updated, AcceptsNewer
  <2>2. S # {}
    BY <2>1 DEF Shows, Absent, Seeded
  <2>3. PICK u \in S : row.at = TsOf[u] /\ row.alarm = AlarmOf[u]
    BY <2>2 DEF Shows
  <2>4. \A t \in S \cup {s} : TsOf[t] <= TsOf[u]
    BY <1>2, <2>1, <2>3
  <2> HIDE DEF new
  <2> QED BY <2>1, <2>3, <2>4 DEF Shows
<1>4. CASE ~ row.exists \/ AcceptsNewer(row, TsOf[s])
  <2>1. new.at = TsOf[s] /\ new.alarm = AlarmOf[s]
    BY <1>4 DEF Upsert, Updated, Replaced, Inserted
  <2>2. row.at <= TsOf[s]
    BY <1>1, <1>4 DEF AcceptsNewer, Row
  <2>3. \A t \in S \cup {s} : TsOf[t] <= TsOf[s]
    BY <1>1, <1>2, <2>2
  <2> HIDE DEF new
  <2> QED BY <2>1, <2>3 DEF Shows
<1> QED BY <1>3, <1>4

(* The inductive invariant: every row is one, and shows the newest sample. *)
StatusInv ==
  /\ realtime \in [Node -> Row]
  /\ \A n \in Node : Shows(realtime[n], ShownOn(n))

On(S, n) == {s \in S : NodeOf[s] = n}

LEMMA AfterSampleShows ==
  ASSUME NEW before \in [Node -> Row], NEW S \in SUBSET Sample,
         \A n \in Node : Shows(before[n], On(S, n)), NEW s \in Sample, NEW group,
         NEW T, T = IF s \in group THEN S \cup {s} ELSE S
  PROVE  /\ AfterSample(s, group, before) \in [Node -> Row]
         /\ \A n \in Node : Shows(AfterSample(s, group, before)[n], On(T, n))
<1> DEFINE node == NodeOf[s]
           new  == Upsert(before[node], TsOf[s], AlarmOf[s])
           rest == AfterSample(s, group, before)
<1>1. CASE s \notin group
  BY <1>1 DEF AfterSample
<1>2. CASE s \in group
  <2>1. node \in Node /\ before[node] \in Row
    BY RealtimeFacts
  <2>2. new \in Row
    BY <2>1, RealtimeFacts, RowsStayRows
  <2>3. On(S, node) \in SUBSET Sample /\ On(T, node) = On(S, node) \cup {s}
    BY <1>2 DEF On
  <2>4. Shows(new, On(T, node))
    BY <2>1, <2>3, UpsertShows
  <2>5. rest = [before EXCEPT ![node] = new]
    BY <1>2 DEF AfterSample
  <2> HIDE DEF new, rest
  <2>6. \A n \in Node : n # node => On(T, n) = On(S, n)
    BY <1>2 DEF On
  <2>7. rest \in [Node -> Row] /\ \A n \in Node : Shows(rest[n], On(T, n))
    BY <2>1, <2>2, <2>4, <2>5, <2>6
  <2> QED BY <2>7 DEF rest
<1> QED BY <1>1, <1>2

(* The samples of a group up to one of them.                               *)
Through(k, group) == {s \in group : s <= k}

LEMMA ThroughGroup ==
  ASSUME NEW N \in Nat, NEW group, group \subseteq 1 .. N
  PROVE  /\ Through(0, group) = {} /\ Through(N, group) = group
         /\ \A k \in 1 .. N :
              Through(k, group) = IF k \in group THEN Through(k - 1, group) \cup {k}
                                                 ELSE Through(k - 1, group)
<1>1. \A s \in group : s \in Int /\ ~ (s <= 0) /\ s <= N
  OBVIOUS
<1>2. Through(0, group) = {} /\ Through(N, group) = group
  BY <1>1, Zenon DEF Through
<1>3. ASSUME NEW k \in 1 .. N
      PROVE  Through(k, group) = IF k \in group THEN Through(k - 1, group) \cup {k}
                                                ELSE Through(k - 1, group)
  <2>1. \A s \in group : s <= k <=> s <= k - 1 \/ s = k
    BY <1>1
  <2>2. k <= k
    OBVIOUS
  <2> QED BY <2>1, <2>2 DEF Through
<1> QED BY <1>2, <1>3

LEMMA RunShows ==
  ASSUME StatusInv, TypeOK, NEW group \in SUBSET Sample, NEW f, IsRun(f, NSamples, group)
  PROVE  \A k \in 0 .. NSamples :
           /\ f[k] \in [Node -> Row]
           /\ \A n \in Node : Shows(f[k][n], On(shown \cup Through(k, group), n))
<1>2. NSamples \in Nat /\ Sample = 1 .. NSamples /\ shown \in SUBSET Sample
  BY RealtimeFacts DEF Sample, TypeOK
<1>t. \A k \in 1 .. NSamples :
        Through(k, group) = IF k \in group THEN Through(k - 1, group) \cup {k}
                                           ELSE Through(k - 1, group)
  <2>1. NSamples \in Nat /\ group \subseteq 1 .. NSamples
    BY <1>2
  <2> QED BY <2>1, ThroughGroup
<1> DEFINE done(k) == shown \cup Through(k, group)
           Good == {k \in 0 .. NSamples :
                      /\ f[k] \in [Node -> Row]
                      /\ \A n \in Node : Shows(f[k][n], On(done(k), n))}
<1>3. 0 \in Good
  <2>1. f[0] = realtime
    BY <1>2 DEF IsRun
  <2>2. done(0) = shown
    BY <1>2, ThroughGroup
  <2>3. \A n \in Node : On(shown, n) = ShownOn(n)
    BY DEF On, ShownOn
  <2> HIDE DEF done
  <2> QED BY <1>2, <2>1, <2>2, <2>3 DEF StatusInv
<1>4. ASSUME NEW k \in 1 .. NSamples, k - 1 \in Good PROVE k \in Good
  <2> DEFINE last == done(k - 1)
             now  == done(k)
  <2>1. f[k] = AfterSample(k, group, f[k - 1])
    BY <1>2 DEF IsRun
  <2>2. k \in Sample /\ k - 1 \in 0 .. NSamples /\ k \in 0 .. NSamples
    BY <1>2
  <2>3. last \in SUBSET Sample
    BY <1>2 DEF Through
  <2>4. now = IF k \in group THEN last \cup {k} ELSE last
    <3>1. Through(k, group) = IF k \in group THEN Through(k - 1, group) \cup {k}
                                              ELSE Through(k - 1, group)
      BY <1>t
    <3> QED BY <3>1, Zenon
  <2>5. f[k - 1] \in [Node -> Row] /\ \A n \in Node : Shows(f[k - 1][n], On(last, n))
    BY <1>4
  <2> HIDE DEF last, now
  <2>6. /\ AfterSample(k, group, f[k - 1]) \in [Node -> Row]
        /\ \A n \in Node : Shows(AfterSample(k, group, f[k - 1])[n], On(now, n))
    BY <2>2, <2>3, <2>4, <2>5, AfterSampleShows
  <2>7. /\ f[k] \in [Node -> Row]
        /\ \A n \in Node : Shows(f[k][n], On(now, n))
    BY <2>1, <2>6
  <2> QED BY <2>2, <2>7 DEF now
<1>5. 0 .. NSamples \subseteq Good
  <2> HIDE DEF Good
  <2> QED BY <1>2, <1>3, <1>4, UpToBound
<1> QED BY <1>5

LEMMA AppliedShows ==
  ASSUME StatusInv, TypeOK, NEW group \in SUBSET Sample
  PROVE  /\ Applied(group) \in [Node -> Row]
         /\ \A n \in Node : Shows(Applied(group)[n], On(shown \cup group, n))
<1>1. PICK f : IsRun(f, NSamples, group) /\ Applied(group) = f[NSamples]
  BY AppliedInOrder
<1>2. NSamples \in Nat /\ NSamples \in 0 .. NSamples /\ group \subseteq 1 .. NSamples
  BY RealtimeFacts DEF Sample
<1>3. Through(NSamples, group) = group
  BY <1>2, ThroughGroup
<1>4. /\ f[NSamples] \in [Node -> Row]
      /\ \A n \in Node : Shows(f[NSamples][n], On(shown \cup Through(NSamples, group), n))
  <2>1. \A k \in 0 .. NSamples :
           /\ f[k] \in [Node -> Row]
           /\ \A n \in Node : Shows(f[k][n], On(shown \cup Through(k, group), n))
    BY <1>1, RunShows
  <2> QED BY <1>2, <2>1, Zenon
<1> QED BY <1>1, <1>3, <1>4, Zenon

(* The composed steps are steps of the worker, so that what is proved of it *)
(* holds here as well.                                                     *)
LEMMA WorkerStep == [RealtimeNext]_realtimeVars => [Next]_vars
BY DEF RealtimeNext, HistoryNext, Next, WorkerNext, FaultNext, UpsertErr, realtimeVars, vars

LEMMA StillTheWorker == RealtimeSpec => Spec
<1>1. RealtimeInit => Init
  BY DEF RealtimeInit
<1> QED BY <1>1, WorkerStep, PTL DEF RealtimeSpec, Spec

LEMMA InitStatusInv == RealtimeInit => StatusInv
<1> SUFFICES ASSUME RealtimeInit PROVE StatusInv
  OBVIOUS
<1>1. shown = {} /\ realtime \in [Node -> {Absent, Seeded}]
  BY DEF RealtimeInit, Init
<1>2. realtime \in [Node -> Row]
  BY <1>1, AbsentAndSeeded
<1>3. \A n \in Node : ShownOn(n) = {} /\ Shows(realtime[n], {})
  BY <1>1 DEF ShownOn, Shows
<1> QED BY <1>2, <1>3 DEF StatusInv

(* Samples are applied to the rows only together with what shown records.  *)
LEMMA HistoryKeepsShown == HistoryNext => UNCHANGED shown
BY DEF HistoryNext, Offer, CollectorsEnd, Signal, Recovery, Recv, Tick, LeaveLoop, Drain,
       FinalFlush, Stop, TakeSample, BatchDone, InsertOk, InsertErr, InsertAmbiguous, Push,
       PushFlush, DrainBatch, Ack, AckFlush, BufferError, Outage, mysqlVars

LEMMA NextStatusInv == StatusInv /\ TypeOK /\ [RealtimeNext]_realtimeVars => StatusInv'
<1> SUFFICES ASSUME StatusInv, TypeOK, [RealtimeNext]_realtimeVars PROVE StatusInv'
  OBVIOUS
<1>1. ASSUME NEW group \in SUBSET Sample, shown' = shown \cup group, realtime' = Applied(group)
      PROVE  StatusInv'
  <2>1. \A n \in Node : ShownOn(n)' = On(shown \cup group, n)
    BY <1>1 DEF ShownOn, On
  <2>2. realtime' \in [Node -> Row] /\ \A n \in Node : Shows(realtime'[n], On(shown \cup group, n))
    BY <1>1, AppliedShows
  <2> QED BY <2>1, <2>2 DEF StatusInv, Shows
<1>2. Group \in SUBSET Sample /\ \A k : UpsertedBefore(k) \in SUBSET Sample
  BY DEF Group, UpsertedBefore, TypeOK
<1>3. CASE UpsertOk /\ realtime' = Applied(Group)
  BY <1>1, <1>2, <1>3 DEF UpsertOk
<1>4. CASE \E k \in 1 .. NSamples + 1 : UpsertErrAt(k) /\ realtime' = Applied(UpsertedBefore(k))
  BY <1>1, <1>2, <1>4 DEF UpsertErrAt
<1>5. CASE Restart /\ Seeding(realtime)
  <2>1. shown' = shown
    BY <1>5 DEF Restart, mysqlVars
  <2>2. PICK seeds \in SUBSET Node :
          realtime' = [n \in Node |-> IF n \in seeds THEN Seed(realtime[n]) ELSE realtime[n]]
    BY <1>5 DEF Seeding
  <2>3. ASSUME NEW n \in Node
        PROVE  realtime'[n] \in Row /\ Shows(realtime'[n], ShownOn(n))
    <3>1. realtime[n] \in Row /\ Shows(realtime[n], ShownOn(n)) /\ ShownOn(n) \in SUBSET Sample
      BY DEF StatusInv, ShownOn, TypeOK
    <3>2. Seed(realtime[n]) \in Row
      BY <3>1, AbsentAndSeeded DEF Seed
    <3>3. Shows(Seed(realtime[n]), ShownOn(n))
      BY <3>1, SeedShows
    <3> QED BY <2>2, <3>1, <3>2, <3>3
  <2>4. realtime' \in [Node -> Row]
    BY <2>2, <2>3
  <2>5. \A n \in Node : ShownOn(n)' = ShownOn(n)
    BY <2>1 DEF ShownOn
  <2> QED BY <2>3, <2>4, <2>5 DEF StatusInv, Shows
<1>6. CASE UNCHANGED <<shown, realtime>>
  BY <1>6 DEF StatusInv, ShownOn, Shows
<1> QED BY <1>3, <1>4, <1>5, <1>6, HistoryKeepsShown DEF RealtimeNext, realtimeVars, vars, mysqlVars

LEMMA StatusInvariance == RealtimeSpec => []StatusInv
<1>1. TypeOK /\ [RealtimeNext]_realtimeVars => TypeOK'
  BY NextTypeOK, WorkerStep
<1>2. RealtimeInit => TypeOK
  BY InitTypeOK DEF RealtimeInit
<1> QED BY <1>1, <1>2, InitStatusInv, NextStatusInv, PTL DEF RealtimeSpec

(* In every execution a realtime row shows the newest sample that was ever *)
(* applied to it, whatever the times, the batches, the buffer and the      *)
(* faults (NewestShown; accepts_newer of build_realtime_upsert_sql).       *)
THEOREM RowsShowTheNewest == RealtimeSpec => []NewestShown
<1>1. StatusInv => NewestShown
  BY DEF StatusInv, Shows, NewestShown
<1> QED BY <1>1, StatusInvariance, PTL

-----------------------------------------------------------------------------
(* fault_count. *)

(* The samples of one tag have different times; they are offered in the    *)
(* order of their times, as a subscription's publishes bring them.         *)
TimesDiffer ==
  \A s, t \in Sample : NodeOf[s] = NodeOf[t] /\ s # t => TsOf[s] # TsOf[t]
TimesIncrease ==
  \A s, t \in Sample : NodeOf[s] = NodeOf[t] /\ s < t => TsOf[s] < TsOf[t]

(* The samples of S at which a fault begins; Rises counts them.            *)
Starts(s, S) ==
  /\ AlarmOf[s]
  /\ \A p \in S : /\ TsOf[p] < TsOf[s]
                  /\ ~ \E q \in S : TsOf[p] < TsOf[q] /\ TsOf[q] < TsOf[s]
                  => ~AlarmOf[p]
Begun(S) == {s \in S : Starts(s, S)}

LEMMA RisesIsBegun == ASSUME NEW S PROVE Rises(S) = Cardinality(Begun(S))
BY DEF Rises, Begun, Starts

TimesApart(S) == \A s, t \in S : s # t => TsOf[s] # TsOf[t]

LEMMA BegunFinite ==
  ASSUME NEW S \in SUBSET Sample
  PROVE  IsFiniteSet(Begun(S)) /\ Rises(S) \in Nat
<1>1. Begun(S) \in SUBSET Sample
  BY DEF Begun
<1>2. IsFiniteSet(Begun(S)) /\ Cardinality(Begun(S)) \in Nat
  BY <1>1, SampleFinite, FS_Subset, FS_CardinalityType
<1> QED BY <1>2, RisesIsBegun

(* A sample newer than all others begins a fault if it is one and the      *)
(* newest of the others is none.                                           *)
LEMMA RisesWithNewest ==
  ASSUME NEW S \in SUBSET Sample, NEW s \in Sample \ S, TimesApart(S),
         \A t \in S : TsOf[t] < TsOf[s],
         NEW alarm \in BOOLEAN,
         \/ S = {} /\ alarm = FALSE
         \/ \E u \in S : (\A t \in S : TsOf[t] <= TsOf[u]) /\ alarm = AlarmOf[u]
  PROVE  Rises(S \cup {s}) = Rises(S) + Begins(alarm, AlarmOf[s])
<1> DEFINE T == S \cup {s}
<1>1. \A t \in T : TsOf[t] \in Nat
  BY RealtimeFacts
<1>2. \A x \in S : Starts(x, T) <=> Starts(x, S)
  <2> SUFFICES ASSUME NEW x \in S PROVE Starts(x, T) <=> Starts(x, S)
    OBVIOUS
  <2>1. TsOf[x] < TsOf[s] /\ ~ (TsOf[s] < TsOf[x])
    BY <1>1
  <2>2. \A p \in S : (\E q \in T : TsOf[p] < TsOf[q] /\ TsOf[q] < TsOf[x])
                      <=> (\E q \in S : TsOf[p] < TsOf[q] /\ TsOf[q] < TsOf[x])
    BY <2>1, Zenon
  <2> QED BY <2>1, <2>2, Zenon DEF Starts
<1>3. Starts(s, T) <=> AlarmOf[s] /\ ~alarm
  <2>1. CASE S = {} /\ alarm = FALSE
    <3>1. \A p \in T : ~ (TsOf[p] < TsOf[s])
      BY <1>1, <2>1
    <3> QED BY <2>1, <3>1, Zenon DEF Starts
  <2>2. ASSUME NEW u \in S, \A t \in S : TsOf[t] <= TsOf[u], alarm = AlarmOf[u]
        PROVE  Starts(s, T) <=> AlarmOf[s] /\ ~alarm
    <3>1. TsOf[u] < TsOf[s] /\ ~ (TsOf[s] < TsOf[s])
      BY <1>1
    <3>2. \A p \in T : TsOf[p] < TsOf[s] => p = u \/ TsOf[p] < TsOf[u]
      BY <1>1, <2>2, <3>1 DEF TimesApart
    <3>3. ~ \E q \in T : TsOf[u] < TsOf[q] /\ TsOf[q] < TsOf[s]
      BY <1>1, <2>2, <3>1
    <3> QED BY <2>2, <3>1, <3>2, <3>3, Zenon DEF Starts
  <2> QED BY <2>1, <2>2
<1>4. IsFiniteSet(Begun(S)) /\ s \notin Begun(S) /\ Cardinality(Begun(S)) \in Nat
  BY BegunFinite, RisesIsBegun DEF Begun
<1>5. CASE AlarmOf[s] /\ ~alarm
  <2>1. Begun(T) = Begun(S) \cup {s}
    BY <1>2, <1>3, <1>5 DEF Begun
  <2>2. Cardinality(Begun(T)) = Cardinality(Begun(S)) + 1
    BY <1>4, <2>1, FS_AddElement
  <2>3. Begins(alarm, AlarmOf[s]) = 1
    BY <1>5 DEF Begins
  <2> QED BY <2>2, <2>3, RisesIsBegun
<1>6. CASE ~ (AlarmOf[s] /\ ~alarm)
  <2>1. Begun(T) = Begun(S)
    BY <1>2, <1>3, <1>6 DEF Begun
  <2>2. Begins(alarm, AlarmOf[s]) = 0
    BY <1>6 DEF Begins
  <2> QED BY <1>4, <2>1, <2>2, RisesIsBegun
<1> QED BY <1>5, <1>6

(* A sample that comes late never takes a fault away: where it takes the   *)
(* place of one that began right after it, it begins that fault itself.    *)
LEMMA RisesWithLate ==
  ASSUME NEW S \in SUBSET Sample, NEW s \in Sample \ S, TimesApart(S \cup {s})
  PROVE  Rises(S) <= Rises(S \cup {s})
<1> DEFINE T == S \cup {s}
<1>1. \A t \in T : TsOf[t] \in Nat
  BY RealtimeFacts
<1>2. \A a, b \in T : a # b => TsOf[a] < TsOf[b] \/ TsOf[b] < TsOf[a]
  BY <1>1 DEF TimesApart
<1>2t. \A a, b, c \in T : TsOf[a] < TsOf[b] /\ TsOf[b] < TsOf[c] => TsOf[a] < TsOf[c]
  BY <1>1
<1>2a. \A a, b \in T : TsOf[a] < TsOf[b] => ~ (TsOf[b] < TsOf[a]) /\ a # b
  BY <1>1
<1>3. /\ IsFiniteSet(Begun(S)) /\ IsFiniteSet(Begun(T))
      /\ Cardinality(Begun(S)) \in Nat /\ Cardinality(Begun(T)) \in Nat
  BY BegunFinite, RisesIsBegun
<1>4. ASSUME NEW x \in Begun(S), x \notin Begun(T)
      PROVE  /\ TsOf[s] < TsOf[x] /\ AlarmOf[s]
             /\ ~ \E q \in T : TsOf[s] < TsOf[q] /\ TsOf[q] < TsOf[x]
  <2>1. x \in S /\ Starts(x, S) /\ ~ Starts(x, T)
    BY <1>4 DEF Begun
  <2>2. PICK p \in T : /\ TsOf[p] < TsOf[x]
                       /\ ~ \E q \in T : TsOf[p] < TsOf[q] /\ TsOf[q] < TsOf[x]
                       /\ AlarmOf[p]
    BY <2>1, Zenon DEF Starts
  <2>3. p = s
    BY <2>1, <2>2, Zenon DEF Starts
  <2> QED BY <2>2, <2>3, Zenon
<1>5. CASE Begun(S) \subseteq Begun(T)
  <2>1. Cardinality(Begun(S)) <= Cardinality(Begun(T))
    BY <1>3, <1>5, FS_Subset
  <2> QED BY <2>1, RisesIsBegun
<1>6. ASSUME NEW x \in Begun(S), x \notin Begun(T)
      PROVE  Rises(S) <= Rises(T)
  <2>1. x \in S /\ Starts(x, S)
    BY <1>6 DEF Begun
  <2>2. /\ TsOf[s] < TsOf[x] /\ AlarmOf[s]
        /\ ~ \E q \in T : TsOf[s] < TsOf[q] /\ TsOf[q] < TsOf[x]
    BY <1>4, <1>6
  <2>3. s \in Begun(T)
    <3> SUFFICES ASSUME NEW p \in T, TsOf[p] < TsOf[s],
                        ~ \E q \in T : TsOf[p] < TsOf[q] /\ TsOf[q] < TsOf[s]
                 PROVE  ~AlarmOf[p]
      BY <2>2, Zenon DEF Begun, Starts
    <3>1. p \in S /\ TsOf[p] < TsOf[x]
      BY <1>2t, <1>2a, <2>1, <2>2
    <3>2. ASSUME NEW q \in S, TsOf[p] < TsOf[q], TsOf[q] < TsOf[x] PROVE FALSE
      <4>1. q # s /\ q \in T
        OBVIOUS
      <4>2. CASE TsOf[q] < TsOf[s]
        BY <3>2, <4>1, <4>2
      <4>3. CASE TsOf[s] < TsOf[q]
        BY <2>2, <3>2, <4>1, <4>3
      <4> QED BY <1>2, <4>1, <4>2, <4>3
    <3> QED BY <2>1, <3>1, <3>2, Zenon DEF Starts
  <2>4. \A y \in Begun(S) \ Begun(T) : y = x
    <3> SUFFICES ASSUME NEW y \in Begun(S), y \notin Begun(T), y # x PROVE FALSE
      OBVIOUS
    <3>1. /\ TsOf[s] < TsOf[y]
          /\ ~ \E q \in T : TsOf[s] < TsOf[q] /\ TsOf[q] < TsOf[y]
      BY <1>4
    <3>2. y \in T /\ x \in T
      BY DEF Begun
    <3> QED BY <1>2, <2>2, <3>1, <3>2
  <2>5. s \notin Begun(S)
    BY DEF Begun
  <2> DEFINE kept == Begun(S) \ {x}
  <2>6. IsFiniteSet(kept) /\ Cardinality(kept) = Cardinality(Begun(S)) - 1
    BY <1>3, <1>6, FS_RemoveElement
  <2>7. kept \cup {s} \subseteq Begun(T)
    BY <2>3, <2>4
  <2>8. s \notin kept
    BY <2>5
  <2> HIDE DEF kept
  <2>9. IsFiniteSet(kept \cup {s}) /\ Cardinality(kept \cup {s}) = Cardinality(kept) + 1
    BY <2>6, <2>8, FS_AddElement
  <2>10. Cardinality(kept \cup {s}) <= Cardinality(Begun(T))
    BY <1>3, <2>7, FS_Subset
  <2>11. Cardinality(Begun(S)) <= Cardinality(Begun(T))
    BY <1>3, <2>6, <2>9, <2>10
  <2> QED BY <2>11, RisesIsBegun
<1> QED BY <1>5, <1>6

(* What CountOfFaults says of a row to which the samples of S were applied, *)
(* exactly or at most; the one more a seeded row may have counted.         *)
AtMostMore(row, S) == IF row.seeded /\ SomeNormal(S) THEN 1 ELSE 0
IndeedMore(row, S) == IF row.seeded /\ FirstNormal(S) THEN 1 ELSE 0

Counts(row, S, exact) ==
  /\ row.count <= Rises(S) + AtMostMore(row, S)
  /\ exact => row.count = Rises(S) + IndeedMore(row, S)

CountsInv(exact) == \A n \in Node : Counts(realtime[n], ShownOn(n), exact)

LEMMA NoRises == Rises({}) = 0
<1>1. Begun({}) = {}
  BY DEF Begun
<1> QED BY <1>1, RisesIsBegun, FS_EmptySet

LEMMA UpsertCounts ==
  ASSUME NEW row \in Row, NEW S \in SUBSET Sample, Shows(row, S), NEW s \in Sample,
         TimesApart(S \cup {s}), NEW exact \in BOOLEAN, Counts(row, S, exact),
         exact => \A t \in S : TsOf[t] < TsOf[s]
  PROVE  Counts(Upsert(row, TsOf[s], AlarmOf[s]), S \cup {s}, exact)
<1> DEFINE new == Upsert(row, TsOf[s], AlarmOf[s])
<1> SUFFICES Counts(new, S \cup {s}, exact)
  OBVIOUS
<1>1. /\ TsOf[s] \in Nat \ {0} /\ row.at \in Nat /\ row.count \in Nat
      /\ \A t \in S : TsOf[t] \in Nat \ {0}
  BY RealtimeFacts DEF Row
<1>2. AlarmOf[s] \in BOOLEAN /\ row.alarm \in BOOLEAN /\ Rises(S) \in Nat /\ Rises(S \cup {s}) \in Nat
  BY RealtimeFacts, BegunFinite DEF Row
<1>3. \A t \in S : TsOf[t] <= row.at
  BY <1>1 DEF Shows
<1>4. CASE S = {}
  <2>1. row \in {Absent, Seeded}
    BY <1>4 DEF Shows
  <2>2. new.count = Begins(FALSE, AlarmOf[s]) + (IF row.seeded /\ ~AlarmOf[s] THEN 1 ELSE 0)
    BY <1>1, <2>1 DEF Upsert, Updated, Replaced, CountsNow, Inserted, AcceptsNewer, Absent, Seeded,
                      Begins
  <2>3. Rises({s}) = Rises({}) + Begins(FALSE, AlarmOf[s])
    <3>1. S \cup {s} = {s}
      BY <1>4
    <3>2. Rises(S \cup {s}) = Rises(S) + Begins(FALSE, AlarmOf[s])
      BY <1>4, RisesWithNewest DEF TimesApart
    <3> QED BY <1>4, <3>1, <3>2
  <2>4. Begins(FALSE, AlarmOf[s]) \in Nat /\ S \cup {s} = {s}
    BY <1>4 DEF Begins
  <2>5. Rises(S \cup {s}) = Begins(FALSE, AlarmOf[s])
    <3>1. Rises(S \cup {s}) = Rises({s})
      BY <2>4
    <3>2. Rises({s}) = Begins(FALSE, AlarmOf[s])
      <4> DEFINE one == Begins(FALSE, AlarmOf[s])
      <4>1. one \in Nat /\ Rises({s}) = 0 + one
        BY <2>3, <2>4, NoRises, Zenon
      <4> HIDE DEF one
      <4>2. Rises({s}) = one
        BY <4>1
      <4> QED BY <4>2 DEF one
    <3> QED BY <3>1, <3>2, Zenon
  <2>6. SomeNormal(S \cup {s}) <=> ~AlarmOf[s]
    BY <2>4 DEF SomeNormal
  <2>7. FirstNormal(S \cup {s}) <=> ~AlarmOf[s]
    <3>1. TsOf[s] <= TsOf[s]
      BY <1>1
    <3>2. S \cup {s} = {s}
      BY <2>4
    <3>3. FirstNormal({s}) <=> ~AlarmOf[s]
      BY <3>1, Zenon DEF FirstNormal
    <3> QED BY <3>2, <3>3, Zenon
  <2>8. new.seeded = row.seeded
    <3>0. /\ Absent.at = 0 /\ Absent.seeded = FALSE /\ Absent.exists = FALSE
          /\ Seeded.at = 0 /\ Seeded.seeded = TRUE /\ Seeded.exists = TRUE
      BY DEF Absent, Seeded
    <3>1. row.exists => row.at = 0 /\ row.seeded = TRUE
      BY <2>1, <3>0, Zenon
    <3>2. ~row.exists => row.seeded = FALSE
      BY <2>1, <3>0, Zenon
    <3>3. row.exists => new = Replaced(row, TsOf[s], AlarmOf[s], CountsNow(row, AlarmOf[s]))
      BY <3>1 DEF Upsert, Updated, AcceptsNewer
    <3>4. ~row.exists => new = Inserted(TsOf[s], AlarmOf[s])
      BY DEF Upsert
    <3> HIDE DEF new
    <3>5. row.exists => new.seeded = row.seeded
      BY <3>3 DEF Replaced
    <3>6. ~row.exists => new.seeded = FALSE
      <4>1. Inserted(TsOf[s], AlarmOf[s]).seeded = FALSE
        BY Zenon DEF Inserted
      <4> QED BY <3>4, <4>1, Zenon
    <3> QED BY <3>2, <3>5, <3>6, Zenon
  <2> DEFINE more == IF row.seeded /\ ~AlarmOf[s] THEN 1 ELSE 0
             one  == Begins(FALSE, AlarmOf[s])
  <2>9. AtMostMore(new, S \cup {s}) = more /\ IndeedMore(new, S \cup {s}) = more
    BY <2>6, <2>7, <2>8 DEF AtMostMore, IndeedMore
  <2>10. more \in Nat /\ one \in Nat /\ new.count = one + more /\ Rises(S \cup {s}) = one
    BY <2>2, <2>4, <2>5, Zenon DEF more
  <2> HIDE DEF new, more, one
  <2> QED BY <2>9, <2>10 DEF Counts
<1>5. ASSUME S # {} PROVE Counts(new, S \cup {s}, exact)
  <2>1. PICK u \in S : /\ \A t \in S : TsOf[t] <= TsOf[u]
                       /\ row.at = TsOf[u] /\ row.alarm = AlarmOf[u]
    BY <1>5 DEF Shows
  <2>2. row.exists /\ row.at # 0
    BY <1>1, <2>1 DEF Row
  <2>m. /\ new.seeded = row.seeded
        /\ CountsNow(row, AlarmOf[s]) = Begins(row.alarm, AlarmOf[s])
    BY <2>2 DEF Upsert, Updated, Replaced, CountsNow
  <2>n. /\ AtMostMore(row, S) \in Nat /\ AtMostMore(new, S \cup {s}) \in Nat
        /\ AtMostMore(row, S) <= AtMostMore(new, S \cup {s})
    <3>1. SomeNormal(S) => SomeNormal(S \cup {s})
      BY DEF SomeNormal
    <3> HIDE DEF new
    <3> QED BY <2>m, <3>1 DEF AtMostMore
  <2>3. CASE s \in S
    <3>1. S \cup {s} = S
      BY <2>3
    <3>2. CASE TsOf[s] < TsOf[u]
      <4>1. new = row
        BY <1>1, <2>1, <2>2, <3>2 DEF Upsert, Updated, AcceptsNewer
      <4> HIDE DEF new
      <4> QED BY <3>1, <4>1 DEF Counts
    <3>3. CASE ~ (TsOf[s] < TsOf[u])
      <4>1. s = u
        BY <1>1, <2>1, <2>3, <3>3 DEF TimesApart
      <4>2. Begins(row.alarm, AlarmOf[s]) = 0
        BY <2>1, <4>1 DEF Begins
      <4>3. new.count = row.count
        BY <1>1, <2>1, <2>2, <2>m, <4>1, <4>2 DEF Upsert, Updated, Replaced, AcceptsNewer
      <4> HIDE DEF new
      <4>4. AtMostMore(new, S) = AtMostMore(row, S) /\ IndeedMore(new, S) = IndeedMore(row, S)
        BY <2>m DEF AtMostMore, IndeedMore
      <4> QED BY <3>1, <4>3, <4>4 DEF Counts
    <3> QED BY <3>2, <3>3
  <2>4. CASE s \notin S
    <3>1. TsOf[s] # TsOf[u]
      BY <2>4 DEF TimesApart
    <3>2. CASE TsOf[s] < TsOf[u]
      <4>1. new = row
        BY <1>1, <2>1, <2>2, <3>2 DEF Upsert, Updated, AcceptsNewer
      <4>2. ~ exact
        BY <1>1, <3>2
      <4>3. Rises(S) <= Rises(S \cup {s})
        BY <2>4, RisesWithLate
      <4>4. new.count <= Rises(S) + AtMostMore(row, S)
        BY <4>1 DEF Counts
      <4>5. new.count \in Nat
        BY <1>1, <4>1
      <4> HIDE DEF new
      <4>6. new.count <= Rises(S \cup {s}) + AtMostMore(new, S \cup {s})
        BY <1>2, <2>n, <4>3, <4>4, <4>5
      <4> QED BY <4>2, <4>6 DEF Counts
    <3>3. CASE TsOf[u] < TsOf[s]
      <4>1. \A t \in S : TsOf[t] < TsOf[s]
        BY <1>1, <2>1, <3>3
      <4>2. Rises(S \cup {s}) = Rises(S) + Begins(row.alarm, AlarmOf[s])
        <5>1. TimesApart(S) /\ s \in Sample \ S
          BY <2>4 DEF TimesApart
        <5>2. \E t \in S : (\A v \in S : TsOf[v] <= TsOf[t]) /\ row.alarm = AlarmOf[t]
          BY <2>1
        <5> QED BY <1>2, <4>1, <5>1, <5>2, RisesWithNewest
      <4>3. new.count = row.count + Begins(row.alarm, AlarmOf[s])
        BY <1>1, <2>1, <2>2, <2>m, <3>3 DEF Upsert, Updated, Replaced, AcceptsNewer
      <4>4. Begins(row.alarm, AlarmOf[s]) \in Nat
        BY DEF Begins
      <4>5. FirstNormal(S \cup {s}) <=> FirstNormal(S)
        <5>1. TsOf[s] \in Nat /\ \A t \in S : TsOf[t] < TsOf[s] /\ TsOf[t] <= TsOf[s] /\ ~ (TsOf[s] <= TsOf[t])
          BY <1>1, <4>1
        <5> QED BY <2>1, <5>1, Zenon DEF FirstNormal
      <4> DEFINE begins == Begins(row.alarm, AlarmOf[s])
                 more   == IndeedMore(row, S)
      <4>6. begins \in Nat /\ new.count = row.count + begins /\ Rises(S \cup {s}) = Rises(S) + begins
        BY <4>2, <4>3, <4>4
      <4> HIDE DEF new, begins
      <4>7. IndeedMore(new, S \cup {s}) = more /\ more \in Nat
        BY <2>m, <4>5 DEF IndeedMore
      <4> HIDE DEF more
      <4>8. new.count <= Rises(S \cup {s}) + AtMostMore(new, S \cup {s})
        <5>1. row.count <= Rises(S) + AtMostMore(row, S)
          BY DEF Counts
        <5> QED BY <1>1, <1>2, <2>n, <4>6, <5>1
      <4>9. exact => new.count = Rises(S \cup {s}) + IndeedMore(new, S \cup {s})
        <5>1. exact => row.count = Rises(S) + more
          BY DEF Counts, more
        <5> QED BY <1>1, <1>2, <4>6, <4>7, <5>1
      <4> QED BY <4>8, <4>9 DEF Counts
    <3> QED BY <3>1, <3>2, <3>3, <1>1, <2>1
  <2> QED BY <2>3, <2>4
<1> QED BY <1>4, <1>5

LEMMA SeedCounts ==
  ASSUME NEW row \in Row, NEW S \in SUBSET Sample, Shows(row, S),
         NEW exact \in BOOLEAN, Counts(row, S, exact)
  PROVE  Counts(Seed(row), S, exact)
<1>1. CASE row.exists
  BY <1>1 DEF Seed
<1>2. CASE ~row.exists
  <2>1. row.at = 0 /\ row.count = 0
    BY <1>2 DEF Row
  <2>2. S = {}
    BY <2>1, RealtimeFacts DEF Shows
  <2>3. ~ SomeNormal(S) /\ ~ FirstNormal(S)
    BY <2>2 DEF SomeNormal, FirstNormal
  <2>4. Rises(S) = 0
    BY <2>2, NoRises
  <2>5. Seed(row).count = 0
    BY <1>2 DEF Seed, Seeded
  <2> QED BY <2>3, <2>4, <2>5 DEF Counts, AtMostMore, IndeedMore
<1> QED BY <1>1, <1>2

LEMMA AfterSampleCounts ==
  ASSUME NEW before \in [Node -> Row], NEW S \in SUBSET Sample, TimesDiffer,
         NEW exact \in BOOLEAN,
         \A n \in Node : Shows(before[n], On(S, n)) /\ Counts(before[n], On(S, n), exact),
         NEW s \in Sample, NEW group,
         NEW T, T = IF s \in group THEN S \cup {s} ELSE S,
         exact /\ s \in group => \A t \in S : NodeOf[t] = NodeOf[s] => TsOf[t] < TsOf[s]
  PROVE  \A n \in Node : Counts(AfterSample(s, group, before)[n], On(T, n), exact)
<1> DEFINE node == NodeOf[s]
           new  == Upsert(before[node], TsOf[s], AlarmOf[s])
           rest == AfterSample(s, group, before)
<1>1. CASE s \notin group
  BY <1>1 DEF AfterSample
<1>2. CASE s \in group
  <2>1. node \in Node /\ before[node] \in Row
    BY RealtimeFacts
  <2>2. On(S, node) \in SUBSET Sample /\ On(T, node) = On(S, node) \cup {s}
    BY <1>2 DEF On
  <2>3. TimesApart(On(S, node) \cup {s})
    BY DEF On, TimesApart, TimesDiffer
  <2>4. exact => \A t \in On(S, node) : TsOf[t] < TsOf[s]
    BY <1>2 DEF On
  <2>5. Counts(new, On(T, node), exact)
    BY <2>1, <2>2, <2>3, <2>4, UpsertCounts
  <2>6. rest = [before EXCEPT ![node] = new]
    BY <1>2 DEF AfterSample
  <2> HIDE DEF new, rest
  <2>7. \A n \in Node : n # node => On(T, n) = On(S, n)
    BY <1>2 DEF On
  <2>8. \A n \in Node : Counts(rest[n], On(T, n), exact)
    BY <2>1, <2>5, <2>6, <2>7
  <2> QED BY <2>8 DEF rest
<1> QED BY <1>1, <1>2

(* The samples of a group are all newer than what was applied before.      *)
Later(group) ==
  \A s \in group, t \in shown \cup group :
    NodeOf[t] = NodeOf[s] /\ (t \in shown \/ t < s) => TsOf[t] < TsOf[s]

LEMMA AppliedCounts ==
  ASSUME StatusInv, TypeOK, TimesDiffer, NEW group \in SUBSET Sample,
         NEW exact \in BOOLEAN, exact => Later(group),
         \A n \in Node : Counts(realtime[n], ShownOn(n), exact)
  PROVE  \A n \in Node : Counts(Applied(group)[n], On(shown \cup group, n), exact)
<1>1. PICK f : IsRun(f, NSamples, group) /\ Applied(group) = f[NSamples]
  BY AppliedInOrder
<1>2. /\ NSamples \in Nat /\ NSamples \in 0 .. NSamples /\ group \subseteq 1 .. NSamples
      /\ Sample = 1 .. NSamples /\ shown \in SUBSET Sample
  BY RealtimeFacts DEF Sample, TypeOK
<1>3. /\ Through(0, group) = {} /\ Through(NSamples, group) = group
      /\ \A k \in 1 .. NSamples :
           Through(k, group) = IF k \in group THEN Through(k - 1, group) \cup {k}
                                              ELSE Through(k - 1, group)
  BY <1>2, ThroughGroup
<1>4. \A k \in 0 .. NSamples :
        /\ f[k] \in [Node -> Row]
        /\ \A n \in Node : Shows(f[k][n], On(shown \cup Through(k, group), n))
  BY <1>1, RunShows
<1> DEFINE Good == {k \in 0 .. NSamples :
                      \A n \in Node : Counts(f[k][n], On(shown \cup Through(k, group), n), exact)}
<1>5. 0 \in Good
  <2>1. f[0] = realtime /\ shown \cup Through(0, group) = shown
    BY <1>1, <1>2, <1>3 DEF IsRun
  <2>2. \A n \in Node : On(shown, n) = ShownOn(n)
    BY DEF On, ShownOn
  <2>3. \A n \in Node : Counts(f[0][n], On(shown \cup Through(0, group), n), exact)
    BY <2>1, <2>2, Zenon
  <2>4. 0 \in 0 .. NSamples
    BY <1>2
  <2> QED BY <2>3, <2>4, Zenon
<1>6. ASSUME NEW k \in 1 .. NSamples, k - 1 \in Good PROVE k \in Good
  <2> DEFINE last == shown \cup Through(k - 1, group)
             now  == shown \cup Through(k, group)
  <2>1. f[k] = AfterSample(k, group, f[k - 1])
    BY <1>1, <1>2 DEF IsRun
  <2>2. k \in Sample /\ k - 1 \in 0 .. NSamples /\ k \in 0 .. NSamples
    BY <1>2
  <2>3. last \in SUBSET Sample
    BY <1>2 DEF Through
  <2>4. now = IF k \in group THEN last \cup {k} ELSE last
    <3>1. Through(k, group) = IF k \in group THEN Through(k - 1, group) \cup {k}
                                              ELSE Through(k - 1, group)
      BY <1>3
    <3> QED BY <3>1, Zenon
  <2>5. /\ f[k - 1] \in [Node -> Row]
        /\ \A n \in Node : Shows(f[k - 1][n], On(last, n)) /\ Counts(f[k - 1][n], On(last, n), exact)
    BY <1>4, <1>6, <2>2
  <2>6. exact /\ k \in group => \A t \in last : NodeOf[t] = NodeOf[k] => TsOf[t] < TsOf[k]
    <3> SUFFICES ASSUME exact, k \in group, NEW t \in last, NodeOf[t] = NodeOf[k]
                 PROVE  TsOf[t] < TsOf[k]
      OBVIOUS
    <3>1. t \in shown \/ (t \in group /\ t <= k - 1)
      BY DEF Through
    <3>2. t \in shown \/ (t \in group /\ t < k)
      BY <1>2, <3>1
    <3> QED BY <3>2 DEF Later
  <2> HIDE DEF last, now, Good
  <2>7. \A n \in Node : Counts(AfterSample(k, group, f[k - 1])[n], On(now, n), exact)
    BY <2>2, <2>3, <2>4, <2>5, <2>6, AfterSampleCounts
  <2>8. \A n \in Node : Counts(f[k][n], On(now, n), exact)
    BY <2>1, <2>7
  <2> QED BY <2>2, <2>8 DEF now, Good
<1>7. 0 .. NSamples \subseteq Good
  <2> HIDE DEF Good
  <2> QED BY <1>2, <1>5, <1>6, UpToBound
<1>8. \A n \in Node : Counts(f[NSamples][n], On(shown \cup group, n), exact)
  BY <1>2, <1>3, <1>7
<1> QED BY <1>1, <1>8

(* A step of the composed system keeps the counts right, at most or        *)
(* exactly.                                                                *)
LEMMA NextCounts ==
  ASSUME StatusInv, TypeOK, TimesDiffer, [RealtimeNext]_realtimeVars,
         NEW exact \in BOOLEAN, exact /\ pc = "upsert" => Later(Group), CountsInv(exact)
  PROVE  \A n \in Node : Counts(realtime'[n], ShownOn(n)', exact)
<1> USE DEF CountsInv
<1>1. ASSUME NEW group \in SUBSET Sample, shown' = shown \cup group, realtime' = Applied(group),
             exact => Later(group)
      PROVE  \A n \in Node : Counts(realtime'[n], ShownOn(n)', exact)
  <2>1. \A n \in Node : ShownOn(n)' = On(shown \cup group, n)
    BY <1>1 DEF ShownOn, On
  <2>2. \A n \in Node : Counts(realtime'[n], On(shown \cup group, n), exact)
    BY <1>1, AppliedCounts
  <2> QED BY <2>1, <2>2
<1>2. Group \in SUBSET Sample /\ \A k : UpsertedBefore(k) \in SUBSET Sample
  BY DEF Group, UpsertedBefore, TypeOK
<1>3. CASE UpsertOk /\ realtime' = Applied(Group)
  BY <1>1, <1>2, <1>3 DEF UpsertOk
<1>4. ASSUME NEW k \in 1 .. NSamples + 1, UpsertErrAt(k), realtime' = Applied(UpsertedBefore(k))
      PROVE  \A n \in Node : Counts(realtime'[n], ShownOn(n)', exact)
  <2>1. UpsertedBefore(k) \subseteq Group
    BY DEF UpsertedBefore
  <2>2. exact => Later(UpsertedBefore(k))
    BY <1>4, <2>1 DEF Later, UpsertErrAt
  <2> QED BY <1>1, <1>2, <1>4, <2>2 DEF UpsertErrAt
<1>5. CASE Restart /\ Seeding(realtime)
  <2>1. shown' = shown
    BY <1>5 DEF Restart, mysqlVars
  <2>2. PICK seeds \in SUBSET Node :
          realtime' = [n \in Node |-> IF n \in seeds THEN Seed(realtime[n]) ELSE realtime[n]]
    BY <1>5 DEF Seeding
  <2>3. \A n \in Node : ShownOn(n)' = ShownOn(n) /\ ShownOn(n) \in SUBSET Sample
    BY <2>1 DEF ShownOn, TypeOK
  <2>4. \A n \in Node : Counts(Seed(realtime[n]), ShownOn(n), exact)
    BY <2>3, SeedCounts DEF StatusInv
  <2> QED BY <2>2, <2>3, <2>4
<1>6. CASE UNCHANGED <<shown, realtime>>
  BY <1>6 DEF ShownOn
<1> QED BY <1>3, <1>4, <1>5, <1>6, HistoryKeepsShown DEF RealtimeNext, realtimeVars, vars, mysqlVars

CountsAtMost ==
  \A n \in Node :
    realtime[n].count <= Rises(ShownOn(n)) + AtMostMore(realtime[n], ShownOn(n))

LEMMA InitCounts ==
  ASSUME RealtimeInit
  PROVE  CountsInv(TRUE) /\ CountsInv(FALSE)
<1>1. shown = {} /\ realtime \in [Node -> {Absent, Seeded}]
  BY DEF RealtimeInit, Init
<1>2. \A n \in Node : ShownOn(n) = {}
  BY <1>1 DEF ShownOn
<1>3. \A n \in Node : realtime[n].count = 0
  BY <1>1 DEF Absent, Seeded
<1>4. ~ SomeNormal({}) /\ ~ FirstNormal({})
  BY DEF SomeNormal, FirstNormal
<1>5. \A n \in Node : Counts(realtime[n], {}, TRUE) /\ Counts(realtime[n], {}, FALSE)
  BY <1>3, <1>4, NoRises DEF Counts, AtMostMore, IndeedMore
<1> QED BY <1>2, <1>5 DEF CountsInv

(* No replay, no late sample and no restart makes fault_count exceed the   *)
(* number of faults that began by more than the one normal sample a seeded *)
(* row may have counted, in whatever order the samples of a tag, all of    *)
(* different times, are offered, buffered and applied.                     *)
THEOREM FaultsAreNotOvercounted ==
  ASSUME TimesDiffer
  PROVE  RealtimeSpec => []CountsAtMost
<1>1. RealtimeInit => CountsAtMost
  BY InitCounts DEF CountsAtMost, CountsInv, Counts
<1>2. ASSUME CountsAtMost, StatusInv, TypeOK, [RealtimeNext]_realtimeVars
      PROVE  CountsAtMost'
  <2>1. CountsInv(FALSE)
    BY <1>2 DEF CountsAtMost, CountsInv, Counts
  <2>2. \A n \in Node : Counts(realtime'[n], ShownOn(n)', FALSE)
    BY <1>2, <2>1, NextCounts
  <2> QED BY <2>2 DEF CountsAtMost, Counts, AtMostMore, Rises, SomeNormal
<1>3. Spec => []TypeOK
  BY TypeCorrect
<1> QED BY <1>1, <1>2, <1>3, StillTheWorker, StatusInvariance, PTL DEF RealtimeSpec

(* What is still on its way to a history table.                            *)
Coming == chan \cup pending \cup todo

(* As long as nothing was buffered, the samples of a table that are still  *)
(* to come were offered after all those that have been applied.            *)
OrderInv ==
  /\ \A s \in shown : s <= offered
  /\ nextKey = 0 => \A s \in shown, t \in Coming : TableOf[s] = TableOf[t] => s < t

(* Keys are handed out once: the next one never goes back to zero.         *)
LEMMA NextKeyGrows ==
  ASSUME TypeOK, [Next]_vars
  PROVE  nextKey' = 0 => nextKey = 0
<1> USE DEF controlVars, sledVars, mysqlVars
<1>1. CASE Push
  <2>1. Cardinality(Group) \in Nat /\ nextKey \in Nat
    BY SampleFinite, GroupFacts, FS_Subset, FS_CardinalityType DEF TypeOK
  <2> QED BY <1>1, <2>1 DEF Push
<1>2. CASE ~Push
  BY <1>2 DEF Next, WorkerNext, FaultNext, vars, Offer, CollectorsEnd, Signal, Recovery, Recv, Tick,
     LeaveLoop, Drain, FinalFlush, Stop, TakeSample, BatchDone, InsertOk, InsertErr,
     InsertAmbiguous, UpsertOk, UpsertErr, UpsertErrAt, PushFlush, DrainBatch, Ack, AckFlush,
     BufferError, Outage, Restart
<1> QED BY <1>1, <1>2

LEMMA NextOrderInv ==
  ASSUME TypeOK, BatchInv, BufferInv, PlaceInv, FifoInv, KeysInv, OrderInv, [Next]_vars
  PROVE  OrderInv'
<1> USE DEF Replaying, controlVars, sledVars, mysqlVars, collectorVars
<1>1. /\ Sample \subseteq Nat /\ Held \cup Kept \subseteq Sample
      /\ \A s \in Held \cup Kept : s <= offered
      /\ \A s \in Group, t \in todo \ Group : TableOf[s] # TableOf[t]
  BY OrderFacts
<1>2. offered \in Nat /\ nextKey \in Nat /\ shown \subseteq Nat /\ offered <= NSamples
  BY <1>1, SinkAssumption DEF TypeOK, SinkAssumption
<1>3. nextKey = 0 => sled = {} /\ durable = {}
  <2>1. ASSUME nextKey = 0, NEW s \in Kept PROVE FALSE
    <3>1. key[s] \in Nat
      BY <1>1 DEF TypeOK
    <3> QED BY <2>1, <3>1 DEF KeysInv
  <2> QED BY <2>1 DEF Kept
<1>4. nextKey' = 0 => nextKey = 0
  BY NextKeyGrows
<1>5. ASSUME shown' = shown, offered' = offered, nextKey = 0 => Coming' \subseteq Coming
      PROVE  OrderInv'
  BY <1>4, <1>5 DEF OrderInv
<1>6. CASE Offer
  <2>1. shown' = shown /\ offered' = offered + 1 /\ Coming' \subseteq Coming \cup {offered + 1}
    BY <1>6 DEF Offer, Coming
  <2>2. \A s \in shown : s < offered + 1 /\ s <= offered + 1
    BY <1>2 DEF OrderInv
  <2> QED BY <1>4, <2>1, <2>2 DEF OrderInv
<1>7. ASSUME NEW group \in SUBSET Group, pc = "upsert", shown' = shown \cup group, AfterUpsert,
             UNCHANGED <<offered, chan, pending, nextKey>>
      PROVE  OrderInv'
  <2>1. Group \subseteq todo
    BY DEF Group
  <2>2. \A s \in group : s <= offered
    BY <1>1, <2>1 DEF Held
  <2>3. ASSUME nextKey = 0, NEW s \in group, NEW t \in Coming', TableOf[s] = TableOf[t]
        PROVE  s < t
    <3>1. ~Replaying
      BY <1>3, <1>7, <2>1, <2>3 DEF BufferInv
    <3>2. todo' = todo \ Group
      BY <1>7, <3>1 DEF AfterUpsert, FinishGroup
    <3>3. t \in chan \cup pending
      BY <1>1, <1>7, <2>3, <3>2 DEF Coming
    <3> QED BY <2>1, <3>1, <3>3 DEF FifoInv
  <2>4. Coming' \subseteq Coming
    BY <1>7 DEF Coming, AfterUpsert, FinishGroup
  <2> QED BY <1>7, <2>2, <2>3, <2>4 DEF OrderInv
<1>8. CASE UpsertOk
  BY <1>7, <1>8 DEF UpsertOk
<1>9. ASSUME NEW k \in 1 .. NSamples + 1, UpsertErrAt(k) PROVE OrderInv'
  BY <1>7, <1>9 DEF UpsertErrAt, UpsertedBefore
<1>10. CASE Recv \/ Drain
  BY <1>5, <1>10 DEF Recv, Drain, TakeSample, StartBatch, Coming
<1>11. CASE Tick \/ FinalFlush
  BY <1>5, <1>11 DEF Tick, FinalFlush, StartBatch, Coming
<1>12. CASE DrainBatch
  BY <1>3, <1>5, <1>12 DEF DrainBatch, StartBatch, Oldest, Coming
<1>13. CASE Stop \/ BufferError \/ Restart
  BY <1>5, <1>13 DEF Stop, BufferError, Die, Forget, Restart, Coming
<1>14. CASE Push
  BY <1>5, <1>14 DEF Push, Die, Forget, Coming
<1>15. CASE InsertOk \/ InsertErr \/ InsertAmbiguous
  BY <1>5, <1>15 DEF InsertOk, InsertErr, InsertAmbiguous, OnInsertError, FinishGroup, Coming
<1>16. CASE PushFlush \/ Ack \/ AckFlush
  BY <1>5, <1>16 DEF PushFlush, Ack, AckFlush, FinishGroup, Coming
<1>17. CASE LeaveLoop \/ BatchDone \/ CollectorsEnd \/ Signal \/ Recovery \/ Outage \/ UNCHANGED vars
  BY <1>5, <1>17 DEF LeaveLoop, BatchDone, CollectorsEnd, Signal, Recovery, Outage, vars, Coming
<1> QED
  BY <1>6, <1>8, <1>9, <1>10, <1>11, <1>12, <1>13, <1>14, <1>15, <1>16, <1>17
  DEF Next, WorkerNext, FaultNext, UpsertErr

LEMMA OrderInvariance == Spec => []OrderInv
<1>1. Init => OrderInv
  BY DEF Init, OrderInv
<1>2. SinkInv => TypeOK /\ BatchInv /\ BufferInv /\ PlaceInv
  BY DEF SinkInv
<1> QED BY <1>1, <1>2, NextOrderInv, Invariance, BufferInvariance, PTL DEF Spec

(* The times of one tag's samples are in their order, and so are the tags' *)
(* tables: while nothing has gone through the buffer, a group is newer     *)
(* than everything that was applied to its rows before.                    *)
LEMMA GroupIsLater ==
  ASSUME TimesIncrease, OrderInv, TypeOK, nextKey = 0
  PROVE  Later(Group)
<1> SUFFICES ASSUME NEW s \in Group, NEW t \in shown \cup Group,
                    NodeOf[t] = NodeOf[s], t \in shown \/ t < s
             PROVE  TsOf[t] < TsOf[s]
  BY DEF Later
<1>1. s \in todo /\ s \in Sample /\ t \in Sample
  BY DEF Group, TypeOK
<1>2. TableOf[t] = TableOf[s]
  BY <1>1, RealtimeAssumption DEF RealtimeAssumption
<1>3. t < s
  BY <1>1, <1>2 DEF OrderInv, Coming
<1> QED BY <1>1, <1>3 DEF TimesIncrease

(* Where the samples of a tag are offered in the order of their times,     *)
(* fault_count never exceeds the faults that began by more than the normal *)
(* first sample of a seeded row, and as long as nothing went through the   *)
(* buffer it is their number and that one, whatever batches, failed        *)
(* upserts and restarts there were (CountOfFaults).                        *)
THEOREM FaultsAreCounted ==
  ASSUME TimesIncrease
  PROVE  RealtimeSpec => []CountOfFaults
<1>1. TimesDiffer
  <2> SUFFICES ASSUME NEW s \in Sample, NEW t \in Sample, NodeOf[s] = NodeOf[t], s # t
               PROVE  TsOf[s] # TsOf[t]
    BY DEF TimesDiffer
  <2>1. s \in Nat /\ t \in Nat
    BY DEF Sample
  <2>2. s < t \/ t < s
    BY <2>1
  <2>3. TsOf[s] < TsOf[t] \/ TsOf[t] < TsOf[s]
    BY <2>2 DEF TimesIncrease
  <2> QED BY <2>3, RealtimeFacts
<1>2. RealtimeInit => CountOfFaults
  BY InitCounts DEF CountOfFaults, CountsInv, Counts, AtMostMore, IndeedMore
<1>3. ASSUME CountOfFaults, StatusInv, TypeOK, OrderInv, (nextKey' = 0 => nextKey = 0),
             [RealtimeNext]_realtimeVars
      PROVE  CountOfFaults'
  <2>1. CountsInv(nextKey = 0)
    BY <1>3 DEF CountOfFaults, CountsInv, Counts, AtMostMore, IndeedMore
  <2>2. \A n \in Node : Counts(realtime'[n], ShownOn(n)', nextKey = 0)
    BY <1>1, <1>3, <2>1, GroupIsLater, NextCounts
  <2> QED BY <1>3, <2>2 DEF CountOfFaults, Counts, AtMostMore, IndeedMore, Rises, SomeNormal, FirstNormal
<1>4. TypeOK /\ [RealtimeNext]_realtimeVars => (nextKey' = 0 => nextKey = 0)
  BY NextKeyGrows, WorkerStep
<1> QED
  BY <1>2, <1>3, <1>4, StillTheWorker, TypeCorrect, OrderInvariance, StatusInvariance, PTL DEF RealtimeSpec
=============================================================================
