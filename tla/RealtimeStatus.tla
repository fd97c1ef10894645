--------------------------- MODULE RealtimeStatus ---------------------------
(***************************************************************************)
(* The sink worker together with the realtime status rows it maintains:    *)
(* every step of SinkWorker, with what its realtime statements do to       *)
(* device_realtime_status (src/sink.rs, seed_realtime_status and           *)
(* upsert_realtime_sample_refs).  Samples reach the rows out of order when *)
(* some go through the buffer, and more than once when an acknowledgement  *)
(* is cut off.                                                             *)
(***************************************************************************)
EXTENDS SinkWorker, RealtimeRow

CONSTANTS
  NodeOf,   (* the OPC UA node of each sample                               *)
  TsOf,     (* source_ts of each sample, in seconds as last_fault_at has it *)
  AlarmOf   (* whether tag_value() of the sample is a fault                 *)

Node == {NodeOf[s] : s \in Sample}

ASSUME RealtimeAssumption ==
  /\ DOMAIN NodeOf = Sample
  /\ TsOf \in [Sample -> Nat \ {0}]
  /\ AlarmOf \in [Sample -> BOOLEAN]
  /\ \A s, t \in Sample : NodeOf[s] = NodeOf[t] => TableOf[s] = TableOf[t]

VARIABLE realtime   (* the row of each node in device_realtime_status *)

realtimeVars == <<vars, realtime>>

(* The multi-row upsert handles the samples in the order of the group.  The *)
(* buffer hands a table's samples back in the order they arrived           *)
(* (ReplayKeepsOrder), so that is their order in every group.              *)
Applied(group) ==
  LET upTo[s \in 0 .. NSamples] ==
        IF s = 0 THEN realtime
        ELSE IF s \in group
        THEN [upTo[s - 1] EXCEPT ![NodeOf[s]] = Upsert(@, TsOf[s], AlarmOf[s])]
        ELSE upTo[s - 1]
  IN  upTo[NSamples]

(* seed_realtime_status at the start of run: a failure is only logged, with *)
(* the chunks before it done; samples need not belong to a seeded tag.     *)
Seeding(old) ==
  \E seeds \in SUBSET Node :
    realtime' = [n \in Node |-> IF n \in seeds THEN Seed(old[n]) ELSE old[n]]

RealtimeInit ==
  /\ Init
  /\ realtime \in [Node -> {Absent, Seeded}]

(* The steps that leave the realtime rows alone. *)
HistoryNext ==
  \/ Offer \/ CollectorsEnd \/ Signal \/ Recovery
  \/ Recv \/ Tick \/ LeaveLoop \/ Drain \/ FinalFlush \/ Stop
  \/ BatchDone \/ InsertOk \/ InsertErr \/ InsertAmbiguous
  \/ Push \/ PushFlush \/ DrainBatch \/ Ack \/ AckFlush
  \/ BufferError \/ Outage

RealtimeNext ==
  \/ UpsertOk /\ realtime' = Applied(Group)
  \/ \E k \in 1 .. NSamples + 1 :
       UpsertErrAt(k) /\ realtime' = Applied(UpsertedBefore(k))
  \/ Restart /\ Seeding(realtime)
  \/ HistoryNext /\ UNCHANGED realtime

RealtimeSpec == RealtimeInit /\ [][RealtimeNext]_realtimeVars
-----------------------------------------------------------------------------
ShownOn(n) == {s \in shown : NodeOf[s] = n}

(* How often the samples of S, in the order of their times, go from no      *)
(* fault to fault.                                                         *)
Rises(S) ==
  Cardinality({s \in S :
    /\ AlarmOf[s]
    /\ \A p \in S : /\ TsOf[p] < TsOf[s]
                    /\ ~ \E q \in S : TsOf[p] < TsOf[q] /\ TsOf[q] < TsOf[s]
                    => ~AlarmOf[p]})

(* A realtime row shows the newest sample that was ever applied to it,     *)
(* whatever way the samples took and however often they were replayed      *)
(* (accepts_newer in build_realtime_upsert_sql).                           *)
NewestShown ==
  \A n \in Node :
    \/ ShownOn(n) = {} /\ realtime[n] \in {Absent, Seeded}
    \/ \E s \in ShownOn(n) :
         /\ \A t \in ShownOn(n) : TsOf[t] <= TsOf[s]
         /\ realtime[n].at = TsOf[s]
         /\ realtime[n].alarm = AlarmOf[s]

(* Some sample of S is normal; the one of the earliest time is.            *)
SomeNormal(S)  == \E s \in S : ~AlarmOf[s]
FirstNormal(S) == \E s \in S : ~AlarmOf[s] /\ \A t \in S : TsOf[s] <= TsOf[t]

(* A row that the seed made counts its first sample even if it is normal   *)
(* (CountsNow).  Apart from that one, and where a tag's times are distinct, *)
(* no replay or duplicate makes fault_count exceed the number of faults    *)
(* that began; and where its samples are also offered in the order of      *)
(* their times, it is that number, plus one for a normal first sample on a *)
(* seeded row, as long as nothing has gone through the buffer, also after  *)
(* restarts that seed again.                                               *)
CountOfFaults ==
  \A n \in Node :
    LET row    == realtime[n]
        begun  == Rises(ShownOn(n))
        atMost == row.seeded /\ SomeNormal(ShownOn(n))
        indeed == row.seeded /\ FirstNormal(ShownOn(n))
    IN  /\ row.count <= begun + (IF atMost THEN 1 ELSE 0)
        /\ nextKey = 0 => row.count = begun + (IF indeed THEN 1 ELSE 0)

(* fault_count counts every fault that began, as its column comment says   *)
(* (故障发生累计次数, migrations/202605200001_add_realtime_fault_count.sql:6).  *)
CountsEveryFault == \A n \in Node : realtime[n].count >= Rises(ShownOn(n))
=============================================================================
