----------------------------- MODULE SinkWorker -----------------------------
(***************************************************************************)
(* The delivery path of the bridge: collectors put samples on a bounded    *)
(* channel with try_send, the sink worker batches them into MySQL, falls   *)
(* back to a sled buffer when an insert fails and replays the buffer       *)
(* later (src/sink.rs, src/buffer.rs, the channel and the shutdown         *)
(* sequence of src/main.rs).                                               *)
(*                                                                         *)
(* Samples are numbered in the order the collectors offer them, so a FIFO  *)
(* of samples is the set of those in it and its head is the least.  Each   *)
(* MySQL statement is one step; a crash or a failed call may fall between  *)
(* any two of them.                                                        *)
(***************************************************************************)
EXTENDS Naturals, FiniteSets

CONSTANTS
  NSamples,    (* number of samples the collectors offer (bounds the model) *)
  Tables,      (* history tables, numbered in their BTreeMap order          *)
  TableOf,     (* the table SinkTableRouter picks for each sample           *)
  Rejected,    (* samples whose row MySQL refuses for good: missing table,  *)
               (* value too long for its column                             *)
  BatchSize,   (* sink.batch_size, also the replay batch                    *)
  ChannelCap,  (* capacity of the mpsc channel                              *)
  BufferCap,   (* buffer.max_size_mb, in buffered samples                   *)
  MaxFaults    (* how often each kind of fault may happen (bounds the model)*)

FaultKind == {"outage", "ambiguous", "upsert", "buffer", "restart"}

Sample == 1 .. NSamples

ASSUME SinkAssumption ==
  /\ NSamples \in Nat
  /\ Tables \subseteq Nat
  /\ TableOf \in [Sample -> Tables]
  /\ Rejected \subseteq Sample
  /\ BatchSize \in Nat \ {0}
  /\ ChannelCap \in Nat \ {0}
  /\ BufferCap \in Nat
  /\ MaxFaults \in [FaultKind -> Nat]

VARIABLES
  offered,     (* samples 1..offered have been offered to the channel       *)
  dropped,     (* offered samples whose try_send failed                     *)
  drained,     (* how many had been offered when the drain after the select *)
               (* loop found the channel empty (history variable)           *)
  collecting,  (* some collector still holds a Sender                       *)
  shutdown,    (* the watch value main sends on Ctrl+C / SIGTERM            *)
  chan,        (* samples in the mpsc channel                               *)
  pending,     (* BatchBuilder.pending                                      *)
  pc,          (* where the sink worker is                                  *)
  todo,        (* samples of the batch whose table group is not finished    *)
  after,       (* where the worker goes when the batch is finished          *)
  sled,        (* samples in the sled tree, as the process sees it          *)
  durable,     (* samples in the sled tree as of its last completed flush   *)
  key,         (* the generate_id() key of each sample pushed               *)
  nextKey,     (* the next generate_id() value                              *)
  rows,        (* history rows MySQL holds for each sample                  *)
  shown,       (* samples whose realtime upsert has been applied            *)
  lost,        (* accepted samples that vanished with the memory that held  *)
               (* them and are neither buffered nor stored                  *)
  down,        (* tables whose inserts fail at present                      *)
  faults       (* how many faults of each kind have happened                *)

collectorVars == <<offered, dropped, drained>>
controlVars   == <<pc, todo, after>>
sledVars      == <<sled, durable, key, nextKey>>
mysqlVars     == <<rows, shown>>
vars == <<collectorVars, collecting, shutdown, chan, pending, controlVars,
          sledVars, mysqlVars, lost, down, faults>>

Accepted == (1 .. offered) \ dropped
Stored   == {s \in Sample : rows[s] > 0}

(* The receiver lives until SinkWorker::run returns. *)
Open == pc \notin {"stopped", "dead"}

(* replay_buffered and flush_new_samples share insert_sample_refs. *)
Replaying == after = "idle"

(* The group insert_sample_refs is working on: group_samples_by_table and  *)
(* group_buffered_by_table hand out the tables in BTreeMap order.          *)
Group == {s \in todo : \A t \in todo : TableOf[s] <= TableOf[t]}

(* Faulty variant of Oldest: nothing until there is a full batch. *)
OldestFullOnly ==
  IF Cardinality(sled) < BatchSize THEN {}
  ELSE {s \in sled : Cardinality({t \in sled : key[t] < key[s]}) < BatchSize}

(* What drain_batch returns: the first BatchSize entries in key order.     *)
Oldest == {s \in sled : Cardinality({t \in sled : key[t] < key[s]}) < BatchSize}

Fault(kind) ==
  /\ faults[kind] < MaxFaults[kind]
  /\ faults' = [faults EXCEPT ![kind] = @ + 1]

StartBatch(batch, next) ==
  /\ todo' = batch
  /\ after' = next
  /\ pc' = "insert"

FinishGroup ==
  /\ todo' = todo \ Group
  /\ pc' = "insert"
  /\ UNCHANGED after

(* The memory of the worker goes; what it held is lost unless it is stored *)
(* or among the buffered samples kept.                                     *)
Forget(kept) ==
  /\ lost' = lost \cup {s \in (chan \cup pending \cup todo \cup sled) \ kept :
                          rows[s] = 0}
  /\ chan' = {}
  /\ pending' = {}
  /\ todo' = {}

(* run returned an error through `?`: main only looks at the result after  *)
(* the shutdown signal, so the process goes on without a sink.             *)
Die ==
  /\ pc' = "dead"
  /\ Forget(sled)
  /\ UNCHANGED after
-----------------------------------------------------------------------------
Init ==
  /\ offered = 0
  /\ dropped = {}
  /\ drained = 0
  /\ collecting = TRUE
  /\ shutdown = FALSE
  /\ chan = {}
  /\ pending = {}
  /\ pc = "replay"
  /\ todo = {}
  /\ after = "idle"
  /\ sled = {}
  /\ durable = {}
  /\ key = [s \in Sample |-> 0]
  /\ nextKey = 0
  /\ rows = [s \in Sample |-> 0]
  /\ shown = {}
  /\ lost = {}
  /\ down = {}
  /\ faults = [kind \in FaultKind |-> 0]
-----------------------------------------------------------------------------
(* Collectors: a collector's try_send, which never waits. *)

Offer ==
  /\ collecting
  /\ offered < NSamples
  /\ offered' = offered + 1
  /\ IF Open /\ Cardinality(chan) < ChannelCap
     THEN chan' = chan \cup {offered + 1} /\ UNCHANGED dropped
     ELSE dropped' = dropped \cup {offered + 1} /\ UNCHANGED chan
  /\ UNCHANGED <<drained, collecting, shutdown, pending, controlVars, sledVars,
                 mysqlVars, lost, down, faults>>

(* The last collector returns (shutdown seen, event loop ended, retry limit *)
(* used up) and with it goes the last Sender.                               *)
CollectorsEnd ==
  /\ collecting
  /\ collecting' = FALSE
  /\ UNCHANGED <<collectorVars, shutdown, chan, pending, controlVars, sledVars,
                 mysqlVars, lost, down, faults>>

Signal ==
  /\ ~shutdown
  /\ shutdown' = TRUE
  /\ UNCHANGED <<collectorVars, collecting, chan, pending, controlVars,
                 sledVars, mysqlVars, lost, down, faults>>
-----------------------------------------------------------------------------
(* The select loop of SinkWorker::run. *)

(* Faulty variants of TakeSample: the full batch push returns is ignored;  *)
(* the size is compared with > where the code has >=.                      *)
TakeSampleIgnoringFull(next) ==
  /\ \E s \in chan :
       /\ \A t \in chan : s <= t
       /\ chan' = chan \ {s}
       /\ pending' = IF Cardinality(pending) + 1 >= BatchSize
                     THEN {} ELSE pending \cup {s}
  /\ UNCHANGED <<collectorVars, collecting, shutdown, controlVars, sledVars,
                 mysqlVars, lost, down, faults>>

(* BatchBuilder::push of the sample at the head of the channel; a full     *)
(* batch is flushed at once, and the loop goes on at next.                 *)
TakeSample(next) ==
  /\ \E s \in chan :
       /\ \A t \in chan : s <= t
       /\ chan' = chan \ {s}
       /\ LET batch == pending \cup {s}
          IN  IF Cardinality(batch) >= BatchSize
              THEN pending' = {} /\ StartBatch(batch, next)
              ELSE pending' = batch /\ UNCHANGED controlVars
  /\ UNCHANGED <<collectorVars, collecting, shutdown, sledVars, mysqlVars,
                 lost, down, faults>>

Recv == pc = "idle" /\ TakeSample("replay")

(* Faulty variant of Tick: the interval flushes full batches only. *)
TickFullOnly ==
  /\ pc = "idle"
  /\ Cardinality(pending) >= BatchSize
  /\ pending' = {}
  /\ StartBatch(pending, "replay")
  /\ UNCHANGED <<collectorVars, collecting, shutdown, chan, sledVars,
                 mysqlVars, lost, down, faults>>

Tick ==
  /\ pc = "idle"
  /\ pending' = {}
  /\ StartBatch(pending, "replay")
  /\ UNCHANGED <<collectorVars, collecting, shutdown, chan, sledVars,
                 mysqlVars, lost, down, faults>>

(* Faulty variant of LeaveLoop: the shutdown branch does not break. *)
LeaveLoopOnCloseOnly ==
  /\ pc = "idle"
  /\ ~collecting /\ chan = {}
  /\ pc' = "drain"
  /\ UNCHANGED <<collectorVars, collecting, shutdown, chan, pending, todo,
                 after, sledVars, mysqlVars, lost, down, faults>>

(* Both ways out of the select loop: recv() gives None, or shutdown.       *)
LeaveLoop ==
  /\ pc = "idle"
  /\ shutdown \/ (~collecting /\ chan = {})
  /\ pc' = "drain"
  /\ UNCHANGED <<collectorVars, collecting, shutdown, chan, pending, todo,
                 after, sledVars, mysqlVars, lost, down, faults>>

Drain == pc = "drain" /\ TakeSample("drain")

(* Faulty variant of FinalFlush: no drain of the channel before it. *)
FinalFlushUndrained ==
  /\ pc = "drain"
  /\ drained' = offered
  /\ pending' = {}
  /\ StartBatch(pending, "final")
  /\ UNCHANGED <<offered, dropped, collecting, shutdown, chan, sledVars,
                 mysqlVars, lost, down, faults>>

(* The drain is over as soon as try_recv finds the channel empty once.     *)
FinalFlush ==
  /\ pc = "drain"
  /\ chan = {}
  /\ drained' = offered
  /\ pending' = {}
  /\ StartBatch(pending, "final")
  /\ UNCHANGED <<offered, dropped, collecting, shutdown, chan, sledVars,
                 mysqlVars, lost, down, faults>>

(* Faulty variant of Stop: the buffer is cleared, not flushed. *)
StopClearing ==
  /\ pc = "final"
  /\ pc' = "stopped"
  /\ sled' = {}
  /\ durable' = {}
  /\ Forget({})
  /\ UNCHANGED <<collectorVars, collecting, shutdown, after, key, nextKey,
                 mysqlVars, down, faults>>

Stop ==
  /\ pc = "final"
  /\ pc' = "stopped"
  /\ durable' = sled
  /\ Forget(sled)
  /\ UNCHANGED <<collectorVars, collecting, shutdown, after, sled, key, nextKey,
                 mysqlVars, down, faults>>
-----------------------------------------------------------------------------
(* One table group of a batch, new or replayed. *)

BatchDone ==
  /\ pc = "insert"
  /\ todo = {}
  /\ pc' = after
  /\ UNCHANGED <<collectorVars, collecting, shutdown, chan, pending, todo,
                 after, sledVars, mysqlVars, lost, down, faults>>

Accepts(group) ==
  /\ group \cap Rejected = {}
  /\ \A s \in group : TableOf[s] \notin down

AddRows(group) == [s \in Sample |-> IF s \in group THEN rows[s] + 1 ELSE rows[s]]

(* Faulty variant of InsertOk: a replay updates the history table only. *)
InsertOkHistoryOnly ==
  /\ pc = "insert"
  /\ todo # {}
  /\ Accepts(Group)
  /\ rows' = AddRows(Group)
  /\ pc' = IF Replaying THEN "ack" ELSE "upsert"
  /\ UNCHANGED <<collectorVars, collecting, shutdown, chan, pending, todo,
                 after, sledVars, shown, lost, down, faults>>

(* The multi-row INSERT of insert_history_sample_refs is one statement. *)
InsertOk ==
  /\ pc = "insert"
  /\ todo # {}
  /\ Accepts(Group)
  /\ rows' = AddRows(Group)
  /\ pc' = "upsert"
  /\ UNCHANGED <<collectorVars, collecting, shutdown, chan, pending, todo,
                 after, sledVars, shown, lost, down, faults>>

(* A failed group of a new batch goes to the buffer; a failed group of a   *)
(* replay is only logged and stays where it is.                            *)
OnInsertError ==
  IF Replaying
  THEN FinishGroup
  ELSE pc' = "push" /\ UNCHANGED <<todo, after>>

InsertErr ==
  /\ pc = "insert"
  /\ todo # {}
  /\ ~Accepts(Group)
  /\ OnInsertError
  /\ UNCHANGED <<collectorVars, collecting, shutdown, chan, pending, sledVars,
                 mysqlVars, lost, down, faults>>

(* The statement commits and the client sees an error all the same (the    *)
(* connection breaks before the reply).                                    *)
InsertAmbiguous ==
  /\ pc = "insert"
  /\ todo # {}
  /\ Accepts(Group)
  /\ Fault("ambiguous")
  /\ rows' = AddRows(Group)
  /\ OnInsertError
  /\ UNCHANGED <<collectorVars, collecting, shutdown, chan, pending, sledVars,
                 shown, lost, down>>

AfterUpsert ==
  IF Replaying
  THEN pc' = "ack" /\ UNCHANGED <<todo, after>>
  ELSE FinishGroup

UpsertOk ==
  /\ pc = "upsert"
  /\ shown' = shown \cup Group
  /\ AfterUpsert
  /\ UNCHANGED <<collectorVars, collecting, shutdown, chan, pending, sledVars,
                 rows, lost, down, faults>>

(* A failed upsert is logged and counted; the chunks before the failed one, *)
(* in the order of the group, have been applied.                           *)
UpsertedBefore(k) == {s \in Group : s < k}

UpsertErrAt(k) ==
  /\ pc = "upsert"
  /\ Fault("upsert")
  /\ shown' = shown \cup UpsertedBefore(k)
  /\ AfterUpsert
  /\ UNCHANGED <<collectorVars, collecting, shutdown, chan, pending, sledVars,
                 rows, lost, down>>

UpsertErr == \E k \in 1 .. NSamples + 1 : UpsertErrAt(k)
-----------------------------------------------------------------------------
(* The sled buffer. *)

(* Faulty variant of Before: the group is pushed back to front. *)
BeforeReversed(s, group) == Cardinality({t \in group : t > s})

(* How many members of group come before s in it. *)
Before(s, group) == Cardinality({t \in group : t < s})

(* Faulty variant of Push: no size limit. *)
PushUnlimited ==
  /\ pc = "push"
  /\ sled' = sled \cup Group
  /\ key' = [s \in Sample |->
               IF s \in Group THEN nextKey + Before(s, Group) ELSE key[s]]
  /\ nextKey' = nextKey + Cardinality(Group)
  /\ pc' = "pushFlush"
  /\ UNCHANGED <<collectorVars, collecting, shutdown, durable, chan, pending,
                 todo, after, lost, mysqlVars, down, faults>>

(* push_many: the size is looked at once, before the first insert. *)
Push ==
  /\ pc = "push"
  /\ IF Cardinality(sled) >= BufferCap
     THEN Die /\ UNCHANGED sledVars
     ELSE /\ sled' = sled \cup Group
          /\ key' = [s \in Sample |->
                       IF s \in Group THEN nextKey + Before(s, Group) ELSE key[s]]
          /\ nextKey' = nextKey + Cardinality(Group)
          /\ pc' = "pushFlush"
          /\ UNCHANGED <<durable, chan, pending, todo, after, lost>>
  /\ UNCHANGED <<collectorVars, collecting, shutdown, mysqlVars, down, faults>>

PushFlush ==
  /\ pc = "pushFlush"
  /\ durable' = sled
  /\ FinishGroup
  /\ UNCHANGED <<collectorVars, collecting, shutdown, chan, pending, sled, key,
                 nextKey, mysqlVars, lost, down, faults>>

DrainBatch ==
  /\ pc = "replay"
  /\ StartBatch(Oldest, "idle")
  /\ UNCHANGED <<collectorVars, collecting, shutdown, chan, pending, sledVars,
                 mysqlVars, lost, down, faults>>

(* Faulty variants of Ack: the whole replayed batch goes, not the group    *)
(* that was inserted; nothing goes.                                        *)
AckBatch ==
  /\ pc = "ack"
  /\ sled' = sled \ todo
  /\ pc' = "ackFlush"
  /\ UNCHANGED <<collectorVars, collecting, shutdown, chan, pending, todo,
                 after, durable, key, nextKey, mysqlVars, lost, down, faults>>

AckNothing ==
  /\ pc = "ack"
  /\ pc' = "ackFlush"
  /\ UNCHANGED <<collectorVars, collecting, shutdown, chan, pending, todo,
                 after, sledVars, mysqlVars, lost, down, faults>>

Ack ==
  /\ pc = "ack"
  /\ sled' = sled \ Group
  /\ pc' = "ackFlush"
  /\ UNCHANGED <<collectorVars, collecting, shutdown, chan, pending, todo,
                 after, durable, key, nextKey, mysqlVars, lost, down, faults>>

AckFlush ==
  /\ pc = "ackFlush"
  /\ durable' = sled
  /\ FinishGroup
  /\ UNCHANGED <<collectorVars, collecting, shutdown, chan, pending, sled, key,
                 nextKey, mysqlVars, lost, down, faults>>

(* A sled call returns an error (I/O, or an entry that no longer decodes)  *)
(* and `?` ends the worker.  A push_many or ack that fails half way is     *)
(* covered by failing at the flush after it and by Restart's choice.       *)
BufferError ==
  /\ pc \in {"replay", "push", "pushFlush", "ack", "ackFlush", "final"}
  /\ Fault("buffer")
  /\ Die
  /\ UNCHANGED <<collectorVars, collecting, shutdown, sledVars, mysqlVars, down>>
-----------------------------------------------------------------------------
(* Environment. *)

Outage ==
  /\ Fault("outage")
  /\ \E broken \in SUBSET Tables \ {{}} : down' = down \cup broken
  /\ UNCHANGED <<collectorVars, collecting, shutdown, chan, pending,
                 controlVars, sledVars, mysqlVars, lost>>

Recovery ==
  /\ down # {}
  /\ down' = {}
  /\ UNCHANGED <<collectorVars, collecting, shutdown, chan, pending,
                 controlVars, sledVars, mysqlVars, lost, faults>>

(* sled recovers a prefix of its log: the writes since the last flush, in  *)
(* key order, up to some key.                                              *)
Recovered(k) == {s \in sled \cup durable : IF key[s] < k THEN s \in sled
                                                         ELSE s \in durable}

(* The process ends, anywhere, and starts again: a crash, a kill after the *)
(* 30 s shutdown timeout, or a start after a clean stop.                   *)
Restart ==
  /\ Fault("restart")
  /\ \E k \in 0 .. nextKey :
       /\ sled' = Recovered(k)
       /\ durable' = Recovered(k)
       /\ Forget(Recovered(k))
  /\ pc' = "replay"
  /\ after' = "idle"
  /\ collecting' = TRUE
  /\ shutdown' = FALSE
  /\ drained' = 0
  /\ UNCHANGED <<offered, dropped, key, nextKey, mysqlVars, down>>
-----------------------------------------------------------------------------
WorkerNext ==
  \/ Recv \/ Tick \/ LeaveLoop \/ Drain \/ FinalFlush \/ Stop
  \/ BatchDone \/ InsertOk \/ InsertErr \/ UpsertOk
  \/ Push \/ PushFlush \/ DrainBatch \/ Ack \/ AckFlush

FaultNext ==
  InsertAmbiguous \/ UpsertErr \/ BufferError \/ Outage \/ Restart

Next == Offer \/ CollectorsEnd \/ Signal \/ Recovery \/ WorkerNext \/ FaultNext

Spec == Init /\ [][Next]_vars

(* The worker's task is scheduled as long as the process lives and every   *)
(* outage ends.  select! polls its branches in random order, so none of    *)
(* them is passed over for ever while it is ready; the interval is ready   *)
(* again and again.  Nothing is assumed of collectors, signals or faults.  *)
FairSpec ==
  /\ Spec
  /\ WF_vars(WorkerNext)
  /\ SF_vars(Recv) /\ SF_vars(Tick) /\ SF_vars(LeaveLoop)
  /\ WF_vars(Recovery)
-----------------------------------------------------------------------------
TypeOK ==
  /\ offered \in 0 .. NSamples
  /\ dropped \subseteq Sample
  /\ drained \in 0 .. NSamples
  /\ collecting \in BOOLEAN
  /\ shutdown \in BOOLEAN
  /\ chan \subseteq Sample
  /\ pending \subseteq Sample
  /\ pc \in {"replay", "idle", "insert", "upsert", "push", "pushFlush", "ack",
             "ackFlush", "drain", "final", "stopped", "dead"}
  /\ todo \subseteq Sample
  /\ after \in {"replay", "idle", "drain", "final"}
  /\ sled \subseteq Sample
  /\ durable \subseteq Sample
  /\ key \in [Sample -> Nat]
  /\ nextKey \in Nat
  /\ rows \in [Sample -> Nat]
  /\ shown \subseteq Sample
  /\ lost \subseteq Sample
  /\ down \subseteq Tables
  /\ faults \in [FaultKind -> Nat]

(* No sample vanishes inside the pipeline: every sample try_send accepted  *)
(* is in the channel, in the batch builder, in the batch being written, in *)
(* the buffer or in a history table, or it went with the memory of a       *)
(* worker that ended (src/sink.rs run, flush_new_samples, replay_buffered).*)
Accounted ==
  Accepted \subseteq chan \cup pending \cup todo \cup sled \cup Stored \cup lost

(* Whatever a completed sled flush holds leaves the buffer only once MySQL *)
(* has its row, across crashes, sled errors and restarts (the ack follows  *)
(* the insert in replay_buffered).                                         *)
DurableUntilStored ==
  [][\A s \in durable : s \in durable' \/ rows'[s] > 0]_vars

(* A sample has one history row, plus at most one for every time the       *)
(* process ended and for every insert whose outcome the client misread:    *)
(* retries alone never duplicate (the hot tables have no unique key).      *)
DuplicatesNeedFaults ==
  \A s \in Sample : rows[s] <= 1 + faults["restart"] + faults["ambiguous"]

(* Every stored sample the worker is done with has been offered to its     *)
(* realtime row, also those that went through the buffer, but for what an  *)
(* upsert that failed (it is not retried) or an end of the worker between  *)
(* insert and upsert leaves out: a batch for each (insert_sample_refs).    *)
RealtimeFollowsHistory ==
  Cardinality(Stored \ (sled \cup todo \cup shown))
    <= BatchSize * (faults["upsert"] + faults["restart"] + IF pc = "dead" THEN 1 ELSE 0)

(* The buffer hands back the samples of a table in the order they arrived,  *)
(* across failed replays and restarts (generate_id keys, big endian, and   *)
(* the key order of drain_batch).                                          *)
ReplayKeepsOrder ==
  \A s, t \in sled : TableOf[s] = TableOf[t] /\ s < t => key[s] < key[t]

(* push_many looks at the size before a group and not at every insert, so  *)
(* the buffer overshoots max_size by less than one batch (buffer.rs        *)
(* ensure_size_available).                                                 *)
BufferBounded == Cardinality(sled) < BufferCap + BatchSize

(* Replay always takes the same entries, and MySQL refuses every group of  *)
(* them for good: what is behind them, or grouped with one of them, stays. *)
Starved(s) ==
  /\ s \in sled /\ Oldest # {}
  /\ \A t \in Oldest : \E u \in Oldest \cap Rejected : TableOf[u] = TableOf[t]

(* Every accepted sample that MySQL does not refuse reaches a history      *)
(* table once outages end (README.md:3, README.md:246), and misses it only *)
(* when the worker ends first, of a full buffer or a sled error too, or    *)
(* when it waits in the buffer with or behind samples refused for good     *)
(* (flush_new_samples, replay_buffered).                                   *)
EventuallyStored ==
  \A s \in Sample \ Rejected :
    s \in Accepted ~> (rows[s] > 0 \/ s \in lost \/ ~Open \/ Starved(s))

(* What a completed flush holds is replayed into MySQL once outages end    *)
(* (README.md:3, README.md:246), as long as nobody stops the process, no   *)
(* full buffer or sled error ends the worker, and no samples refused for   *)
(* good stand before it (replay_buffered): later batches that succeed or   *)
(* fail do not keep it waiting.                                            *)
BufferedEventuallyReplayed ==
  \A s \in Sample \ Rejected :
    s \in durable ~> (rows[s] > 0 \/ shutdown \/ ~collecting \/ pc = "dead" \/ Starved(s))

(* A worker that is told to stop does stop, whatever MySQL does and however *)
(* full the channel is (run's drain loop and final flush).                 *)
ShutdownCompletes == shutdown ~> ~Open

(* A worker that stops in good order loses only samples that were offered   *)
(* after its drain loop saw the channel empty, none that was in the channel *)
(* or in a batch before (run's drain loop and final flush).                *)
StopLosesOnlyLateArrivals ==
  [][pc' = "stopped" /\ pc # "stopped" => \A s \in lost' \ lost : s > drained]_vars

(* The status SinkDelivery gives a sample.  What sled has not flushed yet  *)
(* still counts as memory.                                                 *)
StatusOf(s) ==
  CASE rows[s] > 0                       -> "stored"
    [] rows[s] = 0 /\ s \in lost         -> "lost"
    [] rows[s] = 0 /\ s \in durable      -> "buffered"
    [] rows[s] = 0 /\ s \in dropped      -> "refused"
    [] rows[s] = 0 /\ s > offered        -> "offered"
    [] OTHER                             -> "memory"

Delivery == INSTANCE SinkDelivery
              WITH status <- [s \in Sample |-> StatusOf(s)]

(* The worker implements the promise: nothing on disk is ever lost, nothing *)
(* refused or lost is revived, nothing stored is withdrawn (README.md:3).   *)
ImplementsDelivery == Delivery!Spec
-----------------------------------------------------------------------------
(* The inductive invariant behind the safety properties above. *)

(* Between batches the worker holds no batch; within one, each step has    *)
(* done to the current group what the steps after it rely on.              *)
BatchInv ==
  /\ pc \in {"idle", "replay", "drain", "final", "stopped", "dead"} => todo = {}
  /\ pc \in {"push", "pushFlush"} => ~Replaying
  /\ pc \in {"ack", "ackFlush"} => Replaying
  /\ pc \in {"upsert", "ack", "ackFlush"} => Group \subseteq Stored
  /\ pc = "pushFlush" => Group \subseteq sled
  /\ pc = "ackFlush" => Group \cap sled = {}

(* A batch that is replayed is still buffered, a new one is not buffered.  *)
BufferInv ==
  /\ Replaying /\ pc \in {"insert", "upsert", "ack"} => todo \subseteq sled
  /\ pc = "ackFlush" => todo \ Group \subseteq sled
  /\ ~Replaying /\ pc \in {"insert", "upsert", "push"} => todo \cap sled = {}
  /\ pc = "pushFlush" => (todo \ Group) \cap sled = {}
  /\ durable \subseteq sled \cup Stored

(* A sample is in one place: the future, the channel, the batch builder,   *)
(* the batch or the buffer, or among those lost or dropped.                *)
Held == chan \cup pending \cup todo \cup sled
PlaceInv ==
  /\ \A s \in Sample : s > offered => rows[s] = 0 /\ s \notin Held \cup lost \cup dropped
  /\ chan \cap pending = {}
  /\ (chan \cup pending) \cap (todo \cup sled) = {}
  /\ (lost \cup dropped) \cap Held = {}
  /\ \A s \in lost \cup dropped : rows[s] = 0
  /\ lost \cap dropped = {}

(* A sample the worker may still write has fewer rows than it may have.    *)
Written == IF pc \in {"upsert", "ack", "ackFlush"} THEN Group ELSE {}
RowsInv ==
  /\ DuplicatesNeedFaults
  /\ pc # "dead" => \A s \in Held \ Written :
                      rows[s] <= faults["restart"] + faults["ambiguous"]

(* The final batch is taken when the drain is over and leaves nothing      *)
(* behind but what is offered later.                                       *)
StopInv ==
  /\ pc = "final" => after = "final"
  /\ after = "final" => /\ pending = {}
                        /\ pc \notin {"idle", "drain", "replay"}
                        /\ \A s \in chan : s > drained
  /\ drained <= offered

SinkInv ==
  /\ TypeOK /\ Accounted
  /\ BatchInv /\ BufferInv /\ PlaceInv /\ RowsInv /\ StopInv
=============================================================================
