# Kepware Bridge: specifications and proofs

The bridge collects alarm tags from a Kepware OPC UA server and, optionally, values from WCS HTTP
endpoints, and stores them in MySQL; a sled database on disk takes what MySQL refuses for the
moment. Stored procedures in MySQL process alarms that WCS writes directly, archive the history
tables by month and aggregate daily statistics. This directory holds TLA+ models of that system,
TLC configurations that check them and proofs that TLAPS checks. Every definition is a translation
of the code; `PROJECT.json` ("map") names the lines.

## 1. Inventory

| Component | State | Operations | What makes it correct |
|---|---|---|---|
| Sink worker (`src/sink.rs`) | batch builder, position in `run`, current batch | receive, tick, flush a batch table by table, replay the buffer, shutdown drain | no sample vanishes; retries do not duplicate; realtime follows history; a shutdown ends |
| Sample buffer (`src/buffer.rs`) | sled tree keyed by `generate_id` | `push_many`, `drain_batch`, `ack`, `flush`, size limit | what a flush completed is kept until MySQL has it; replay keeps the order; the size is bounded |
| Process (`src/main.rs`) | channel of 10 000, watch value, tasks | start, spawn, signal, join within 30 s | a stop in good order loses only late arrivals; the signal ends the process; nobody offers samples to a worker that has left |
| Realtime rows (`src/sink.rs`, `device_realtime_status`) | one row per source table and node | seed, upsert | a row shows the newest sample whatever the order of arrival; fault_count counts no fault twice |
| OPC UA collector (`src/opcua_client.rs`) | session, subscriptions, retries | connect, subscribe in batches, data change callback, retry, shutdown | a running collector monitors every tag but those the server refused; only half-made sessions are left behind; it ends only for a reason |
| WCS poller (`src/wcs_client.rs`) | interval, connection gauge | poll every endpoint, offer the values | a slow endpoint does not stop shutdown |
| WCS alarm inbox (migrations 202605180003, 202605180004, 202605200001) | inbox rows and their status, history rows, realtime rows | synchronous write, minute event, claim, insert, mark | each event is processed once; nothing is stuck |
| Monthly archive and statistics (migrations 202605180001, 202605180003) | hot tables, archive tables, run rows, statistics | nightly and monthly events, archive one table, refresh one day | no row is deleted that was not copied |
| History query tool (`src/history.rs`) | none | choose the tables for a time range | exactly the tables of the range, once |
| Descriptions and alarm values (`src/types.rs`, `src/opcua_client.rs`) | a description per tag | read, choose, look up a value's code | a row's flag and remark are those of its description's table |
| Fields, metadata, routing (`src/types.rs`, `src/metadata.rs`, `src/sink.rs`) | metadata cache | parse names, look up, route, seed | the columns are the documented ones; seeds and samples of a tag meet in one row, which follows the configuration |
| Configuration (`src/config.rs`) | none | load, validate | whatever is accepted can be used by every part that uses it, but for the texts that are only checked not to be blank |
| Metrics (`src/metrics.rs`), bins, scripts | none | describe counters, browse, import | |

Interactions: collectors call `try_send` on the channel and never wait; the worker alone reads it and
alone uses sled; the worker, the inbox procedures and the archive procedures share the MySQL tables
without transactions of their own (every statement commits by itself); the watch value is how `main`
stops everybody. The hard behaviour is: a failed or half-failed batch, a crash between two
statements or before a flush, samples that reach MySQL late and out of order, the race of collectors
with the shutdown drain, two sessions processing one inbox row, rows that arrive in an archived
month while it is archived, samples of an earlier configuration that are replayed under the present
one, and tasks that end while `main` waits for the signal and notices nothing. `PROJECT.json` ("hazards") lists each at its line.

## 2. Modules

`SinkWorker` is the core: the channel, the batch builder, the worker's position in `run`, the sled
tree with its durable part, the history rows and the realtime upserts in MySQL, the shutdown
sequence and the process's ends and restarts. Samples are numbered in the order they are offered, so
a queue of samples is the set of those in it. One action is one MySQL statement or one sled call
together with all the worker does up to the next one:

| Action | Code |
|---|---|
| `Offer`, `CollectorsEnd`, `Signal` | `try_send` in the collectors; their ends; `main`'s `shutdown_tx.send` |
| `Recv`, `Tick`, `LeaveLoop`, `Drain`, `FinalFlush`, `Stop` | the select loop, the drain and the final flush of `run` |
| `InsertOk`, `InsertErr`, `InsertAmbiguous` | the multi-row INSERT of one table group; it may commit and be reported as failed |
| `UpsertOk`, `UpsertErr` | the realtime upsert after it |
| `Push`, `PushFlush` | `push_many` and `flush` of a failed group; a full buffer ends the worker |
| `DrainBatch`, `Ack`, `AckFlush` | `replay_buffered` and `ack_buffered` |
| `BufferError`, `Outage`, `Recovery`, `Restart` | sled errors, failing tables, crashes anywhere and restarts |

`SinkDelivery` is the abstract specification: the status of a sample (offered, refused, in memory,
buffered on disk, stored, lost) and the moves it may make. `SinkWorker` implements it
(`ImplementsDelivery`).

`RealtimeRow` holds the two realtime statements as operators on one row; `RealtimeStatus` composes
them with every step of `SinkWorker`, so samples reach the rows in all the orders the worker, its
buffer and its crashes produce. `CountsNow` is the condition of `fault_count` as MySQL parses it: the code
splices `accepts_newer`, an OR, without parentheses before an AND that binds tighter, so a row that the seed
made (`seeded`) counts its first sample also when it is normal.

`WcsInbox` models the three inbox procedures. Its sessions are WCS clients and runs of the minute event,
which may overlap; one action is one statement, for nothing opens a transaction and so each commits by
itself. `Submit` is `sp_write_wcs_alarm_event` up to the call of `sp_process_wcs_alarm_event`, `StartBatch`
and `Fetch` are `sp_process_wcs_alarm_inbox`, and `Claim`, `InsertHistory`, `UpsertRealtime`, `Mark` and
`Fail` the statements of `sp_process_wcs_alarm_event`. Every event has a `source_event_id`; without one
nothing is guarded against a second submission. The catalogs decide only whether an event can be mapped.

`AlarmArchive` models the two archive procedures and their events: `Refresh`, `ChooseTable` (the lookup of a
table's archive table), `Gather` (the read of the table chosen, a statement later), `Clear` and `Fill` are
`sp_refresh_daily_fault_stats`, `CallArchive` and the actions from `BeginRun` to `Fail` are
`sp_archive_alarm_month`, one statement each, in several sessions while rows arrive. Rows written by
the sink carry the time of their insertion; rows from WCS carry the time of the fault, and may be
`Late`: inserted when their month is over.

`HistoryQuery` is the loop of `select_history_tables`, one iteration per step, with months and years as
the calendar has them. `ArchivedHistory` extends `AlarmArchive` with what a planned query reads from the
tables between any two statements of an archive, as state predicates over all queries: a query is one
SELECT, so it reads one state.

`Collectors` models the OPC UA collector (`Check` to `Sleep` are `run_opcua_client` and
`connect_and_subscribe`, one step per request) and the WCS poller (`WcsCheck` to `WcsShutdown` are
`run_wcs_client` and `poll_loop`, one step per request). The event loop of an OPC UA session is a task of
the library: it connects, reconnects, gives up or ends by itself (`Establish`, `Lose`, `GiveUp`, `Close`),
and goes on when a failed set-up drops its handle. An answer to `CreateItems` that succeeds may refuse some of
its items: the code takes its length and goes on, so the loop's record keeps `items` and `refused` apart. What the collectors report is `SinkWorker`'s `Offer`;
that both have ended is its `CollectorsEnd`.

`Configuration` is `src/config.rs` as records, defaults and predicates: `Loaded` appends the subscriptions
of the files to those of the configuration, `Valid` is `validate` with one operator per `validate` method of
the code, `Loads` is `load`. `Bridge` composes it with `Collectors` into the process: `main` loads, installs
the exporter, connects, opens the buffer and spawns (`StartUpStep`), the tasks run (`TaskStep` wraps the
steps of `Collectors`), the signal comes, and the ends are joined or given up after 30 seconds (`Join`,
`Timeout`). Of the sink worker only its end is kept, for `SinkWorker` has the rest. Every place that uses a
value of the configuration says itself what it cannot use, and notes the field in `misconfigured`; the
predicates of `Configuration` are not consulted there, or `OnlyOpaqueValuesFail` would say nothing.
What only a use can tell is a constant: the urls that parse (`MysqlUrls`, `HttpUrls`), the endpoints and headers
the libraries take (`OpcUaEndpoints`, `HttpHeaders`), the files that can be opened or read (`BufferPaths`,
`DescriptionMaps`) and the capacity at which a vector panics (`MaxCapacity`). `OpaqueToValidate` lists the fields
concerned: validate asks of them only that they are not blank, or not even that, and of sizes only that they are
not 0.
`BridgeProofs` shows that `Bridge` implements `Collectors`.

`TagNames` holds the parsing of a tag's name: its prefix, its segments and the columns of an alarm
(`ParsedFields` is `parse_alarm_log_fields`). `TagDescriptions` extends it and follows one tag: the two reads of its description (`ReadKepware`, `ReadAttribute`), each
of which may fail, the choice among the sources (`BuildDescription`), and for a data change the scan of the
description for the value's code, one round of `description_label_for_code` per step (`Scan`), up to the
flag and the remark of its row (`Report`); a WCS tag has no source but the configured text and refuses
values of another type than the configured one (`Extracts`).

`TagRows` composes that with what becomes of the samples: the configuration routes the tag (`Table`), the
metadata cache knows its fault type (`FaultType`), a start seeds its row (`Seeding`) and a sample updates it
(`Deliver`), and a restart may bring another alias, area, device, route or catalog for the same node
(`RestartAs`). Samples carry what the configuration of their time said and are routed and given their fault
type when they are written. In place of the worker and its buffer, any sample ever sent may be delivered at
any time, again and again, which is more than `SinkWorker` allows.

Definitions marked "Faulty variant" are plausible bugs of the code. No specification uses them; each
property is known to fail when the definition they vary is replaced by them.

## 3. Runs

| Run | Question |
|---|---|
| `sink_safety` | Do the safety properties of the worker and the refinement hold with one fault of every kind: an outage, a misread insert, a failed upsert, a sled error, a crash? |
| `sink_liveness` | Do samples reach MySQL once outages end, unless the worker ends or samples refused for good stand before them, and does a shutdown complete? |
| `realtime_safety` | Does a realtime row show the newest sample, count no fault twice, and count exactly when samples come in order, in both cases but for a normal first sample on a seeded row (`CountOfFaults`), under replays, duplicates, partial upserts and restarts? |
| `realtime_count` | Does `fault_count` count every fault? Not one that went through the buffer |
| `wcs_safety` | Do overlapping sessions, retries, failing statements and a lost session keep one owner per event, the bound on its history rows, and a truthful status and realtime row? |
| `wcs_liveness` | Does every event end up processed or out of attempts, when statements fail but no session is lost? |
| `wcs_stuck` | Does every event reach the history? Not when its session is lost after the claim |
| `archive_safety` | Do archive and statistics lose nothing that came in time, do history queries and refreshes find it, keep their records truthful and finish, with late rows, a second caller and a fault of any kind? |
| `archive_late` | Is a row copied before it is deleted? Not a late one that comes after the count |
| `history_tables` | Is the plan of a history query exact: a table for every month of its range, no other, in order and none twice (`PlanIsExact`), for every range of two years? |
| `tag_rows` | Do a row's flag and remark say what its description's table says of the value, is the description that of the first source when reads fail, are the columns the documented ones, and do they follow the configuration across a restart? |
| `bridge` | From loading a configuration to the end of the process: does an accepted configuration fail only through texts that validate cannot judge, does a running collector monitor every tag that the server has not refused, are only half-made sessions left behind and polling rounds whole, does a collector end only for a reason, does nobody offer samples to a worker that has left, and does the signal end everything? |

Bounds. `sink_safety` has four samples, two tables, batches of two, a channel of two and a buffer of
two: a batch may be full or cut short by a tick or the shutdown, may go to one table or to two of
which one fails, the channel overflows, and the buffer overflows while a group is pushed. Two samples
are then still in the channel when the worker ends. One fault of each kind suffices for every pair of
different faults; a second crash adds the same step from a state the first one reaches anyway.
`sink_liveness` has five samples, of which MySQL refuses the second and the fourth for good, in batches of two
and a buffer that holds three before it overflows, with one fault of every kind but the crash: so samples wait in
the buffer behind refused ones (`Starved`), grouped with them and before them, and the worker may end of a full
buffer or a sled error.
`realtime_safety` has three samples of one tag (fault, no fault, fault), so that each order of arrival
that matters occurs, and one of a second tag in another table. The inbox runs have two sessions and
three events: a fault and its end at one point, so that the order of the two matters, and an event
nothing maps, so that an event fails until its attempts (two instead of five) are used up. Two sessions
are enough for every race of two attempts at one event. The archive runs have two sessions (the event and an operator), two
tables, three rows of one month, one of them late, and one of the next month, batches of one row, so
that a DELETE loop has rounds, and one fault of any kind. In `bridge` two sessions of two subscriptions with two batches
each let a set-up fail at every step beside a second one that succeeds; two failures let it fail and lose
its connection as well; the retry limits are one of every kind (for ever, never, once). Each batch has two
items, so that an answer may refuse none, some or all of them. Its 41 configurations are OPC UA, WCS and both
in their valid forms, each with one value that validate has to refuse, in the file itself or in a subscription
file, and each with one that validate lets through and only its use can refuse; `U32Max` is 1000, for no count in them comes near 2^32. `history_tables` has
all ranges within two years, so that December is followed by January, and two instants a month, so that a
range may begin and end at midnight of a first day or later. `tag_rows` has every description of a name of up
to three characters (digits, a space, a comma, a word) and one or two of three codes, one of which begins
and one of which ends like another, with either label and with or without a last mark, and two with empty entries and with numbers in the name and labels; every name of up to five segments out of six (an area, Iscs,
Alarm, a device, a device with hyphens, and up to four segments also a blank one) and names with two levels
before Alarm; and two starts, of which the second has
another alias, area, route or catalog: one change suffices for a sample to be older than the configuration,
and the proof has any number of them. Deadlock is not checked: a worker that
has stopped or ended stops the system until somebody restarts it.

Fairness (`FairSpec`). The worker's task is scheduled as long as the process lives (weak fairness of
`WorkerNext`); tokio's `select!` polls its branches in random order, so a branch that is ready again
and again is taken (strong fairness of `Recv`, `Tick`, `LeaveLoop`); an outage ends (weak fairness of
`Recovery`). In `WcsInbox`, MySQL executes
the statements of a session and the event scheduler starts the procedure again and again, its schedule
being every minute (weak fairness), likewise for the monthly event of `AlarmArchive`, unless the scheduler was off;
clients and operators need not call anything. In `Bridge` (`FairBridgeSpec`) the tasks are scheduled and a
request ends with an answer, an error or a timeout (weak fairness of `RunOpcua`, `RunWcs`, `RunRound`, `Join`), the
poller's `select!` takes the shutdown branch although ticks are always due (strong fairness of
`RunWcsStop`), and the worker ends after the signal, which is `ShutdownCompletes` of `SinkWorker`; the server,
the event loops, the interval and the operator need do nothing. That the 30 seconds pass is a premise of
`SignalEndsTheProcess` alone; `StopsUnlessUnreachable` says what happens without them. Nothing is assumed of collectors, signals, crashes or errors. The liveness runs have no
crashes, after which nothing happens until an operator starts the process again; after a sled error or a full
buffer the worker has ended, which the properties of `sink_liveness` name as a way out.

## 4. Proofs

`SinkWorkerProofs` proves, for any number of samples, tables, routing, capacities and faults, under
`SinkAssumption` only, that `SinkInv` is an invariant, and from it `Accounted`,
`DuplicatesNeedFaults`, `DurableUntilStored`, `StopLosesOnlyLateArrivals` and the refinement of `SinkDelivery`. None of these is inductive by
itself. `SinkInv` adds what each position in the code relies on: a replayed batch is still buffered
and a new one is not (`BufferInv`), the current group has its rows from the insert on (`BatchInv`), a
sample is in one place only (`PlaceInv`), what the worker may still write has a row less than it may
have (`RowsInv`), and the final batch leaves nothing behind (`StopInv`). Each part has a lemma with one step per action.

A second invariant on top of it is about the buffer and gives `BufferBounded`, `ReplayKeepsOrder` and
`RealtimeFollowsHistory`. The size is bounded only because a batch is (`SizeInv`, which also bounds the
durable tree, for a restart brings it back; that the oldest entries make a batch rests on their keys being
unique, `OldestIsABatch`); the order of keys is that of arrival only because whatever is
still before the buffer is younger than what is in it, table by table: the channel behind the batch builder,
the groups of a batch behind the buffer (`FifoInv`, `KeysInv`). What never reaches its realtime row is counted
by batches, one for every upsert that failed and every end of the worker (`MissedInv`): a group that has been
inserted and waits for its acknowledgement counts already, and what sled has not flushed counts as gone.

`AlarmArchiveProofs` proves, for any rows, tables, months, sessions, batch sizes and faults, under
`ArchiveAssumption` only, that `ArchiveInv` is an invariant, and from it `KeptUnlessLate`,
`CompletedMeansMoved`, `CountCatchesLateRows`, `StatsAgree` and `RefreshSeesEverything`. That no row is
lost is not inductive: a DELETE is harmless only because the copy before it is complete, which holds only
because its month is over, and that because of what the procedure checked when it was called. `ArchiveInv`
says so position by position: the tables a session has been through (`LoopInv`), the months that are
archived are over (`MonthInv`), what run rows of each status stand for (`RunInv`), what is copied from the
copy on (`CopyInv`), what the counts of a first run cover (`CountInv`), which statistics a refresh has
already written (`StatsInv`), and that an archive table it has chosen is there (`ChosenInv`). The proof has one lemma per action and part.

`HistoryQueryProofs` proves, for any consecutive years and any number of instants in a month, that the
plan covers its range, holds nothing else and no table twice (`PlanIsExact`, from `PlanInv`: what is in the
plan belongs there and the months the loop has passed are in it), also that `dedup` never changes it.
`AlarmArchiveProofs` also derives from `ArchiveInv` that queries which include the current month never miss
a row that came in time (`NothingMissed`) and that others find each row once when their past months are
archived (`FoundOnce`).

`CollectorsProofs` proves, for any subscriptions, batches, endpoints and number of retries, that a collector
which waits on its session monitors everything the server has not refused it (`MonitorsAllButRefused`), that only its current session can be
complete (`OneCompleteSession`), that a round of the poller asks every endpoint (`RoundsAreWhole`) and that
neither ends without the signal but for a retry limit of 0 or the good end of a complete session
(`EndsForAReason`).
`CollectorsInv` adds that the session being set up has exactly the items sent so far but those refused, at every
position of the two loops, and that a session which was left before its last batch can never be complete.

`BridgeProofs` proves, for any set of configurations and subscription files, that an accepted configuration
makes a part fail only through a field of `OpaqueToValidate` (`ValidateChecksTheRest`). The invariant says that `main` is past loading only with a
valid configuration; each place that uses a value then follows from the part of `Valid` that looks at it. So
the ways in which the process would leave `Collectors` (a panic of the poller, a node id that does not parse)
never happen; what an opaque value does (a set-up that fails for ever, requests that fail, a set-up that panics)
`Collectors` may do for other reasons too, so the process implements it (`BridgeImplementsCollectors`), whose invariants hold of
it (`CollectorsOfTheBridge`). `NobodyOffersToAStoppedSink` follows from what the worker saw when it left its
loop, a closed channel: both collectors had ended and no live event loop had an item, and neither comes back
(`ClosedInv`, with `SpawnInv`: collectors that are not configured never run).

`WcsInboxProofs` proves, for any events, points, any finite number of sessions, attempts and faults, under
`InboxAssumption` only, that `InboxInv` is an invariant, and from it `InboxTypeOK`, `OneOwner`,
`OnceUnlessStatementsFail`, `StatusMeansProgress` and `RealtimeBackedByHistory`. That the claim is exclusive
holds because whoever holds an event finds it in processing (`OwnerInv`). That history rows are few
is a count: the rows an event has, the sessions that are about to insert one, those whose handler may open
it again and the next claim together never exceed one, but for the statements that failed (`CountInv`); each
step moves a session from one of these to another. The sessions are counted, so their set has to be finite.

`TagRowsProofs` proves, for any tags and any changes between any number of starts, that a row which has had a
sample newer than the start has the columns of the present configuration (`RowsFollowTheConfiguration`).
`RowsInv` relates times and origins: no sample or row is newer than the clock (`TimesInv`); a sample newer
than the start was sent under the present configuration, and a row that is newer shows that one was delivered
(`OriginInv`); from then on the row is newer than anything older in the buffer, which the upsert therefore
refuses (`HeldInv`). It also proves that a tag is described by the first source that says anything and could
be read (`TheFirstSourceDescribes`; `DescriptionInv` says position by position what the server has answered so
far), and that names of the documented shapes give the documented columns, whatever their segments are and
whatever the configuration says (`ShapesGiveTheColumns`), from `RowFollowsConfiguration` and lemmas about
`parse_alarm_log_fields`. `TablesAreReported` says that `description_label_for_code` finds in every
description of the documented form (`IsTable`: a safe name, then codes, bars and labels in which no number
stands before a delimiter, empty entries among them) the label of the value's code, or none if there is none,
and that flag and remark follow. Its invariant `TableInv` says where a scan can stand (`ScansAt`): in the
name, where an entry begins and no earlier one lists the code, or in the label of an entry that lists another.
Every round leads from such a place to the label of the code, to another such place, or past the end when no
entry lists the code (`RoundsAreSound`), whatever digits the code has. The condition on the labels is needed:
a number before a delimiter in a label is taken for a code as one in the name is (section 6). The texts are
`TagAssumption` and the changes `ChangeAssumption`: a change keeps the node and its path, which are what
identifies a row.

`RealtimeStatusProofs` proves about one row that the upsert is idempotent, that seeding it first makes no
difference but that a normal first sample counts one more (`SeedCountsOneMore`), and that two samples of different
times leave the same state in either order; and about the rows in every
execution of the worker that they show the newest sample they were offered (`RowsShowTheNewest`), for any
samples, times, tables, batches and faults, whatever the order, repetition and grouping in which the buffer hands
them on. What a group does is a fold over its samples; the facts about it are proved sample by sample, by an
induction over a set of positions (`UpToBound`). `FaultsAreNotOvercounted` says that no replay makes
`fault_count` exceed the number of faults that began when the times of a tag's samples differ, in whatever order
they come; `FaultsAreCounted` (`CountOfFaults`) says that it is that number as long as nothing went through the
buffer when the samples of a tag are also offered in the order of their times (`TimesIncrease`, which is what a
server's subscription queue does). Neither hypothesis can be dropped: the upsert takes equal times, so a fault
and a normal value of one second count once more with every replay; and a fault that arrives after newer samples
is refused and not counted, which for the buffer `realtime_count` shows.

The inductive invariants `SinkInv`, `SizeInv`, `FifoInv`, `KeysInv`, `MissedInv`, `ArchiveInv`, `PlanInv`, `CollectorsInv`,
`InboxInv`, `RowsInv`, `DescriptionInv`, `TableInv`, `StatusInv` and `BridgeInv` are proved and no run checks them.

Only model-checked are the liveness properties (`EventuallyStored`, `BufferedEventuallyReplayed`,
`ShutdownCompletes`, `EventuallySettled`, `EventuallyArchived`, `SignalEndsTheProcess`, `StopsUnlessUnreachable`),
for which TLAPS would have to reason about fairness and ENABLED.

## 5. Not modelled

- Texts beyond what is told apart (names, SQL wording), logs and counters. The exporter
  (`src/metrics.rs`) keeps no state that the program reads; only that a bad address stops the start is modelled.
- The size of a sample in bytes: the buffer limit counts samples.
- Tags without a node id, for which MySQL's unique key does not apply; words that differ only in case.
- Node ids that are not written as the OPC UA library writes them: the callback looks its maps up by the
  library's text (`src/opcua_client.rs:174`), so `TagRows` takes node ids as already in that form.
- The walk of `extract_value` along a JSON path; the chunks of a seed, which fails as a whole in `TagRows`.
- `src/bin/browse_tags.rs` and the scripts: an operator runs them by hand, they write a file for a person to
  look at and share no state with the bridge. The discovery part of a configuration is checked by
  `validate` and used by them alone.
- The device totals of the statistics and the filters of a history query.

## 6. Where the code and its documents disagree

See "findings" in `PROJECT.json`; each has a run that shows it. Reading the code for the models showed
more that has no run:

- Rows that MySQL refuses for good stay at the head of the buffer, and as many of them as a batch holds
  keep everything behind them from being replayed (`src/sink.rs:682`; README.md:3 promises the replay
  for short outages only), which `sink_liveness` shows when `Starved` is dropped from its properties.
- A number before the colon of a description is taken for a code, so that `BC-1.0.0：0、正常` makes the
  normal value 0 an alarm (`src/types.rs:421`; README.md:75 says that 正常 gives `0`), which
  `tag_rows` shows when `SafeName` is dropped from `ReportsTheTable`.
- A row that the seed made counts its first sample also when it is normal: `accepts_newer`, an OR, is spliced
  without parentheses before the AND of `fault_count` (`src/sink.rs:94`, `src/sink.rs:111`), although
  migrations/202605200001_add_realtime_fault_count.sql:6 speaks of faults that occurred; `realtime_safety` shows it
  when `CountOfFaults` allows no such sample.
- An item that the server refuses in an answer that succeeds is left out silently: `opcua_client.rs` takes the
  answer's length for the items created (`src/opcua_client.rs:246`), and the collector runs on without the tag.
- A refresh looks for a month's archive table and reads in a later statement: when the month is archived in
  between, it reads the emptied hot table and the statistics of that day come out too small
  (`migrations/202605180001_create_alarm_monthly_archive_and_stats.sql:264`).
- `validate` lets through urls, endpoints, headers, paths and description maps that nothing can use and batch sizes
  for which no memory can be had (`src/config.rs:215`); the parts that use them fail at the start, for ever, or
  panic. (A batch size below the limit at which a vector panics may still exhaust the memory and abort the process,
  which `Bridge` does not model.)
- A query of `history.rs` that is executed when its current month has ended and been archived misses that month's
  rows (`src/history.rs:54`).
- A claim that fails marks the event as failed also when another session holds it
  (`migrations/202605200001_add_realtime_fault_count.sql:53`): a third may then claim it beside the second.
- One push past `max_size_mb` ends the worker, and main notices only at shutdown (`src/sink.rs:646`).
- `last_fault_at` has whole seconds and the sink's upsert accepts equal times, so of two samples of one
  second the one that is replayed later wins (`src/sink.rs:94`).
- The inbox's upsert does not compare times at all
  (`migrations/202605200001_add_realtime_fault_count.sql:251`).
- `dropped_samples_total` also counts samples offered to a worker that has ended
  (`src/opcua_client.rs:202`).
- A WCS event whose `fault_at` lies in a month already archived stays in the hot table for good,
  although README.md:252 says hot tables hold the current month
  (`migrations/202605180001_create_alarm_monthly_archive_and_stats.sql:474`).
- A statement of `sp_process_wcs_alarm_event` that fails after the history insert makes the retry insert
  the event again, although `source_event_id` is there to prevent it
  (`migrations/202605200001_add_realtime_fault_count.sql:217`; the column comment, 202605180003:171,
  says 有值时用于防重), and `OnceUnlessStatementsFail` bounds how often.
- `opcua_connected` stays 1 while the library reconnects (`src/opcua_client.rs:124`), and `wcs_connected`
  shows whichever endpoint was asked last (`src/wcs_client.rs:100`).
- `description`, and with it `remark`, is filled with the tag's name when nothing describes the tag
  (`src/types.rs:181`), although README.md:56 says 读取不到时留空 (left empty).
- `tag` keeps all segments after `Alarm` (`src/types.rs:312`), although README.md:53 says 最后点位名 (the last
  one); the two agree with one segment after it, the only shape `FieldsAsDocumented` looks at.
- A lone device with a hyphen before `Alarm` gets the part after its hyphen as `device_id`
  (`src/types.rs:347`), although README.md:52 says that it is the device's.
- The lookup of a fault type goes on to the tag name, which devices share, so a tag without a row of its
  own may take the fault type of another device's row (`src/metadata.rs:71`), although README.md:290 says that
  tags without a row have none.
- Until the first sample of a start, the seed shows the configured description or the tag's name, also where
  the last run had found one in Kepware (`src/sink.rs:82`).
- After a change of routes the rows under the old table stay for ever (`src/sink.rs:103`, the unique key has
  the table in it); nothing marks them as out of use.
- After a change of configuration a first value whose source timestamp is that of a buffered old sample may be
  overwritten by it (`src/sink.rs:94` takes equal times), which is why `RowFollowsConfiguration` speaks of
  newer ones only.
- With WCS alone `subscriptions` is not looked at by `validate` (`src/config.rs:220`) but still seeded
  (`src/main.rs:49`).
- The key of a route may have spaces around it, which `validate` lets through and no trimmed prefix ever
  matches (`src/config.rs:286`, `src/sink.rs:269`).
- `main` looks at no task before the signal (`src/main.rs:92`): a bridge whose worker or collectors have ended
  runs on without doing anything.

## 7. Plan

1. Core: `SinkWorker`, `SinkDelivery`, `SinkWorkerProofs` (done).
2. `RealtimeRow`, `RealtimeStatus` (done).
3. `WcsInbox`, `WcsInboxProofs` (done).
4. `AlarmArchive`, `AlarmArchiveProofs` (done).
5. `HistoryQuery`, `ArchivedHistory`, with proofs (done).
6. `Collectors`, `CollectorsProofs`; `Configuration` and `Bridge`, which composes them, with proofs (done).
7. `TagNames`, `TagDescriptions`, `TagRows`, `TagRowsProofs` (done).
8. `RealtimeStatusProofs` (done).
