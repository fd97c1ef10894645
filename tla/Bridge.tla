------------------------------- MODULE Bridge -------------------------------
(***************************************************************************)
(* The process (src/main.rs): main loads the configuration, starts what    *)
(* the collectors and the sink worker need, spawns them, waits for the     *)
(* signal and then for their ends, no longer than 30 seconds. It notices   *)
(* no end before the signal.                                               *)
(*                                                                         *)
(* Collectors are those of module Collectors, as configured; of the sink   *)
(* worker (module SinkWorker) only its end matters here. Where a value of  *)
(* the configuration makes a part fail that uses it, its field is noted in *)
(* misconfigured: the use sites, not validate, say what is unusable.       *)
(***************************************************************************)
EXTENDS Collectors, Configuration

CONSTANTS
  Configs,          (* what the configuration file may hold                  *)
  MysqlUrls,        (* texts that sqlx takes for the URL of a database       *)
  BufferPaths,      (* paths where sled opens a database                     *)
  OpcUaEndpoints,   (* texts to which the OPC UA library builds a session    *)
  DescriptionMaps,  (* files that can be read and parsed as a description map*)
  HttpUrls,         (* base_url and path of which reqwest makes a URL        *)
  HttpHeaders,      (* headers that reqwest accepts                          *)
  MaxCapacity       (* the largest capacity a Vec can be made with           *)

ASSUME BridgeAssumption ==
  /\ Configs \subseteq AppConfig
  /\ \A c \in Configs : Cardinality(c.opcua) <= 1 /\ Cardinality(c.wcs) <= 1

VARIABLES
  config,        (* the configuration                                        *)
  main,          (* where main is                                            *)
  sink,          (* the sink worker's task                                   *)
  misconfigured  (* the fields whose value has made a part fail              *)

processVars == <<config, main, sink, misconfigured>>
bridgeVars  == <<vars, processVars>>

Unless(usable, field) == IF usable THEN {} ELSE {field}
Notes(fields)         == misconfigured' = misconfigured \cup fields

RetryLimit(c) ==
  IF c.opcua = {} THEN OpcuaDefaults.session_retry_limit
  ELSE (CHOOSE o \in c.opcua : TRUE).session_retry_limit

BridgeInit ==
  /\ Init
  /\ config \in Configs
  /\ limit = RetryLimit(config)
  /\ main = "load" /\ sink = "none"
  /\ misconfigured = {}
-----------------------------------------------------------------------------
(* Start-up. *)

LoadConfig ==
  /\ main = "load"
  /\ IF Loads(config)
     THEN main' = "metrics" /\ config' = Loaded(config)
     ELSE main' = "failed" /\ UNCHANGED config
  /\ UNCHANGED <<vars, sink, misconfigured>>

(* A step that fields of the configuration or something outside may make   *)
(* fail.                                                                   *)
StartUp(at, next, unusable) ==
  /\ main = at
  /\ main' \in {"failed"} \cup (IF unusable = {} THEN {next} ELSE {})
  /\ Notes(unusable)
  /\ UNCHANGED <<vars, config, sink>>

InstallMetrics ==
  StartUp("metrics", "mysql", Unless(config.metrics.bind \in SocketAddresses, "metrics.bind"))

(* A pool of no connections never hands one out.                           *)
ConnectMysql ==
  StartUp("mysql", "metadata",
    Unless(config.mysql.url \in MysqlUrls, "mysql.url") \cup
    Unless(config.mysql.max_connections > 0, "mysql.max_connections"))

OpenBuffer ==
  StartUp("buffer", "spawn", Unless(config.buffer.path \in BufferPaths, "buffer.path"))

(* The tag metadata are loaded; without them main goes on all the same.    *)
LoadMetadata ==
  /\ main = "metadata"
  /\ main' = "buffer"
  /\ UNCHANGED <<vars, config, sink, misconfigured>>

RouterBuilds == {config.sink.table} \cup {r.table : r \in config.sink.tag_prefix_routes}
                  \subseteq Identifiers

(* The worker panics with an interval of 0 or batches for which it cannot  *)
(* reserve the memory, and replays nothing with batches of 0.              *)
SinkPanics == config.sink.flush_interval_ms = 0 \/ config.sink.batch_size > MaxCapacity

(* The router is built and the tasks are spawned.                          *)
Spawn ==
  /\ main = "spawn"
  /\ IF RouterBuilds
     THEN /\ main' = "serve"
          /\ sink' = IF SinkPanics THEN "panicked" ELSE "run"
     ELSE main' = "failed" /\ UNCHANGED sink
  /\ Notes(Unless(RouterBuilds, "sink.table") \cup
           Unless(config.sink.flush_interval_ms > 0, "sink.flush_interval_ms") \cup
           Unless(config.sink.batch_size > 0, "sink.batch_size") \cup
           Unless(config.sink.batch_size <= MaxCapacity, "sink.batch_size.max"))
  /\ UNCHANGED <<vars, config>>

StartUpStep ==
  \/ LoadConfig \/ InstallMetrics \/ ConnectMysql \/ LoadMetadata \/ OpenBuffer \/ Spawn
-----------------------------------------------------------------------------
(* The tasks run until main returns. *)
Running == main \in {"serve", "join"}

OpcEnded == config.opcua = {} \/ opc \in {"ok", "err", "panicked"}
WcsEnded == config.wcs = {} \/ wcs = "ended"

NodeIdsParse ==
  \A s \in ToSet(config.subscriptions) : \A t \in s.tags : t.node_id \in NodeIds

(* What the collector's next step cannot use: the endpoint to connect to,  *)
(* the map to read once connected, the batches to build before the items   *)
(* of a subscription are created.                                          *)
OpcuaUnusable(o) ==
  CASE opc = "connect" -> Unless(o.endpoint \in OpcUaEndpoints, "opcua.endpoint")
    [] opc = "wait"    -> Unless(o.description_map_path \subseteq DescriptionMaps,
                                 "opcua.description_map_path")
    [] opc = "items"   -> Unless(NodeIdsParse, "node_id") \cup
                          Unless(o.monitored_item_create_batch_size_count <= MaxCapacity,
                                 "opcua.batch_size.max")
    [] OTHER -> {}

RunOpcua ==
  \E o \in config.opcua :
    /\ Running
    /\ ~ (opc = "wait" /\ Current.state # "connected")
    /\ IF OpcuaUnusable(o) = {} THEN OpcStep
       ELSE IF "opcua.batch_size.max" \in OpcuaUnusable(o) THEN SetupPanics
       ELSE Failed /\ UNCHANGED <<limit, shutdown, sub, batch, loops, wcsVars, failures>>
    /\ Notes(OpcuaUnusable(o))
    /\ UNCHANGED <<config, main, sink>>

RunWaitEnds ==
  \E o \in config.opcua :
    /\ Running
    /\ WaitEnds
    /\ OpcuaUnusable(o) # {} => opc' # "subscribe"
    /\ Notes(OpcuaUnusable(o))
    /\ UNCHANGED <<config, main, sink>>

RunEventLoops == Running /\ LoopStep /\ UNCHANGED processVars

(* What the poller cannot use: its requests time out at once with a        *)
(* timeout of 0 and fail without a URL or with a header that is none.      *)
WcsUnusable(w) ==
  CASE wcs = "build" -> Unless(w.poll_interval_ms > 0, "wcs.poll_interval_ms")
    [] wcs = "poll"  -> Unless(w.timeout_ms > 0, "wcs.timeout_ms") \cup
                        Unless({<<w.base_url, e.path>> : e \in w.endpoints} \subseteq HttpUrls,
                               "wcs.base_url") \cup
                        Unless(w.headers \subseteq HttpHeaders, "wcs.headers")
    [] OTHER -> {}

(* The poller's task panics with an interval of 0; a request that fails is *)
(* an answer like others.                                                  *)
RunWcs ==
  \E w \in config.wcs :
    /\ Running
    /\ IF wcs = "build" /\ WcsUnusable(w) # {}
       THEN /\ wcs' = "ended"
            /\ UNCHANGED <<limit, shutdown, opcVars, asked, ticks, failures>>
       ELSE WcsStep
    /\ Notes(WcsUnusable(w))
    /\ UNCHANGED <<config, main, sink>>

RunInterval  == Running /\ TickDue /\ UNCHANGED processVars
RunRound     == Running /\ StartRound /\ UNCHANGED processVars
RunWcsStop   == Running /\ WcsShutdown /\ UNCHANGED processVars

(* Faulty variant of ChannelClosed: callbacks hold no sender.              *)
TasksEnded == OpcEnded /\ WcsEnded

(* Every sender is gone: those of the tasks and those of the callbacks     *)
(* that an event loop of a session with subscriptions still holds.         *)
ChannelClosed ==
  /\ OpcEnded /\ WcsEnded
  /\ \A i \in DOMAIN loops : Live(loops[i]) => loops[i].subs = 0

(* run of the sink worker returns after the signal, or when the channel is *)
(* closed; an error of its buffer ends it at any time, and with a limit of *)
(* 0 the first batch that fails does.                                      *)
SinkStops ==
  /\ Running /\ sink = "run"
  /\ shutdown \/ ChannelClosed
  /\ sink' = "stopped"
  /\ UNCHANGED <<vars, config, main, misconfigured>>

SinkFails ==
  /\ Running /\ sink = "run"
  /\ sink' = "error"
  /\ Notes(Unless(config.buffer.max_size_mb > 0, "buffer.max_size_mb"))
  /\ UNCHANGED <<vars, config, main>>

TaskStep ==
  \/ RunOpcua \/ RunWaitEnds \/ RunEventLoops
  \/ RunWcs \/ RunInterval \/ RunRound \/ RunWcsStop
  \/ SinkStops \/ SinkFails
-----------------------------------------------------------------------------
(* shutdown_signal returns, or its handler cannot be installed.            *)
SignalArrives ==
  /\ main = "serve"
  /\ Signal
  /\ main' = "join"
  /\ UNCHANGED <<config, sink, misconfigured>>

SignalError ==
  /\ main = "serve"
  /\ main' = "failed"
  /\ UNCHANGED <<vars, config, sink, misconfigured>>

(* The collectors and the worker are joined, however they have ended.      *)
Join ==
  /\ main = "join"
  /\ OpcEnded /\ WcsEnded /\ sink # "run"
  /\ main' = "ended"
  /\ UNCHANGED <<vars, config, sink, misconfigured>>

(* Faulty variant of Timeout: only joining the worker is limited.          *)
TimeoutOfSink ==
  /\ main = "join"
  /\ OpcEnded /\ WcsEnded
  /\ main' = "timedOut"
  /\ UNCHANGED <<vars, config, sink, misconfigured>>

(* 30 seconds after the signal.                                            *)
Timeout ==
  /\ main = "join"
  /\ main' = "timedOut"
  /\ UNCHANGED <<vars, config, sink, misconfigured>>

BridgeNext ==
  \/ StartUpStep
  \/ TaskStep
  \/ SignalArrives \/ SignalError \/ Join \/ Timeout

BridgeSpec == BridgeInit /\ [][BridgeNext]_bridgeVars

(* The tasks are scheduled, every request ends with an answer, an error or *)
(* a timeout, and select! polls its branches in random order, so one that  *)
(* is ready again and again is taken. That the worker ends after the       *)
(* signal is ShutdownCompletes of SinkWorker. Nothing is assumed of the    *)
(* OPC UA server, the event loops, the interval, the signal or the clock.  *)
FairBridgeSpec ==
  /\ BridgeSpec
  /\ WF_bridgeVars(RunOpcua)
  /\ WF_bridgeVars(RunWcs) /\ WF_bridgeVars(RunRound) /\ SF_bridgeVars(RunWcsStop)
  /\ WF_bridgeVars(SinkStops /\ shutdown) /\ WF_bridgeVars(Join)
-----------------------------------------------------------------------------
(* The values that validate passes on: texts of which it only asks that    *)
(* they are not blank, and sizes without an upper limit.                   *)
OpaqueToValidate ==
  {"mysql.url", "buffer.path", "opcua.endpoint", "opcua.description_map_path",
   "wcs.base_url", "wcs.headers", "sink.batch_size.max", "opcua.batch_size.max"}

(* Everything else that validate accepts is usable where it is used: no    *)
(* panic of a task, failed start-up, set-up or request comes from another  *)
(* value of the configuration (src/config.rs against src/main.rs,          *)
(* src/sink.rs and the collectors), whichever collector is configured and  *)
(* whichever file the subscriptions come from.                             *)
OnlyOpaqueValuesFail == misconfigured \subseteq OpaqueToValidate

(* When the worker has left its loop because the channel was closed, no    *)
(* collector, reconnected session or abandoned event loop offers a sample  *)
(* any more, which nobody would receive (SinkWorker::run, the callbacks of *)
(* create_subscription).                                                   *)
NobodyOffersToAStoppedSink ==
  sink = "stopped" /\ ~ shutdown =>
    /\ opc \notin {"wait", "subscribe", "items", "run"} /\ wcs # "poll"
    /\ \A i \in DOMAIN loops : Live(loops[i]) => loops[i].subs = 0

(* Main returns once signalled, also with a server that never answers,     *)
(* provided its 30 seconds pass (main).                                    *)
SignalEndsTheProcess ==
  WF_bridgeVars(Timeout) => (shutdown ~> main \in {"ended", "timedOut"})

(* Without the limit main would still join all its tasks, the OPC UA       *)
(* collector in the middle of its retries as well and the poller with      *)
(* ticks that are always due, unless the collector waits for ever for a    *)
(* server that does not answer: wait_for_connection does not look at the   *)
(* signal.                                                                 *)
StopsUnlessUnreachable ==
  [](main # "timedOut") => (shutdown ~> main = "ended") \/ <>[](opc = "wait")
=============================================================================
