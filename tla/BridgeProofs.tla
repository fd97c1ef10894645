---------------------------- MODULE BridgeProofs ----------------------------
(***************************************************************************)
(* Proofs about Bridge: whatever the file holds, a configuration that      *)
(* validate accepts breaks a part that uses it only through the values     *)
(* that are opaque to validate; the collectors of the process behave as    *)
(* those of module Collectors, whose theorems hold of it; and a worker     *)
(* that has left its loop leaves nobody behind.                            *)
(***************************************************************************)
EXTENDS Bridge, CollectorsProofs

(* Only a valid configuration gets past loading.                           *)
BridgeInv ==
  /\ main \notin {"load", "failed"} => Valid(config)
  /\ OnlyOpaqueValuesFail

LEMMA RouterIsBuilt ==
  ASSUME Valid(config)
  PROVE  /\ RouterBuilds
         /\ config.sink.flush_interval_ms > 0 /\ config.sink.batch_size > 0
<1>1. SinkValid(config.sink)
  BY DEF Valid
<1> QED BY <1>1 DEF SinkValid, RouteValid, RouterBuilds

LEMMA ItemsAreBuilt ==
  ASSUME Valid(config), config.opcua # {}
  PROVE  NodeIdsParse
<1>1. PICK o \in config.opcua : TRUE
  OBVIOUS
<1>2. \A s \in ToSet(config.subscriptions) : SubscriptionValid(s)
  BY <1>1 DEF Valid, OpcuaPartValid, SubscriptionsValid
<1> QED BY <1>2 DEF SubscriptionValid, TagValid, NodeIdsParse

LEMMA PollerIsUsable ==
  ASSUME Valid(config), NEW w \in config.wcs
  PROVE  w.poll_interval_ms > 0 /\ w.timeout_ms > 0
BY DEF Valid, WcsValid

(* Only opaque values are noted.                                           *)
LEMMA NotesOpaque ==
  ASSUME NEW fields, OnlyOpaqueValuesFail, Notes(fields), fields \subseteq OpaqueToValidate
  PROVE  OnlyOpaqueValuesFail'
BY DEF Notes, OnlyOpaqueValuesFail, OpaqueToValidate

LEMMA UnlessUsable == \A usable, field : usable => Unless(usable, field) = {}
BY DEF Unless

LEMMA UnlessOpaque ==
  \A usable : \A field \in OpaqueToValidate : Unless(usable, field) \subseteq OpaqueToValidate
BY DEF Unless

LEMMA OpaqueFields ==
  /\ "mysql.url" \in OpaqueToValidate /\ "buffer.path" \in OpaqueToValidate
  /\ "opcua.endpoint" \in OpaqueToValidate /\ "opcua.description_map_path" \in OpaqueToValidate
  /\ "wcs.base_url" \in OpaqueToValidate /\ "wcs.headers" \in OpaqueToValidate
  /\ "sink.batch_size.max" \in OpaqueToValidate /\ "opcua.batch_size.max" \in OpaqueToValidate
BY DEF OpaqueToValidate

LEMMA StartUpSteps ==
  ASSUME BridgeInv, StartUpStep
  PROVE  BridgeInv'
<1>1. CASE LoadConfig
  <2>1. OnlyOpaqueValuesFail'
    BY <1>1 DEF LoadConfig, BridgeInv, OnlyOpaqueValuesFail, OpaqueToValidate
  <2>2. main' # "failed" => Valid(config')
    BY <1>1 DEF LoadConfig, Loads
  <2> QED BY <2>1, <2>2 DEF BridgeInv
<1>2. ASSUME NEW at, NEW next, NEW fields, StartUp(at, next, fields), at \notin {"load", "failed"},
             Valid(config) => fields \subseteq OpaqueToValidate
      PROVE  BridgeInv'
  <2>1. Valid(config) /\ config' = config
    BY <1>2 DEF StartUp, BridgeInv
  <2>2. OnlyOpaqueValuesFail'
    BY <1>2, <2>1, NotesOpaque DEF StartUp, BridgeInv
  <2> QED BY <2>1, <2>2 DEF BridgeInv
<1>3. CASE InstallMetrics
  <2> DEFINE fields == Unless(config.metrics.bind \in SocketAddresses, "metrics.bind")
  <2>1. Valid(config) => fields = {}
    BY UnlessUsable DEF Valid
  <2>2. StartUp("metrics", "mysql", fields)
    BY <1>3 DEF InstallMetrics
  <2> HIDE DEF fields
  <2> QED BY <1>2, <2>1, <2>2
<1>4. CASE ConnectMysql
  <2> DEFINE fields == Unless(config.mysql.url \in MysqlUrls, "mysql.url") \cup
                       Unless(config.mysql.max_connections > 0, "mysql.max_connections")
  <2>1. ASSUME Valid(config) PROVE fields \subseteq OpaqueToValidate
    <3>1. Unless(config.mysql.max_connections > 0, "mysql.max_connections") = {}
      BY <2>1, UnlessUsable DEF Valid
    <3>2. Unless(config.mysql.url \in MysqlUrls, "mysql.url") \subseteq OpaqueToValidate
      BY UnlessOpaque, OpaqueFields
    <3> QED BY <3>1, <3>2
  <2>2. StartUp("mysql", "metadata", fields)
    BY <1>4 DEF ConnectMysql
  <2> HIDE DEF fields
  <2> QED BY <1>2, <2>1, <2>2
<1>5. CASE OpenBuffer
  <2> DEFINE fields == Unless(config.buffer.path \in BufferPaths, "buffer.path")
  <2>1. fields \subseteq OpaqueToValidate
    BY UnlessOpaque, OpaqueFields
  <2>2. StartUp("buffer", "spawn", fields)
    BY <1>5 DEF OpenBuffer
  <2> HIDE DEF fields
  <2> QED BY <1>2, <2>1, <2>2
<1>6. CASE LoadMetadata
  BY <1>6 DEF LoadMetadata, BridgeInv, OnlyOpaqueValuesFail, OpaqueToValidate
<1>7. CASE Spawn
  <2> DEFINE fields == Unless(RouterBuilds, "sink.table") \cup
                       Unless(config.sink.flush_interval_ms > 0, "sink.flush_interval_ms") \cup
                       Unless(config.sink.batch_size > 0, "sink.batch_size") \cup
                       Unless(config.sink.batch_size <= MaxCapacity, "sink.batch_size.max")
  <2>1. main = "spawn" /\ config' = config /\ Valid(config) /\ Notes(fields)
    BY <1>7 DEF Spawn, BridgeInv
  <2>2. fields \subseteq OpaqueToValidate
    <3>1. RouterBuilds /\ config.sink.flush_interval_ms > 0 /\ config.sink.batch_size > 0
      BY <2>1, RouterIsBuilt
    <3>2. /\ Unless(RouterBuilds, "sink.table") = {}
          /\ Unless(config.sink.flush_interval_ms > 0, "sink.flush_interval_ms") = {}
          /\ Unless(config.sink.batch_size > 0, "sink.batch_size") = {}
      BY <3>1, UnlessUsable
    <3>3. Unless(config.sink.batch_size <= MaxCapacity, "sink.batch_size.max")
            \subseteq OpaqueToValidate
      BY UnlessOpaque, OpaqueFields
    <3> QED BY <3>2, <3>3
  <2> HIDE DEF fields
  <2>3. OnlyOpaqueValuesFail'
    BY <2>1, <2>2, NotesOpaque DEF BridgeInv
  <2> QED BY <2>1, <2>3 DEF BridgeInv
<1> QED BY <1>1, <1>3, <1>4, <1>5, <1>6, <1>7 DEF StartUpStep

(* While tasks run the configuration is a valid one.                       *)
LEMMA RunningIsValid == BridgeInv /\ Running => Valid(config)
BY DEF BridgeInv, Running

(* Of the collector's configuration only opaque values are unusable.       *)
LEMMA OpcuaIsUsable ==
  ASSUME Valid(config), NEW o \in config.opcua
  PROVE  OpcuaUnusable(o) \subseteq OpaqueToValidate
<1>1. Unless(NodeIdsParse, "node_id") = {}
  BY ItemsAreBuilt, UnlessUsable
<1>2. /\ Unless(o.endpoint \in OpcUaEndpoints, "opcua.endpoint") \subseteq OpaqueToValidate
      /\ Unless(o.description_map_path \subseteq DescriptionMaps, "opcua.description_map_path")
           \subseteq OpaqueToValidate
      /\ Unless(o.monitored_item_create_batch_size_count <= MaxCapacity, "opcua.batch_size.max")
           \subseteq OpaqueToValidate
  BY UnlessOpaque, OpaqueFields
<1>3. OpcuaUnusable(o) \in
        {Unless(o.endpoint \in OpcUaEndpoints, "opcua.endpoint"),
         Unless(o.description_map_path \subseteq DescriptionMaps, "opcua.description_map_path"),
         Unless(o.monitored_item_create_batch_size_count <= MaxCapacity, "opcua.batch_size.max"), {}}
  BY <1>1 DEF OpcuaUnusable
<1> QED BY <1>2, <1>3

(* A step of the OPC UA collector is one of module Collectors: a value     *)
(* that it cannot use makes it fail as other errors would.                 *)
LEMMA OpcuaSteps ==
  ASSUME BridgeInv, RunOpcua
  PROVE  (OpcStep \/ SetupPanics) /\ BridgeInv'
<1>1. PICK o \in config.opcua :
        /\ Running
        /\ ~ (opc = "wait" /\ Current.state # "connected")
        /\ IF OpcuaUnusable(o) = {} THEN OpcStep
           ELSE IF "opcua.batch_size.max" \in OpcuaUnusable(o) THEN SetupPanics
           ELSE Failed /\ UNCHANGED <<limit, shutdown, sub, batch, loops, wcsVars, failures>>
        /\ Notes(OpcuaUnusable(o))
        /\ UNCHANGED <<config, main>>
  BY DEF RunOpcua
<1>2. Valid(config)
  BY <1>1, RunningIsValid
<1>3. OnlyOpaqueValuesFail'
  BY <1>1, <1>2, OpcuaIsUsable, NotesOpaque DEF BridgeInv
<1>4. BridgeInv'
  BY <1>1, <1>2, <1>3 DEF BridgeInv
<1>5. ASSUME OpcuaUnusable(o) # {}, "opcua.batch_size.max" \notin OpcuaUnusable(o)
      PROVE  Connect \/ DescriptionMapError
  <2>1. Failed /\ UNCHANGED <<limit, shutdown, sub, batch, loops, wcsVars, failures>>
    BY <1>1, <1>5
  <2>2. opc = "connect" \/ (opc = "wait" /\ Current.state = "connected")
    <3>1. opc # "items"
      <4>1. Unless(NodeIdsParse, "node_id") = {}
        BY <1>2, ItemsAreBuilt, UnlessUsable
      <4> QED BY <1>5, <4>1 DEF OpcuaUnusable, Unless
    <3>2. opc \in {"connect", "wait"}
      BY <1>5, <3>1 DEF OpcuaUnusable
    <3> QED BY <1>1, <3>2
  <2> QED BY <2>1, <2>2 DEF Connect, DescriptionMapError
<1>6. OpcStep \/ SetupPanics
  BY <1>1, <1>5 DEF OpcStep
<1> QED BY <1>4, <1>6

LEMMA WaitEndsSteps ==
  ASSUME BridgeInv, RunWaitEnds
  PROVE  WaitEnds /\ BridgeInv'
<1>1. PICK o \in config.opcua :
        Running /\ WaitEnds /\ Notes(OpcuaUnusable(o)) /\ UNCHANGED <<config, main>>
  BY DEF RunWaitEnds
<1>2. Valid(config)
  BY <1>1, RunningIsValid
<1>3. OnlyOpaqueValuesFail'
  BY <1>1, <1>2, OpcuaIsUsable, NotesOpaque DEF BridgeInv
<1> QED BY <1>1, <1>2, <1>3 DEF BridgeInv

LEMMA PollerSteps ==
  ASSUME BridgeInv, RunWcs
  PROVE  WcsStep /\ BridgeInv'
<1>1. PICK w \in config.wcs :
        /\ Running
        /\ (wcs = "build" /\ WcsUnusable(w) # {}) \/ WcsStep
        /\ Notes(WcsUnusable(w))
        /\ UNCHANGED <<config, main>>
  BY DEF RunWcs
<1>2. Valid(config)
  BY <1>1, RunningIsValid
<1>3. /\ Unless(w.poll_interval_ms > 0, "wcs.poll_interval_ms") = {}
      /\ Unless(w.timeout_ms > 0, "wcs.timeout_ms") = {}
  BY <1>2, PollerIsUsable, UnlessUsable
<1>4. WcsStep
  BY <1>1, <1>3 DEF WcsUnusable
<1>5. WcsUnusable(w) \subseteq OpaqueToValidate
  <2>1. /\ Unless({<<w.base_url, e.path>> : e \in w.endpoints} \subseteq HttpUrls, "wcs.base_url")
             \subseteq OpaqueToValidate
        /\ Unless(w.headers \subseteq HttpHeaders, "wcs.headers") \subseteq OpaqueToValidate
    BY UnlessOpaque, OpaqueFields
  <2> QED BY <1>3, <2>1 DEF WcsUnusable
<1>6. OnlyOpaqueValuesFail'
  BY <1>1, <1>5, NotesOpaque DEF BridgeInv
<1> QED BY <1>1, <1>2, <1>4, <1>6 DEF BridgeInv

(* Every step keeps the invariant and is a step of the collectors or       *)
(* leaves them alone.                                                      *)
LEMMA NextStep ==
  ASSUME BridgeInv, [BridgeNext]_bridgeVars
  PROVE  BridgeInv' /\ [Next]_vars
<1>1. CASE StartUpStep
  <2>1. UNCHANGED vars
    BY <1>1 DEF StartUpStep, LoadConfig, InstallMetrics, ConnectMysql, LoadMetadata, OpenBuffer, Spawn,
                StartUp
  <2> QED BY <1>1, <2>1, StartUpSteps
<1>2. CASE RunOpcua
  BY <1>2, OpcuaSteps DEF Next
<1>3. CASE RunWcs \/ RunWaitEnds
  BY <1>3, PollerSteps, WaitEndsSteps DEF Next
<1>4. CASE RunEventLoops \/ RunInterval \/ RunRound \/ RunWcsStop
  <2>1. LoopStep \/ TickDue \/ StartRound \/ WcsShutdown
    BY <1>4 DEF RunEventLoops, RunInterval, RunRound, RunWcsStop
  <2>2. UNCHANGED processVars
    BY <1>4 DEF RunEventLoops, RunInterval, RunRound, RunWcsStop
  <2> QED BY <2>1, <2>2 DEF Next, processVars, BridgeInv, OnlyOpaqueValuesFail, OpaqueToValidate
<1>5. CASE SinkFails
  <2>1. Valid(config) /\ UNCHANGED <<vars, config, main>>
    BY <1>5, RunningIsValid DEF SinkFails
  <2>2. Unless(config.buffer.max_size_mb > 0, "buffer.max_size_mb") = {}
    BY <2>1, UnlessUsable DEF Valid
  <2>3. OnlyOpaqueValuesFail'
    BY <1>5, <2>2, NotesOpaque DEF SinkFails, BridgeInv
  <2> QED BY <2>1, <2>3 DEF BridgeInv
<1>6. CASE SinkStops \/ SignalArrives \/ SignalError \/ Join \/ Timeout
  <2>1. UNCHANGED <<config, misconfigured>>
    BY <1>6 DEF SinkStops, SignalArrives, SignalError, Join, Timeout
  <2>2. main \notin {"load", "failed"}
    BY <1>6 DEF SinkStops, SignalArrives, SignalError, Join, Timeout, Running
  <2>3. BridgeInv'
    BY <2>1, <2>2 DEF BridgeInv, OnlyOpaqueValuesFail, OpaqueToValidate
  <2>4. Signal \/ UNCHANGED vars
    BY <1>6 DEF SinkStops, SignalArrives, SignalError, Join, Timeout
  <2> QED BY <2>3, <2>4 DEF Next
<1>7. CASE UNCHANGED bridgeVars
  BY <1>7 DEF bridgeVars, processVars, BridgeInv, OnlyOpaqueValuesFail, OpaqueToValidate
<1> QED BY <1>1, <1>2, <1>3, <1>4, <1>5, <1>6, <1>7 DEF BridgeNext, TaskStep

LEMMA InitStep == BridgeInit => BridgeInv /\ Init
BY DEF BridgeInit, BridgeInv, OnlyOpaqueValuesFail, OpaqueToValidate
-----------------------------------------------------------------------------
(* Apart from the values that are opaque to it, validate refuses every     *)
(* value that would make a part of the process fail where it is used.      *)
THEOREM ValidateChecksTheRest == BridgeSpec => []OnlyOpaqueValuesFail
<1>1. BridgeInv /\ [BridgeNext]_bridgeVars => BridgeInv'
  BY NextStep
<1>2. BridgeInv => OnlyOpaqueValuesFail
  BY DEF BridgeInv
<1> QED BY <1>1, <1>2, InitStep, PTL DEF BridgeSpec

(* The collectors of the process are those of module Collectors.           *)
THEOREM BridgeImplementsCollectors == BridgeSpec => Spec
<1>1. BridgeInv /\ [BridgeNext]_bridgeVars => BridgeInv' /\ [Next]_vars
  BY NextStep
<1> QED BY <1>1, InitStep, PTL DEF BridgeSpec, Spec

(* So what is proved of the collectors holds in the process: a collector   *)
(* that waits for its session's end monitors every item but those that the *)
(* server has refused, event loops left behind do not, polling rounds are  *)
(* whole, and both end for a reason.                                       *)
THEOREM CollectorsOfTheBridge ==
  BridgeSpec => [](MonitorsAllButRefused /\ OneCompleteSession /\ RoundsAreWhole /\ EndsForAReason)
BY BridgeImplementsCollectors, RunningMonitorsAllButRefused, LeftSessionsAreHalfMade, PollerRoundsAreWhole,
   CollectorsEndForAReason, PTL
-----------------------------------------------------------------------------
StartingUp == main \in {"load", "metrics", "mysql", "metadata", "buffer", "spawn"}

(* No task runs before main serves, and a collector that is not configured *)
(* never does.                                                             *)
SpawnInv ==
  /\ StartingUp => opc = "check" /\ wcs = "check" /\ loops = <<>> /\ sink = "none"
  /\ config.opcua = {} => opc = "check"
  /\ config.wcs = {} => wcs = "check"

(* A worker that stopped before the signal found its channel closed, and   *)
(* the channel stays so.                                                   *)
ClosedInv == sink = "stopped" /\ ~ shutdown => ChannelClosed

LEMMA StartUpKeeps ==
  ASSUME SpawnInv, ClosedInv, StartUpStep
  PROVE  SpawnInv' /\ ClosedInv'
<1>1. StartingUp /\ UNCHANGED vars
  BY DEF StartUpStep, LoadConfig, InstallMetrics, ConnectMysql, LoadMetadata, OpenBuffer, Spawn,
         StartUp, StartingUp
<1>2. main' \in {"load", "metrics", "mysql", "metadata", "buffer", "spawn"} => UNCHANGED sink
  BY DEF StartUpStep, LoadConfig, InstallMetrics, ConnectMysql, LoadMetadata, OpenBuffer, Spawn,
         StartUp
<1>3. sink' # "stopped"
  BY <1>1 DEF SpawnInv, StartUpStep, LoadConfig, InstallMetrics, ConnectMysql, LoadMetadata,
              OpenBuffer, Spawn, StartUp
<1>4. opc' = "check" /\ wcs' = "check" /\ loops' = <<>>
  BY <1>1 DEF SpawnInv, vars, opcVars, wcsVars
<1> QED BY <1>1, <1>2, <1>3, <1>4 DEF SpawnInv, ClosedInv, StartingUp

(* Once ended, a collector stays so.                                       *)
LEMMA OpcuaKeeps ==
  ASSUME SpawnInv, ClosedInv, RunOpcua \/ RunWaitEnds
  PROVE  SpawnInv' /\ ClosedInv'
<1>1. /\ Running /\ config.opcua # {}
      /\ opc \notin {"ok", "err", "panicked"}
      /\ UNCHANGED <<config, main, sink, shutdown, wcs>>
  <2>1. PICK o \in config.opcua :
          /\ Running /\ UNCHANGED <<config, main, sink>>
          /\ \/ OpcStep \/ SetupPanics \/ WaitEnds
             \/ OpcuaUnusable(o) # {} /\ UNCHANGED <<limit, shutdown, wcsVars>>
    BY DEF RunOpcua, RunWaitEnds
  <2>2. CASE OpcStep \/ SetupPanics \/ WaitEnds
    BY <2>1, <2>2 DEF OpcStep, Check, Connect, Connected, DescriptionMapError, CreateSubscription,
         CreateItems, SetupError, SetupPanics, WaitEnds, LoopEnded, OpcShutdown, Sleep, wcsVars
  <2>3. CASE OpcuaUnusable(o) # {} /\ UNCHANGED <<limit, shutdown, wcsVars>>
    <3>1. opc \in {"connect", "wait", "items"}
      BY <2>3 DEF OpcuaUnusable
    <3> QED BY <2>1, <2>3, <3>1 DEF wcsVars
  <2> QED BY <2>1, <2>2, <2>3
<1>2. ~ ChannelClosed
  BY <1>1 DEF ChannelClosed, OpcEnded
<1>3. SpawnInv'
  BY <1>1 DEF SpawnInv, StartingUp, Running
<1> QED BY <1>1, <1>2, <1>3 DEF ClosedInv

LEMMA PollerKeeps ==
  ASSUME SpawnInv, ClosedInv, RunWcs \/ RunInterval \/ RunRound \/ RunWcsStop
  PROVE  SpawnInv' /\ ClosedInv'
<1>1. /\ Running /\ UNCHANGED <<config, main, sink, shutdown, opc, loops>>
      /\ wcs \in {"check", "build", "sleep", "poll", "select"}
      /\ config.wcs # {} \/ wcs # "check"
  <2>1. CASE RunWcs
    BY <2>1 DEF RunWcs, WcsStep, WcsCheck, BuildClient, WcsSleep, PollEndpoint, opcVars
  <2>2. CASE RunInterval \/ RunRound \/ RunWcsStop
    BY <2>2 DEF RunInterval, RunRound, RunWcsStop, TickDue, StartRound, WcsShutdown, opcVars,
                processVars
  <2> QED BY <2>1, <2>2
<1>2. config.wcs # {}
  BY <1>1 DEF SpawnInv
<1>3. ~ ChannelClosed
  BY <1>1, <1>2 DEF ChannelClosed, WcsEnded
<1>4. SpawnInv'
  BY <1>1, <1>2 DEF SpawnInv, StartingUp, Running
<1> QED BY <1>1, <1>3, <1>4 DEF ClosedInv

(* An event loop that ended stays ended, and none begins to monitor.       *)
LEMMA EventLoopsKeep ==
  ASSUME CollectorsInv, SpawnInv, ClosedInv, RunEventLoops
  PROVE  SpawnInv' /\ ClosedInv'
<1>1. Running /\ UNCHANGED <<config, main, sink, shutdown, opc, wcs>>
  BY DEF RunEventLoops, LoopStep, Establish, Lose, GiveUp, Close, processVars, wcsVars
<1>2. SpawnInv'
  BY <1>1 DEF SpawnInv, StartingUp, Running
<1>3. ASSUME ChannelClosed PROVE ChannelClosed'
  <2>1. OpcEnded' /\ WcsEnded'
    BY <1>1, <1>3 DEF ChannelClosed, OpcEnded, WcsEnded
  <2>2. DOMAIN loops' = DOMAIN loops
    BY DEF RunEventLoops, LoopStep, Establish, Lose, GiveUp, Close, Becomes
  <2>3. ASSUME NEW j \in DOMAIN loops, Live(loops'[j]) PROVE loops'[j].subs = 0
    <3>1. PICK i \in DOMAIN loops, to \in {"connecting", "connected", "stopped", "closed"} :
            /\ Live(loops[i])
            /\ loops' = [loops EXCEPT ![i].state = to]
      BY DEF RunEventLoops, LoopStep, Establish, Lose, GiveUp, Close, Becomes, Live
    <3>2. loops[i].subs = 0
      BY <1>3, <3>1 DEF ChannelClosed
    <3>3. CASE j = i
      <4>1. loops[i] \in Loop
        BY DEF CollectorsInv, CollectorsTypeOK
      <4>2. loops'[i] = [loops[i] EXCEPT !.state = to]
        BY <3>1
      <4> QED BY <3>2, <3>3, <4>1, <4>2 DEF Loop
    <3>4. CASE j # i
      <4>1. loops'[j] = loops[j]
        BY <3>1, <3>4
      <4> QED BY <1>3, <2>3, <4>1 DEF ChannelClosed
    <3> QED BY <3>3, <3>4
  <2> QED BY <2>1, <2>2, <2>3 DEF ChannelClosed
<1> QED BY <1>1, <1>2, <1>3 DEF ClosedInv

LEMMA ClosedStep ==
  ASSUME CollectorsInv, SpawnInv, ClosedInv, [BridgeNext]_bridgeVars
  PROVE  SpawnInv' /\ ClosedInv'
<1>1. CASE StartUpStep
  BY <1>1, StartUpKeeps
<1>2. CASE RunOpcua \/ RunWaitEnds
  BY <1>2, OpcuaKeeps
<1>3. CASE RunWcs \/ RunInterval \/ RunRound \/ RunWcsStop
  BY <1>3, PollerKeeps
<1>4. CASE RunEventLoops
  BY <1>4, EventLoopsKeep
<1>5. CASE SinkStops \/ SinkFails
  <2>1. Running /\ UNCHANGED <<vars, config, main>>
    BY <1>5 DEF SinkStops, SinkFails
  <2>2. UNCHANGED <<shutdown, opc, wcs, loops>>
    BY <2>1 DEF vars, opcVars, wcsVars
  <2>3. sink' = "stopped" => shutdown \/ ChannelClosed
    BY <1>5 DEF SinkStops, SinkFails
  <2>4. SpawnInv'
    BY <2>1, <2>2 DEF SpawnInv, StartingUp, Running
  <2>5. ChannelClosed => ChannelClosed'
    BY <2>1, <2>2 DEF ChannelClosed, OpcEnded, WcsEnded, Live
  <2> QED BY <2>2, <2>3, <2>4, <2>5 DEF ClosedInv
<1>6. CASE SignalArrives \/ SignalError \/ Join \/ Timeout
  <2>1. ~ StartingUp' /\ UNCHANGED <<config, sink, opc, wcs, loops>>
    BY <1>6 DEF SignalArrives, SignalError, Join, Timeout, StartingUp, Signal, vars, opcVars,
                wcsVars
  <2>2. shutdown' \/ UNCHANGED shutdown
    BY <1>6 DEF SignalArrives, SignalError, Join, Timeout, Signal, vars
  <2>3. ChannelClosed => ChannelClosed'
    BY <2>1 DEF ChannelClosed, OpcEnded, WcsEnded, Live
  <2> QED BY <2>1, <2>2, <2>3 DEF SpawnInv, ClosedInv
<1>7. CASE UNCHANGED bridgeVars
  BY <1>7 DEF bridgeVars, processVars, vars, opcVars, wcsVars, SpawnInv, ClosedInv, StartingUp,
              ChannelClosed, OpcEnded, WcsEnded, Live
<1> QED BY <1>1, <1>2, <1>3, <1>4, <1>5, <1>6, <1>7 DEF BridgeNext, TaskStep

(* A sink worker that has left because its channel was closed misses       *)
(* nothing: no collector and no abandoned event loop offers a sample then. *)
THEOREM NothingIsOfferedInVain == BridgeSpec => []NobodyOffersToAStoppedSink
<1>1. BridgeInit => SpawnInv /\ ClosedInv
  BY DEF BridgeInit, Init, SpawnInv, ClosedInv
<1>2. CollectorsInv /\ SpawnInv /\ ClosedInv /\ [BridgeNext]_bridgeVars => SpawnInv' /\ ClosedInv'
  BY ClosedStep
<1>3. SpawnInv /\ ClosedInv => NobodyOffersToAStoppedSink
  BY DEF SpawnInv, ClosedInv, NobodyOffersToAStoppedSink, ChannelClosed, OpcEnded, WcsEnded
<1>4. BridgeSpec => []CollectorsInv
  BY BridgeImplementsCollectors, CollectorsInvariant, PTL
<1> QED BY <1>1, <1>2, <1>3, <1>4, PTL DEF BridgeSpec
=============================================================================
