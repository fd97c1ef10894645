------------------------------ MODULE MCBridge ------------------------------
(***************************************************************************)
(* Instances of Bridge for TLC: configurations of either collector and of  *)
(* both, with every kind of retry limit, and one-field variants of them:   *)
(* values that validate is to refuse, and values that it does not look     *)
(* into and that fail where they are used.                                 *)
(***************************************************************************)
EXTENDS Bridge

Capacity == 1000

Tag(id) == [node_id |-> id, alias |-> "alias"]
Subscription(name, id) ==
  [name |-> name, publishing_interval_ms |-> 1000, tags |-> {Tag("ns=2;s=A"), Tag(id)}]
    @@ SubscriptionDefaults

Files ==
  [good |-> <<Subscription("file", "ns=2;s=B")>>, bad |-> <<Subscription("file", "bad")>>,
   same |-> <<Subscription("fast", "ns=2;s=B")>>]

Opcua(retries) ==
  [endpoint |-> "opc.tcp://kepware", application_uri |-> "urn:bridge",
   session_retry_limit |-> retries, subscription_files |-> <<"good">>,
   description_map_path |-> {"descriptions"},
   monitored_item_create_batch_size_count |-> 1,
   identity |-> [kind |-> "Anonymous", value |-> "anonymous"]] @@ OpcuaDefaults

Wcs ==
  [base_url |-> "http://wcs", headers |-> {"token"},
   endpoints |-> {[path |-> p, tags |-> {[json_path |-> "data", alias |-> "w"]}] :
                    p \in {"/a", "/b"}}]
    @@ WcsDefaults

Both(retries) ==
  [opcua |-> {Opcua(retries)}, wcs |-> {Wcs},
   mysql |-> [url |-> "mysql://db"] @@ MysqlDefaults,
   subscriptions |-> <<Subscription("fast", "ns=2;s=C")>>,
   sink |-> [table |-> "log", batch_size |-> 1, flush_interval_ms |-> 1,
             tag_prefix_routes |-> {[prefix |-> <<"WH">>, table |-> "wh_log"]}],
   buffer |-> [path |-> "buffer", max_size_mb |-> 1], metrics |-> [bind |-> "0.0.0.0:9464"]]

OpcuaOnly(retries) == [Both(retries) EXCEPT !.wcs = {}]
WcsOnly            == [Both(-1) EXCEPT !.opcua = {}, !.subscriptions = <<>>]

(* One value of a configuration that validate has to look at.              *)
OpcuaVariants(c) ==
  LET o == CHOOSE o \in c.opcua : TRUE
      With(p) == [c EXCEPT !.opcua = {p}]
  IN  {With([o EXCEPT !.subscription_files = <<name>>]) : name \in {"bad", "same", "none", " "}} \cup
      {With([o EXCEPT !.identity = i]) : i \in
         {[kind |-> "Anonymous", value |-> "none"],
          [kind |-> "UserNamePassword", username |-> " ", password |-> "p"]}} \cup
      {With([o EXCEPT !.discovery = {[enabled |-> TRUE, target_subscription |-> "slow"]
                                       @@ DiscoveryDefaults}])}

Variants(c) ==
  {[c EXCEPT !.mysql.max_connections = 0], [c EXCEPT !.buffer.max_size_mb = 0],
   [c EXCEPT !.sink.flush_interval_ms = 0], [c EXCEPT !.sink.batch_size = 0],
   [c EXCEPT !.sink.table = "a-b"], [c EXCEPT !.metrics.bind = "9464"],
   [c EXCEPT !.sink.tag_prefix_routes = {[prefix |-> <<"WH">>, table |-> "a-b"]}],
   [c EXCEPT !.wcs = {[Wcs EXCEPT !.poll_interval_ms = 0]}],
   [c EXCEPT !.wcs = {[Wcs EXCEPT !.timeout_ms = 0]}],
   [c EXCEPT !.wcs = {[Wcs EXCEPT !.endpoints = {}]}]}

(* One value that validate accepts and its use does not.                   *)
OpaqueVariants ==
  LET o == Opcua(1)
      With(p) == [OpcuaOnly(1) EXCEPT !.opcua = {p}]
  IN  {With([o EXCEPT !.endpoint = "kepware"]), With([o EXCEPT !.description_map_path = {"none"}]),
       With([o EXCEPT !.monitored_item_create_batch_size_count = Capacity + 1]),
       [WcsOnly EXCEPT !.mysql.url = "db"], [WcsOnly EXCEPT !.buffer.path = "file/buffer"],
       [WcsOnly EXCEPT !.sink.batch_size = Capacity + 1],
       [WcsOnly EXCEPT !.wcs = {[Wcs EXCEPT !.base_url = "wcs"]}],
       [WcsOnly EXCEPT !.wcs = {[Wcs EXCEPT !.headers = {"no header"}]}]}

AllConfigs ==
  {Both(0), Both(-1), OpcuaOnly(0), OpcuaOnly(1), WcsOnly} \cup
  OpcuaVariants(Both(-1)) \cup Variants(Both(-1)) \cup Variants(WcsOnly) \cup
  OpaqueVariants \cup
  {[WcsOnly EXCEPT !.wcs = {}]}

Limits    == {-1, 0, 1}
Parsed    == {"ns=2;s=A", "ns=2;s=B", "ns=2;s=C"}
Tables    == {"log", "wh_log"}
Addresses == {"0.0.0.0:9464"}
Urls      == {"mysql://db"}
Paths     == {"buffer"}
Endpoints == {"opc.tcp://kepware"}
Maps      == {"descriptions"}
Requests  == {"http://wcs"} \X {"/a", "/b"}
Headers   == {"token"}
=============================================================================
