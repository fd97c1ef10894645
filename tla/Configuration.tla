---------------------------- MODULE Configuration ----------------------------
(***************************************************************************)
(* The configuration (src/config.rs): what a file may say, the defaults of *)
(* what it leaves out, the subscription files it names, and what validate  *)
(* accepts.                                                                *)
(*                                                                         *)
(* An Option is a set of at most one element and a list whose order means  *)
(* nothing is a set. Texts are told apart by whether they are blank and by *)
(* what parses them; the key of a route is split at its dots. A spelling   *)
(* of "anonymous" in other letters is that word. Fields that nothing of    *)
(* the bridge depends on are left out.                                     *)
(***************************************************************************)
EXTENDS Integers, FiniteSets, SequencesExt

CONSTANTS
  U32Max,           (* the largest u32                                       *)
  NodeIds,          (* texts that NodeId::from_str accepts                   *)
  Identifiers,      (* texts that validate_mysql_identifier accepts          *)
  SocketAddresses,  (* texts that parse as an address and a port             *)
  NamedFiles        (* the files that can be read and parsed, by their name  *)
-----------------------------------------------------------------------------
IdentityConfig ==
  [kind : {"Anonymous"}, value : STRING] \cup
  [kind : {"UserNamePassword"}, username : STRING, password : STRING]

OpcuaDiscoveryConfig ==
  [enabled : BOOLEAN, target_subscription : STRING, root_node_ids : SUBSET STRING,
   include_paths : SUBSET STRING, exclude_paths : SUBSET STRING,
   max_depth_count : Nat, max_tags_count : Nat]

OpcuaConfig ==
  [endpoint : STRING, application_uri : STRING, identity : IdentityConfig,
   session_retry_limit : Int, description_map_path : SUBSET STRING,
   subscription_files : Seq(STRING), monitored_item_create_batch_size_count : Nat,
   discovery : SUBSET OpcuaDiscoveryConfig]

TagConfig == [node_id : STRING, alias : STRING]

SubscriptionConfig ==
  [name : STRING, publishing_interval_ms : Nat, keep_alive_count : Nat,
   lifetime_count : Nat, tags : SUBSET TagConfig]

WcsTagConfig == [json_path : STRING, alias : STRING]

WcsEndpointConfig == [path : STRING, tags : SUBSET WcsTagConfig]

WcsConfig ==
  [base_url : STRING, headers : SUBSET STRING, poll_interval_ms : Nat, timeout_ms : Nat,
   endpoints : SUBSET WcsEndpointConfig]

MysqlConfig == [url : STRING, max_connections : Nat]

SinkTableRouteConfig == [prefix : Seq(STRING), table : STRING]

SinkConfig ==
  [table : STRING, tag_prefix_routes : SUBSET SinkTableRouteConfig,
   batch_size : Nat, flush_interval_ms : Nat]

AppConfig ==
  [opcua : SUBSET OpcuaConfig, wcs : SUBSET WcsConfig, mysql : MysqlConfig,
   subscriptions : Seq(SubscriptionConfig), sink : SinkConfig,
   buffer : [path : STRING, max_size_mb : Nat], metrics : [bind : STRING]]

(* What serde puts in the place of fields the file leaves out.             *)
DiscoveryDefaults ==
  [enabled |-> FALSE, target_subscription |-> "fast", root_node_ids |-> {},
   include_paths |-> {}, exclude_paths |-> {}, max_depth_count |-> 12,
   max_tags_count |-> 500]
OpcuaDefaults ==
  [session_retry_limit |-> -1, description_map_path |-> {}, subscription_files |-> <<>>,
   monitored_item_create_batch_size_count |-> 500, discovery |-> {}]
SubscriptionDefaults == [keep_alive_count |-> 10, lifetime_count |-> 30]
WcsDefaults          == [headers |-> {}, poll_interval_ms |-> 5000, timeout_ms |-> 10000]
MysqlDefaults        == [max_connections |-> 8]
-----------------------------------------------------------------------------
Blank(text)      == text \in {"", " "}
NoneBlank(texts) == \A text \in texts : ~ Blank(text)

IdentityValid(i) ==
  IF i.kind = "Anonymous" THEN i.value = "anonymous"
  ELSE ~ Blank(i.username) /\ i.password # ""

DiscoveryValid(d) ==
  d.enabled =>
    /\ ~ Blank(d.target_subscription)
    /\ d.max_depth_count > 0 /\ d.max_tags_count > 0
    /\ d.root_node_ids \subseteq NodeIds
    /\ NoneBlank(d.root_node_ids \cup d.include_paths \cup d.exclude_paths)

OpcuaValid(o) ==
  /\ NoneBlank({o.endpoint, o.application_uri})
  /\ NoneBlank(o.description_map_path \cup ToSet(o.subscription_files))
  /\ o.session_retry_limit >= -1
  /\ o.monitored_item_create_batch_size_count > 0
  /\ IdentityValid(o.identity)
  /\ \A d \in o.discovery : DiscoveryValid(d)

TagValid(t) == ~ Blank(t.alias) /\ t.node_id \in NodeIds

SaturatingTriple(n) == IF 3 * n > U32Max THEN U32Max ELSE 3 * n

SubscriptionValid(s) ==
  /\ ~ Blank(s.name)
  /\ s.publishing_interval_ms > 0 /\ s.keep_alive_count > 0
  /\ s.lifetime_count >= SaturatingTriple(s.keep_alive_count)
  /\ s.tags # {}
  /\ \A t \in s.tags : TagValid(t)

(* validate_unique_subscription_names                                      *)
NamesAreUnique(subscriptions) ==
  \A i, j \in DOMAIN subscriptions : subscriptions[i].name = subscriptions[j].name => i = j

(* Subscriptions are looked at with an OPC UA collector only.              *)
SubscriptionsValid(c) ==
  /\ c.subscriptions # <<>>
  /\ \A s \in ToSet(c.subscriptions) : SubscriptionValid(s)
  /\ NamesAreUnique(c.subscriptions)

TargetExists(c, d) ==
  d.enabled => \E s \in ToSet(c.subscriptions) : s.name = d.target_subscription

EndpointValid(e) ==
  /\ ~ Blank(e.path)
  /\ e.tags # {}
  /\ \A t \in e.tags : NoneBlank({t.json_path, t.alias})

WcsValid(w) ==
  /\ ~ Blank(w.base_url)
  /\ w.poll_interval_ms > 0 /\ w.timeout_ms > 0
  /\ w.endpoints # {}
  /\ \A e \in w.endpoints : EndpointValid(e)

RouteValid(r) == Len(r.prefix) = 1 /\ NoneBlank(ToSet(r.prefix)) /\ r.table \in Identifiers

SinkValid(s) ==
  /\ s.table \in Identifiers
  /\ \A r \in s.tag_prefix_routes : RouteValid(r)
  /\ s.batch_size > 0 /\ s.flush_interval_ms > 0

(* Faulty variant of OpcuaPartValid: subscriptions are taken as they are.  *)
OpcuaAloneValid(c) == \A o \in c.opcua : OpcuaValid(o)

OpcuaPartValid(c) ==
  \A o \in c.opcua :
    /\ OpcuaValid(o)
    /\ SubscriptionsValid(c)
    /\ \A d \in o.discovery : TargetExists(c, d)

(* validate *)
Valid(c) ==
  /\ c.opcua # {} \/ c.wcs # {}
  /\ OpcuaPartValid(c)
  /\ \A w \in c.wcs : WcsValid(w)
  /\ NoneBlank({c.mysql.url, c.buffer.path})
  /\ c.mysql.max_connections > 0 /\ c.buffer.max_size_mb > 0
  /\ SinkValid(c.sink)
  /\ c.metrics.bind \in SocketAddresses

(* load_subscription_files: the subscriptions of the files, in their       *)
(* order, come after those of the file itself.                             *)
FilesLoad(o) ==
  \A name \in ToSet(o.subscription_files) : ~ Blank(name) /\ name \in DOMAIN NamedFiles

Loaded(c) ==
  IF c.opcua = {} THEN c
  ELSE LET o == CHOOSE o \in c.opcua : TRUE
       IN  [c EXCEPT !.subscriptions =
              @ \o FlattenSeq([i \in DOMAIN o.subscription_files |->
                                 NamedFiles[o.subscription_files[i]]])]

(* load gives a configuration (Loaded) or an error.                        *)
Loads(c) ==
  /\ \A o \in c.opcua : FilesLoad(o)
  /\ Valid(Loaded(c))
=============================================================================
