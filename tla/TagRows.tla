------------------------------- MODULE TagRows -------------------------------
(***************************************************************************)
(* The realtime rows of one tag (src/sink.rs, src/metadata.rs) as its      *)
(* configuration changes from start to start: the configuration names the  *)
(* tag's columns, its hot table and its fault type; the sink worker writes *)
(* them with a seed when it starts and with every sample. A sample keeps   *)
(* what the configuration of its time says of the tag, but is routed and   *)
(* given its fault type by the configuration it is written under. The      *)
(* buffer hands samples on late, out of order, more than once, and to      *)
(* later starts (SinkWorker); here any sample may be delivered at any time.*)
(*                                                                         *)
(* An area is a segment; a tag's catalog is its rows of tag_catalog in the *)
(* order in which the query returns them.                                  *)
(***************************************************************************)
EXTENDS TagDescriptions, Functions

CONSTANTS
  Changes,   \* pairs of a tag and the same tag as the next start finds it
  MaxStarts  \* how often the process starts

ASSUME ChangeAssumption ==
  \A change \in Changes :
    /\ IsTag(change[2])
    /\ change[1].node = change[2].node
    /\ change[1].path = change[2].path
    /\ change[1].source = change[2].source

VARIABLES
  rows,    \* the tag's rows of device_realtime_status, by source_table
  sent,    \* the samples that may yet be delivered
  clock,   \* the source timestamp of the last sample
  starts,  \* how often the process has started
  since,   \* the clock at the last start
  newest,  \* the newest timestamp delivered since then, or 0
  seeded   \* whether the seeds were written at the last start

rowVars == <<rows, sent, clock, starts, since, newest, seeded>>

NoText == <<>>
Never  == 0
-----------------------------------------------------------------------------
(* TagSample::alarm_log_fields, of a sample of tag t.                      *)
AlarmLogFields(t) ==
  LET parsed == ParsedFields(TagName(t))
  IN  [location  |-> FirstNonEmpty(<<parsed.location, t.area>>),
       device    |-> FirstNonEmpty(<<parsed.device, t.device>>),
       device_id |-> FirstNonEmpty(<<parsed.device_id, t.device_id>>),
       tag       |-> FirstNonEmpty(<<parsed.tag, t.alias, TagName(t)>>)]

(* TagMetadataCache: a map holds the last of the rows with the same key.   *)
Entries(catalog, key, text) ==
  {i \in DOMAIN catalog : text # NoText /\ catalog[i][key] = text}

(* lookup under configuration c: the entry that is found first counts, even *)
(* if it has no fault type.                                                *)
FaultType(t, fields, c) ==
  LET found == <<Entries(c.catalog, "node", t.node), Entries(c.catalog, "alias", t.alias),
                 Entries(c.catalog, "tag", fields.tag), Entries(c.catalog, "tag", TagName(t))>>
      tiers == {i \in DOMAIN found : found[i] # {}}
  IN  IF tiers = {} THEN NoText ELSE c.catalog[Max(found[Min(tiers)])].fault

(* The columns of a row that say what it is about.                         *)
Columns(t, c) ==
  LET fields == AlarmLogFields(t)
  IN  [location |-> fields.location, device |-> fields.device,
       device_id |-> fields.device_id, tag |-> fields.tag,
       source |-> t.source, alias |-> t.alias, fault_type |-> FaultType(t, fields, c)]

(* SinkTableRouter::table_for_sample                                       *)
Table(t, c) ==
  IF TagPrefix(t) \in DOMAIN c.routes THEN c.routes[TagPrefix(t)] ELSE c.table

(* What the rows are when table's is r.                                    *)
WithRow(table, r) ==
  [t \in DOMAIN rows \cup {table} |-> IF t = table THEN r ELSE rows[t]]

(* build_realtime_seed_sql: what a row has of the samples, it keeps.       *)
Seed(t) ==
  LET old == IF Table(t, t) \in DOMAIN rows THEN rows[Table(t, t)]
             ELSE [at |-> Never, shown |-> NoRow]
  IN  [columns |-> Columns(t, t), description |-> Shown(t.config),
       at |-> old.at, shown |-> old.shown]

(* The seeds of a start, one for each configured OPC UA tag; the statement *)
(* may fail, which is only logged.                                         *)
Seeding(t) ==
  \/ /\ t.source = "opcua"
     /\ seeded' = TRUE
     /\ rows' = WithRow(Table(t, t), Seed(t))
  \/ seeded' = FALSE /\ UNCHANGED rows

RowsInit ==
  /\ Init
  /\ sent = {} /\ clock = 0 /\ starts = 1 /\ since = 0 /\ newest = Never
  /\ \/ /\ tag.source = "opcua"
        /\ seeded = TRUE
        /\ rows = [t \in {Table(tag, tag)} |->
                     [columns |-> Columns(tag, tag), description |-> Shown(tag.config),
                      at |-> Never, shown |-> NoRow]]
     \/ seeded = FALSE /\ rows = <<>>

(* The callback's sample. The value may be as old as the last one: what a  *)
(* server sends first after a start is the value it has.                   *)
Send ==
  /\ Report
  /\ clock' \in {clock, clock + 1} \ {Never}
  /\ sent' = sent \cup {[tag |-> tag, at |-> clock', shown |-> row',
                          description |-> Shown(description)]}
  /\ UNCHANGED <<rows, starts, since, newest, seeded>>

(* Faulty variant of Accepts: no sample is too old for a row.              *)
AcceptsAny(table, s) == TRUE

(* accepts_newer in build_realtime_upsert_sql                              *)
Accepts(table, s) == table \in DOMAIN rows => s.at >= rows[table].at

(* A sample reaches the rows; it may do so again when the worker does not  *)
(* learn that it has (SinkWorker).                                         *)
Deliver(s) ==
  LET table == Table(s.tag, tag)
  IN  /\ sent' \in {sent, sent \ {s}}
      /\ IF Accepts(table, s)
         THEN rows' = WithRow(table, [columns |-> Columns(s.tag, tag), description |-> s.description,
                                      at |-> s.at, shown |-> s.shown])
         ELSE UNCHANGED rows
      /\ newest' = Max({newest, s.at})
      /\ UNCHANGED <<vars, clock, starts, since, seeded>>

(* The process stops, if not crashes, and starts with another              *)
(* configuration: SinkWorker::new and run, create_subscription.            *)
RestartAs(t) ==
  /\ starts < MaxStarts
  /\ starts' = starts + 1
  /\ tag' = t
  /\ pc' = FirstStep(t)
  /\ failed' = {} /\ server' = <<>> /\ description' = <<>>
  /\ value' = NoValue /\ at' = 1 /\ label' = <<>> /\ row' = NoRow
  /\ Seeding(t)
  /\ since' = clock /\ newest' = Never
  /\ UNCHANGED <<sent, clock>>

DescriptionStep ==
  /\ \/ ReadKepware \/ ReadAttribute \/ BuildDescription
     \/ Update \/ Scan
  /\ UNCHANGED rowVars

RowsNext ==
  \/ DescriptionStep
  \/ Send
  \/ \E s \in sent : Deliver(s)
  \/ \E change \in Changes : change[1] = tag /\ RestartAs(change[2])

RowsSpec == RowsInit /\ [][RowsNext]_<<vars, rowVars>>
-----------------------------------------------------------------------------
(* After a start that changed the configuration the tag's row in its table *)
(* says of the tag what the new configuration says: from the seed until a  *)
(* sample comes, and for ever once one has come that is newer than all     *)
(* from before the start, however many of those the buffer still holds and *)
(* replays (build_realtime_seed_sql, build_realtime_upsert_sql). Seeds and *)
(* samples agree on the columns and meet in one row                        *)
(* (realtime_tag_seed_for_subscription, table_for_sample).                 *)
RowFollowsConfiguration ==
  newest > since \/ (seeded /\ newest = Never) =>
    /\ Table(tag, tag) \in DOMAIN rows
    /\ rows[Table(tag, tag)].columns = Columns(tag, tag)

(* The columns README.md:37-74 documents, for names with one or two levels *)
(* before Alarm and one point after it, and for Iscs names whose equipment *)
(* has a number between its hyphens.                                       *)
Documented == {"location", "device", "device_id", "tag"}

AlarmShape(name) ==
  /\ Len(name) \in {5, 6}
  /\ \A i \in DOMAIN name : name[i] = <<"Alarm">> <=> i = Len(name) - 1
  /\ name[3] # <<"Iscs">> /\ (Len(name) = 5 => Len(name[3]) = 1)
AlarmColumns(name) ==
  [location |-> name[1], device |-> name[3], device_id |-> name[Len(name) - 2],
   tag |-> <<name[Len(name)]>>]

IscsShape(name) ==
  /\ Len(name) >= 4 /\ name[3] = <<"Iscs">>
  /\ Len(name[4]) > 1 /\ name[4][2] # ""
  /\ \A i \in DOMAIN name : name[i] # <<"Alarm">>
IscsColumns(name) ==
  [location |-> name[1], device |-> name[4], device_id |-> <<name[4][2]>>,
   tag |-> SubSeq(name, 3, Len(name))]

(* The rows of a tag whose name has a documented shape have the documented *)
(* columns, whatever the other segments are, blank ones left out, and      *)
(* whether the name is the node id's path or the alias                     *)
(* (parse_alarm_log_fields). A lone level with a hyphen is no documented   *)
(* shape: the code splits it.                                              *)
FieldsAsDocumented ==
  newest > since =>
    LET name   == Segments(TagName(tag))
        fields == Restrict(rows[Table(tag, tag)].columns, Documented)
    IN  /\ AlarmShape(name) => fields = AlarmColumns(name)
        /\ IscsShape(name) => fields = IscsColumns(name)
=============================================================================
