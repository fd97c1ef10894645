------------------------------ MODULE MCTagRows ------------------------------
(***************************************************************************)
(* Instances of TagRows for TLC: sorter tags with every description in the *)
(* documented form of a short name and up to two codes; tags with every    *)
(* combination of description sources; tags with every short name; tags    *)
(* of a WCS; and tags whose configuration changes between starts.          *)
(***************************************************************************)
EXTENDS TagRows, TLC

Seqs(set, lengths) == UNION {[1 .. n -> set] : n \in lengths}

Zone == <<"WH_CP_Zone01">>
FSC1 == <<"FSC1">>
Word == {Zone, <<"Iscs">>, <<"Alarm">>, <<"M5035">>, <<"BF", "1_1_1">>, BlankSegment}

Number(code) == [kind |-> "int", text |-> code]

Plain ==
  [source |-> "opcua", node |-> <<"node">>, path |-> NoText, alias |-> <<<<"alias">>>>,
   area |-> <<"area">>, device |-> <<"device">>, device_id |-> <<"id">>,
   config |-> <<"config">>, byNode |-> NoText, byPath |-> NoText, kepware |-> NoText,
   attribute |-> NoText, values |-> {Number(<<"1">>)}, value_type |-> "int",
   routes |-> (FSC1 :> "fsc_log"), table |-> "log", catalog |-> <<>>]

(* Descriptions. *)
CodeNames ==
  LET Of(lengths) == Seqs({"0", "1", " ", ",", "name"}, lengths)
  IN  Of(1 .. 2) \cup {n \in Of({3}) : n[3] = "name"}
Codes     == {<<"0">>, <<"1">>, <<"1", "0">>}
Meaning   == {"normal", "error"}

Entry(code, word) == code \o <<"|", word>>
CodeTables ==
  {Entry(c, w) : c \in Codes, w \in Meaning} \cup
  {Entry(p[1], v) \o <<";">> \o Entry(p[2], w) :
     p \in {q \in Codes \X Codes : q[1] # q[2]}, v \in Meaning, w \in Meaning}
Described ==
  {n \o <<":">> \o t \o e : n \in CodeNames, t \in CodeTables, e \in {<<>>, <<";">>}}

(* Lists with empty entries and numbers in labels, and a name with a ";".  *)
OddTables ==
  {<<"name", ";", "1", "name", ":", "1", "|", "error">>,
   <<"name", ":", ";", "0", "|", "error", "1", "1", ";", ";", "1", "|", "normal", " ", "2", ".", ";">>}

SomeValues ==
  {Number(c) : c \in Codes} \cup
  {[kind |-> "bool", text |-> <<b>>] : b \in {"true", "false"}} \cup
  {[kind |-> "text", text |-> <<" ", "1">>], [kind |-> "text", text |-> <<>>],
   [kind |-> "unsupported", text |-> <<>>]}

SorterTags ==
  {[Plain EXCEPT !.path = <<FSC1>>, !.config = d, !.values = SomeValues] : d \in Described \cup OddTables}

SourcedTags ==
  {[Plain EXCEPT !.path = p, !.alias = a, !.config = c, !.byNode = n, !.byPath = b,
                 !.kepware = k, !.attribute = t] :
     p \in {NoText, <<<<"FSC2">>>>, <<Zone>>}, a \in {<<FSC1>>, <<Zone>>},
     c \in {<<" ">>, <<"config">>}, n \in {<<>>, <<"node">>}, b \in {<<>>, <<"path", " ">>},
     k \in {<<>>, <<"kepware">>}, t \in {<<>>, <<" ", "attribute">>}}

WcsTags ==
  {[Plain EXCEPT !.source = "wcs", !.alias = <<FSC1>>, !.values = SomeValues,
                 !.value_type = type, !.config = d] :
     type \in {"bool", "int", "float", "text"}, d \in {NoText, <<"n", ":", "1", "|", "error">>}}

(* Names. *)
Names ==
  Seqs(Word, 1 .. 4) \cup Seqs(Word \ {BlankSegment}, {5}) \cup
  {<<Zone, Zone>> \o s \o <<<<"Alarm">>, <<"M5035">>>> : s \in Seqs(Word, {2})}
NamedTags ==
  {[Plain EXCEPT !.path = n] : n \in Names} \cup
  {[Plain EXCEPT !.alias = n] : n \in {m \in Names : Len(m) = 5 /\ m[1] = Zone}}

(* Configurations of one node that follow each other.                      *)
Catalogs ==
  LET Row(node, alias, name, fault) == [node |-> node, alias |-> alias, tag |-> name, fault |-> fault]
  IN  {<<>>,
       <<Row(<<"node">>, NoText, <<<<"other">>>>, NoText), Row(NoText, NoText, <<<<"M5035">>>>, <<"jam">>)>>,
       <<Row(NoText, NoText, <<<<"M5035">>>>, <<"jam">>), Row(NoText, <<FSC1>>, <<<<"M5035">>>>, <<"belt">>)>>}
Versions(path) ==
  {[Plain EXCEPT !.path = path, !.alias = a, !.area = r, !.catalog = c, !.routes = t] :
     a \in {<<FSC1>>, <<Zone, FSC1, Zone>>}, r \in {NoText, <<"area">>}, c \in Catalogs,
     t \in {<<>>, FSC1 :> "fsc_log"}}
Reconfigured == {NoText, <<FSC1, Zone, <<"Alarm">>, <<"M5035">>>>}

AllTags == SorterTags \cup SourcedTags \cup WcsTags \cup NamedTags \cup UNION {Versions(p) : p \in Reconfigured}
AllChanges == UNION {Versions(p) \X Versions(p) : p \in Reconfigured}
=============================================================================
