--------------------------- MODULE TagDescriptions ---------------------------
(***************************************************************************)
(* From a tag's description to the alarm flag and remark of its rows: the  *)
(* OPC UA collector chooses the description from four sources when it sets *)
(* up a subscription (src/opcua_client.rs), and for tags of the sorters    *)
(* FSC1 and FSC2 every value is looked up in the code table the            *)
(* description holds (src/types.rs), as in "name:0|normal;1|error;".       *)
(*                                                                         *)
(* A text is a sequence of characters, with a word that is never split as  *)
(* one of them. ";", ":" and "|" stand for U+FF1B, U+FF1A and U+3001 or    *)
(* their ASCII forms; the empty text stands for a missing one, since no    *)
(* map holds an empty text. The model follows one tag.                     *)
(***************************************************************************)
EXTENDS TagNames

CONSTANT Tags  \* tags, with what is said of them and the values they take

(* A tag's texts and names; a segment of a name has at least one part.  The *)
(* tags of a WCS have no node that a path, the map file or a server could  *)
(* describe (poll_endpoint_inner takes the configured description).        *)
Text == Seq(STRING)
Name == Seq(Seq(STRING) \ {<<>>})

(* What a node may hold, or a field of the WCS's answer.                   *)
Value == [kind : {"bool", "int", "float", "text", "unsupported"}, text : Text]

IsTag(t) ==
  /\ {t.config, t.byNode, t.byPath, t.kepware, t.attribute} \subseteq Text
  /\ {t.path, t.alias} \subseteq Name
  /\ t.values \subseteq Value
  /\ t.source = "wcs" => t.path = <<>> /\ t.byNode = <<>> /\ t.attribute = <<>>

ASSUME TagAssumption == \A t \in Tags : IsTag(t)

VARIABLES
  tag,          \* the tag that is followed
  pc,           \* "kepware", "attribute", "build", "update", "scan", "report"
  failed,       \* the reads that failed: a subset of {"kepware", "attribute"}
  server,       \* what the reads found
  description,  \* what the subscription's callback gives its samples
  value,        \* the value of the data change, or NoValue
  at,           \* where the scan goes on (search_start)
  label,        \* the label it has found, or <<>>
  row           \* what the last data change has written, or NoRow

vars == <<tag, pc, failed, server, description, value, at, label, row>>

Digit     == {"0", "1", "2", "8"}
Delimiter == {"|", ":", ","}         \* is_status_code_delimiter
NonAlarm  == {<<"normal">>, <<"running">>}

NoRow   == [value |-> "none", remark |-> <<>>]
NoValue == [kind |-> "none", text |-> <<>>]

Trim(text, drop) ==
  LET kept == {i \in DOMAIN text : text[i] \notin drop}
  IN  IF kept = {} THEN <<>> ELSE SubSeq(text, Min(kept), Max(kept))
Trimmed(text) == Trim(text, {" "})
Blank(text)   == Trimmed(text) = <<>>

HasTable(t) == TagPrefix(t) \in {<<"FSC1">>, <<"FSC2">>}

(* A WCS tag has no description but the configured one.                    *)
FirstStep(t) == IF t.source = "wcs" THEN "build" ELSE "kepware"

-----------------------------------------------------------------------------
Init ==
  /\ tag \in Tags
  /\ pc = FirstStep(tag)
  /\ failed = {}
  /\ server = <<>> /\ description = <<>>
  /\ value = NoValue
  /\ at = 1 /\ label = <<>>
  /\ row = NoRow

(* read_description_values: a request that fails loses its answers.        *)
Read(source, text) ==
  \/ server' = Trimmed(text) /\ UNCHANGED failed
  \/ UNCHANGED server /\ failed' = failed \cup {source}

(* The _Description property, which only nodes with a string id have.      *)
ReadKepware ==
  /\ pc = "kepware"
  /\ pc' = "attribute"
  /\ IF Blank(tag.config) /\ tag.path # <<>>
     THEN Read("kepware", tag.kepware)
     ELSE UNCHANGED <<server, failed>>
  /\ UNCHANGED <<tag, description, value, at, label, row>>

(* Faulty variant: the nodes that have one are asked too.                   *)
AskEveryNode == Blank(tag.config)

(* The Description attribute of the nodes that have none yet.              *)
AskAttribute == Blank(tag.config) /\ server = <<>>
ReadAttribute ==
  /\ pc = "attribute"
  /\ pc' = "build"
  /\ IF AskAttribute THEN Read("attribute", tag.attribute) ELSE UNCHANGED <<server, failed>>
  /\ UNCHANGED <<tag, description, value, at, label, row>>

(* mapped_description: the map file's entry for the node id, or for the    *)
(* path in it.                                                             *)
Mapped(t) ==
  IF ~Blank(t.byNode) THEN Trimmed(t.byNode)
  ELSE IF t.path # <<>> THEN Trimmed(t.byPath) ELSE <<>>

BuildDescription ==
  /\ pc = "build"
  /\ pc' = "update"
  /\ description' = IF ~Blank(tag.config) THEN tag.config
                    ELSE IF Mapped(tag) # <<>> THEN Mapped(tag) ELSE server
  /\ UNCHANGED <<tag, failed, server, value, at, label, row>>

-----------------------------------------------------------------------------
(* status_code_string, trimmed as its caller does.                         *)
StatusCode(v) ==
  LET text == Trimmed(v.text)
  IN  CASE v.kind \in {"bool", "text"} /\ text = <<"true">>  -> <<"1">>
        [] v.kind \in {"bool", "text"} /\ text = <<"false">> -> <<"0">>
        [] OTHER -> text

(* What tag_value makes of a value that has no label.                      *)
NumericFlag(v) ==
  LET text == Trimmed(v.text)
  IN  IF text = <<"false">> \/ \A i \in DOMAIN text : text[i] = "0" THEN "0" ELSE "1"

(* try_from_variant: numbers, texts, Booleans and bytes.                   *)
Supported(v) == v.kind # "unsupported"

(* extract_value: a field of the WCS's answer must have the type           *)
(* configured for it, and an integer is a number as well.                  *)
Extracts(v, type) == v.kind = type \/ (v.kind = "int" /\ type = "float")

Readable(t, v) == IF t.source = "wcs" THEN Extracts(v, t.value_type) ELSE Supported(v)

(* A data change: from_data_value refuses a value of no supported type.    *)
(* The model follows one change, for changes leave each other alone.       *)
Update ==
  /\ pc = "update"
  /\ value = NoValue
  /\ value' \in {v \in tag.values : Readable(tag, v)}
  /\ at' = 1 /\ label' = <<>>
  /\ pc' = IF HasTable(tag) THEN "scan" ELSE "report"
  /\ UNCHANGED <<tag, failed, server, description, row>>

(* The segment around i ends before the next ";" or at the end.            *)
SegmentEnd(text, i) ==
  LET marks == {j \in i .. Len(text) : text[j] = ";"}
  IN  IF marks = {} THEN Len(text) + 1 ELSE Min(marks)

(* The first position of i .. last whose character is (not) in a set.      *)
Positions(text, i, last, set) == {j \in i .. last : text[j] \in set}
OutsideOf(text, i, last, set) == {j \in i .. last : text[j] \notin set}
FirstOr(set, default) == IF set = {} THEN default ELSE Min(set)

LabelFrom(text, i, end) == Trim(SubSeq(text, i, end - 1), {" ", ",", ";", "."})

NextSegment(end) ==
  IF end > Len(description)
  THEN pc' = "report" /\ UNCHANGED <<at, label>>
  ELSE at' = end + 1 /\ UNCHANGED <<pc, label>>

(* Faulty variant of NoDelimiter: the segment has no code.                  *)
SkipSegment(after, end) == NextSegment(end)

(* After a run of digits that no delimiter follows the scan goes on after  *)
(* the character that follows it.                                          *)
NoDelimiter(after, end) == at' = after + 1 /\ UNCHANGED <<pc, label>>

(* One round of description_label_for_code: the next run of digits of the  *)
(* segment, and what follows it.                                           *)
Scan ==
  LET end    == SegmentEnd(description, at)
      digits == Positions(description, at, end - 1, Digit)
      from   == Min(digits)
      to     == FirstOr(OutsideOf(description, from, end - 1, Digit), end)
      rest   == OutsideOf(description, to, end - 1, {" "})
      after  == Min(rest)
      found  == LabelFrom(description, after + 1, end)
  IN  /\ pc = "scan"
      /\ IF digits = {} \/ rest = {} THEN NextSegment(end)
         ELSE IF description[after] \notin Delimiter THEN NoDelimiter(after, end)
         ELSE IF SubSeq(description, from, to - 1) = StatusCode(value) /\ found # <<>>
         THEN pc' = "report" /\ label' = found /\ UNCHANGED at
         ELSE at' = after + 1 /\ UNCHANGED <<pc, label>>
      /\ UNCHANGED <<tag, failed, server, description, value, row>>

(* description_status_prefix: what comes before the first ":", if any.     *)
StatusPrefix(text) ==
  LET colons == Positions(text, 1, Len(text), {":"})
  IN  IF colons = {} THEN <<>> ELSE Trimmed(SubSeq(text, 1, Min(colons) - 1))

(* A tag without a description shows its name.                             *)
Shown(text) == IF Blank(text) THEN <<"name">> ELSE text

(* alarm_log_remark and tag_value.                                         *)
Report ==
  LET shown == Shown(description)
  IN  /\ pc = "report"
      /\ pc' = "update"
      /\ row' =
           [value  |-> IF label = <<>> THEN NumericFlag(value)
                       ELSE IF label \in NonAlarm THEN "0" ELSE "1",
            remark |-> IF label # <<>> /\ StatusPrefix(shown) # <<>>
                       THEN StatusPrefix(shown) \o label ELSE shown]
      /\ UNCHANGED <<tag, failed, server, description, value, at, label>>

Next ==
  \/ ReadKepware \/ ReadAttribute \/ BuildDescription
  \/ Update \/ Scan \/ Report

Spec == Init /\ [][Next]_vars

-----------------------------------------------------------------------------
(* Where a description in the documented form, name:code|label;code|label, *)
(* lists a code: after its first ":" or a later ";".                       *)
FirstColon(text) == Min(Positions(text, 1, Len(text), {":"}))
ListStarts(text) ==
  {i + 1 : i \in {FirstColon(text)} \cup Positions(text, FirstColon(text), Len(text), {";"})}

Lists(text, i, code) ==
  /\ i + Len(code) <= Len(text)
  /\ SubSeq(text, i, i + Len(code)) = Append(code, "|")
Labels(text, code) ==
  {LabelFrom(text, i + Len(code) + 1, SegmentEnd(text, i)) :
     i \in {j \in ListStarts(text) : Lists(text, j, code)}}

(* No digit of the positions i .. end - 1 can be taken for one of a code:  *)
(* the next character before end, if there is one, is no delimiter.        *)
Codeless(text, i, end) ==
  \A d \in Positions(text, i, end - 1, Digit) :
    LET next == OutsideOf(text, d + 1, end - 1, {" "})
    IN  next = {} \/ text[Min(next)] \notin Delimiter

(* The scan takes any number before a delimiter for a code, also one of the *)
(* name, as in "BC-1.0.0:0|normal": a name is safe when it has none.       *)
SafeName(text) ==
  StatusPrefix(text) # <<>> /\ Codeless(text, 1, FirstColon(text) + 1)

(* An entry of the list: the digits of a code, a bar and a label, in which *)
(* no number is taken for a code.                                          *)
IsEntry(text, i, bar) ==
  /\ \A j \in i .. bar - 1 : text[j] \in Digit
  /\ text[bar] = "|"
  /\ Codeless(text, bar + 1, SegmentEnd(text, i))
  /\ LabelFrom(text, bar + 1, SegmentEnd(text, i)) # <<>>
InListForm(text) ==
  \A i \in ListStarts(text) :
    i = SegmentEnd(text, i) \/ \E bar \in i + 1 .. SegmentEnd(text, i) - 1 : IsEntry(text, i, bar)

(* A value that is not itself a piece of a list.                           *)
Unmarked(code) == \A i \in DOMAIN code : code[i] \notin {"|", ";"}

IsTable(text, code) == SafeName(text) /\ InListForm(text) /\ Unmarked(code)

(* A row of a sorter's tag shows the meaning its description's table gives *)
(* the value, in the flag and in the remark; a value that the table does   *)
(* not list is judged as a number (README.md:75, :77). Digits in the name  *)
(* and in labels, codes that begin or end like others, empty entries and a *)
(* missing last ";" do not mislead description_label_for_code.             *)
ReportsTheTable ==
  row # NoRow /\ HasTable(tag) /\ IsTable(description, StatusCode(value)) =>
    LET listed == Labels(description, StatusCode(value))
    IN  IF listed = {}
        THEN row = [value |-> NumericFlag(value), remark |-> description]
        ELSE \E l \in listed :
               row = [value  |-> IF l \in NonAlarm THEN "0" ELSE "1",
                      remark |-> StatusPrefix(description) \o l]

(* A tag is described by the first of its sources that says anything, in   *)
(* the order README.md:90 gives; a read that fails leaves the later        *)
(* sources in force and never puts a lower one before a higher             *)
(* (build_description_map, read_server_description_map).                   *)
Sources ==
  <<tag.config, tag.byNode,
    IF tag.path = <<>> THEN <<>> ELSE tag.byPath,
    IF tag.path = <<>> \/ "kepware" \in failed THEN <<>> ELSE tag.kepware,
    IF "attribute" \in failed THEN <<>> ELSE tag.attribute>>
DescribedByFirstSource ==
  pc \in {"update", "scan", "report"} =>
    LET told == {i \in DOMAIN Sources : ~Blank(Sources[i])}
    IN  Trimmed(description) = IF told = {} THEN <<>> ELSE Trimmed(Sources[Min(told)])
=============================================================================
