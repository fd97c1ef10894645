------------------------------ MODULE TagNames ------------------------------
(***************************************************************************)
(* A tag's name and what is read from it (src/types.rs): the name is the   *)
(* path in a string node id or else the alias, and the alarm rows' columns *)
(* come from its segments where the configuration does not have to help    *)
(* out.                                                                    *)
(*                                                                         *)
(* A name is the sequence of its segments, which dots separate; a segment  *)
(* is the sequence of its parts, which hyphens separate. A word is always  *)
(* written in the same case; <<>> stands for a missing text.               *)
(***************************************************************************)
EXTENDS Naturals, Sequences, FiniteSetsExt

BlankSegment == <<"">>

(* opcua_string_node_id and tag_name; a node id without a path has <<>>.   *)
TagName(t) == IF t.path # <<>> THEN t.path ELSE t.alias

(* tag_prefix; no table is routed by a blank one.                          *)
TagPrefix(t) == Head(TagName(t))

(* The segments that are not blank. *)
Segments(name) ==
  LET kept[i \in 0 .. Len(name)] ==
        IF i = 0 THEN <<>>
        ELSE IF name[i] = BlankSegment THEN kept[i - 1] ELSE Append(kept[i - 1], name[i])
  IN  kept[Len(name)]

(* device_id_from_equipment: the second part, if there is one.             *)
DeviceId(segment) ==
  IF Len(segment) > 1 /\ segment[2] # "" THEN <<segment[2]>> ELSE segment

(* equipment_device                                                        *)
Equipment(levels) ==
  CASE levels = <<>>     -> [device |-> <<>>, device_id |-> <<>>]
    [] Len(levels) = 1   -> [device |-> levels[1], device_id |-> DeviceId(levels[1])]
    [] OTHER             -> [device |-> levels[1], device_id |-> levels[Len(levels)]]

(* join_segments                                                           *)
Joined(segments, fallback) == IF segments = <<>> THEN fallback ELSE segments

(* Faulty variant of Levels: the range is taken to exclude its last index. *)
LevelsShort(segments, alarm) == SubSeq(segments, 3, alarm - 2)

(* The levels between the first two segments and Alarm.                    *)
Levels(segments, alarm) == SubSeq(segments, 3, alarm - 1)

(* parse_alarm_log_fields                                                  *)
ParsedFields(name) ==
  LET s      == Segments(name)
      alarms == {i \in DOMAIN s : s[i] = <<"Alarm">>}
      Fields(equipment, tag) ==
        [location  |-> IF s = <<>> THEN <<>> ELSE s[1],
         device    |-> equipment.device,
         device_id |-> equipment.device_id,
         tag       |-> tag]
      From(i) == Joined(SubSeq(s, i, Len(s)), name)
  IN  IF alarms # {}
      THEN Fields(Equipment(Levels(s, Min(alarms))), From(Min(alarms) + 1))
      ELSE IF Len(s) >= 4 /\ s[3] = <<"Iscs">> THEN Fields(Equipment(<<s[4]>>), From(3))
      ELSE IF Len(s) >= 3 THEN Fields(Equipment(<<s[3]>>), From(3))
      ELSE LET device == IF Len(s) = 2 THEN s[2] ELSE <<>>
           IN  Fields([device |-> device, device_id |-> device], name)

(* first_non_empty                                                         *)
FirstNonEmpty(texts) ==
  LET told == {i \in DOMAIN texts : texts[i] # <<>>}
  IN  IF told = {} THEN <<>> ELSE texts[Min(told)]
=============================================================================
