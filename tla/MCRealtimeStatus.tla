-------------------------- MODULE MCRealtimeStatus --------------------------
(***************************************************************************)
(* Instances of RealtimeStatus for TLC: one tag that goes into fault,      *)
(* clears and goes into fault again, and a second tag in another table.    *)
(***************************************************************************)
EXTENDS RealtimeStatus

TwoTables == {1, 2}
Tags      == <<"tag1", "tag1", "tag2", "tag1">>
TagTables == <<1, 1, 2, 1>>
Alarms    == <<TRUE, FALSE, TRUE, TRUE>>

(* One sample a second. *)
Spread == <<1, 2, 3, 4>>

OneOfEach ==
  [kind \in FaultKind |-> IF kind = "buffer" THEN 0 ELSE 1]
OneOutage == [kind \in FaultKind |-> IF kind = "outage" THEN 1 ELSE 0]
=============================================================================
