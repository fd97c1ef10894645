---------------------------- MODULE MCSinkWorker ----------------------------
(***************************************************************************)
(* Instances of SinkWorker for TLC: routing of the samples to two tables,  *)
(* budgets of faults, and samples MySQL refuses.                           *)
(***************************************************************************)
EXTENDS SinkWorker

TwoTables == {1, 2}

(* A batch of two may go to one table or to both. *)
Mixed == [s \in 1 .. NSamples |-> IF s \in {2, 3} THEN 1 ELSE 2]

Budget(outage, ambiguous, upsert, buffer, restart) ==
  [kind \in FaultKind |->
     CASE kind = "outage"    -> outage
       [] kind = "ambiguous" -> ambiguous
       [] kind = "upsert"    -> upsert
       [] kind = "buffer"    -> buffer
       [] kind = "restart"   -> restart]

OneOfEach    == Budget(1, 1, 1, 1, 1)
NoCrash      == Budget(1, 1, 1, 1, 0)
=============================================================================
