---------------------------- MODULE SinkDelivery ----------------------------
(***************************************************************************)
(* What the bridge promises about each sample it is offered, leaving out   *)
(* channels, batches, tables and retries (README.md:3, README.md:245-247): *)
(* a sample the channel takes is held in memory until it is on disk in the *)
(* buffer or in MySQL; memory may be lost, the buffer may not, and a       *)
(* stored sample stays stored.                                             *)
(***************************************************************************)
CONSTANT Sample

VARIABLE status

Status == {"offered", "refused", "memory", "buffered", "stored", "lost"}

(* The moves one step may make with a sample. *)
Promised ==
  {<<"offered", "memory">>, <<"offered", "refused">>,
   <<"memory", "buffered">>, <<"memory", "stored">>, <<"memory", "lost">>,
   <<"buffered", "stored">>}

Init == status = [s \in Sample |-> "offered"]

(* A step may move several samples: an INSERT stores a whole batch, and a  *)
(* crash loses part of the memory and keeps part of it in the buffer.      *)
Next ==
  /\ status' \in [Sample -> Status]
  /\ \A s \in Sample :
       status'[s] # status[s] => <<status[s], status'[s]>> \in Promised

Spec == Init /\ [][Next]_status
=============================================================================
