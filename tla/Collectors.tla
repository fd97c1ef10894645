----------------------------- MODULE Collectors -----------------------------
(***************************************************************************)
(* The two collectors (src/opcua_client.rs, src/wcs_client.rs): the OPC UA *)
(* collector connects a session, creates its subscriptions one after       *)
(* another and then waits for the session's end or the shutdown; the WCS   *)
(* poller asks one endpoint after another at every tick of an interval.    *)
(*                                                                         *)
(* A session's event loop is a task of its own, which the OPC UA library   *)
(* runs: it connects, reconnects and gives up by itself, and it goes on    *)
(* when the collector drops its handle.  What an event loop reports goes   *)
(* through try_send into the channel, which is SinkWorker's Offer.         *)
(*                                                                         *)
(* Every receiver of the watch channel is a clone of one that has never    *)
(* seen the signal, so changed() is ready from the signal on.              *)
(***************************************************************************)
EXTENDS Integers, Sequences, FiniteSets

CONSTANTS
  RetryLimits,  (* values of opcua.session_retry_limit                       *)
  NSubs,        (* subscriptions                                             *)
  NBatches,     (* batches of monitored items in each of them                *)
  NItems,       (* items in a batch                                          *)
  MaxSessions,  (* sessions the server accepts (bounds the model)            *)
  MaxFailures,  (* lost connections and failing requests (bounds the model)  *)
  NEndpoints,   (* WCS endpoints                                             *)
  MaxTicks      (* ticks that may be missed at once (bounds the model)       *)

ASSUME CollectorsAssumption ==
  /\ RetryLimits \subseteq Int
  /\ NSubs \in Nat \ {0} /\ NBatches \in Nat \ {0} /\ NItems \in Nat \ {0}
  /\ NEndpoints \in Nat \ {0}
  /\ MaxSessions \in Nat /\ MaxFailures \in Nat /\ MaxTicks \in Nat

VARIABLES
  limit,     (* opcua.session_retry_limit                                    *)
  shutdown,  (* the watch value                                              *)
  opc,       (* where run_opcua_client is                                    *)
  sub,       (* the subscription being created                               *)
  batch,     (* the batch of its items being created                         *)
  loops,     (* the event loops spawned so far, the last one's session being *)
             (* the collector's: their state, their number of subscriptions, *)
             (* the items they monitor and those the server has refused      *)
  wcs,       (* where run_wcs_client is                                      *)
  asked,     (* endpoints asked in the round, the last or the current one    *)
  ticks,     (* ticks of the interval that are due                           *)
  failures   (* failures so far                                              *)

opcVars == <<opc, sub, batch, loops>>
wcsVars == <<wcs, asked, ticks>>
vars == <<limit, shutdown, opcVars, wcsVars, failures>>

Items       == (1 .. NSubs) \X (1 .. NBatches) \X (1 .. NItems)
Batch(s, b) == {i \in Items : i[1] = s /\ i[2] = b}

NewLoop == [state |-> "connecting", subs |-> 0, items |-> {}, refused |-> {}]
Current == loops[Len(loops)]

Failure ==
  /\ failures < MaxFailures
  /\ failures' = failures + 1

Init ==
  /\ limit \in RetryLimits
  /\ shutdown = FALSE
  /\ opc = "check"
  /\ sub = 1 /\ batch = 1
  /\ loops = <<>>
  /\ wcs = "check"
  /\ asked = 0
  /\ ticks = 0
  /\ failures = 0

(* main sends the shutdown signal. *)
Signal ==
  /\ ~ shutdown
  /\ shutdown' = TRUE
  /\ UNCHANGED <<limit, opcVars, wcsVars, failures>>
-----------------------------------------------------------------------------
(* run_opcua_client and connect_and_subscribe. *)

Check ==
  /\ opc = "check"
  /\ opc' = IF shutdown THEN "ok" ELSE "connect"
  /\ UNCHANGED <<limit, shutdown, sub, batch, loops, wcsVars, failures>>

(* Faulty variant of Failed: the retries of the library's event loop are   *)
(* taken for all there are.                                                *)
FailedForGood == opc' = IF limit >= 0 THEN "err" ELSE "sleep"

(* connect_and_subscribe returns an error: retry, unless the limit is 0. *)
Failed == opc' = IF limit = 0 THEN "err" ELSE "sleep"

(* The session is built, to the discovered endpoint or the configured one, *)
(* and its event loop spawned; or it cannot be built.                      *)
Connect ==
  /\ opc = "connect"
  /\ \/ /\ Len(loops) < MaxSessions
        /\ loops' = Append(loops, NewLoop)
        /\ opc' = "wait"
     \/ Failed /\ UNCHANGED loops
  /\ UNCHANGED <<limit, shutdown, sub, batch, wcsVars, failures>>

(* wait_for_connection returns, and the description map is loaded. *)
Connected ==
  /\ opc = "wait"
  /\ Current.state = "connected"
  /\ opc' = "subscribe"
  /\ sub' = 1
  /\ UNCHANGED <<limit, shutdown, batch, loops, wcsVars, failures>>

DescriptionMapError ==
  /\ opc = "wait"
  /\ Current.state = "connected"
  /\ Failed
  /\ UNCHANGED <<limit, shutdown, sub, batch, loops, wcsVars, failures>>

(* From here on the callback of the session holds a sender.                *)
CreateSubscription ==
  /\ opc = "subscribe"
  /\ Current.state = "connected"
  /\ loops' = [loops EXCEPT ![Len(loops)].subs = sub]
  /\ opc' = "items"
  /\ batch' = 1
  /\ UNCHANGED <<limit, shutdown, sub, wcsVars, failures>>

(* The memory for the first batch cannot be reserved.                      *)
SetupPanics ==
  /\ opc = "items"
  /\ batch = 1
  /\ opc' = "panicked"
  /\ UNCHANGED <<limit, shutdown, sub, batch, loops, wcsVars, failures>>

NextBatch ==
  IF batch < NBatches
  THEN batch' = batch + 1 /\ UNCHANGED <<opc, sub>>
  ELSE IF sub < NSubs
       THEN sub' = sub + 1 /\ opc' = "subscribe" /\ UNCHANGED batch
       ELSE opc' = "run" /\ UNCHANGED <<sub, batch>>

(* The server answers for the items sent, of which it refuses some: a bad  *)
(* status of an item is no error of the request, and nobody looks at it.   *)
Answer(sent, refused) ==
  /\ refused # {} => Failure
  /\ refused = {} => UNCHANGED failures
  /\ loops' = [loops EXCEPT ![Len(loops)].items = @ \cup (sent \ refused),
                            ![Len(loops)].refused = @ \cup refused]

(* Faulty variant of CreateItems: the batch that is left over at the end   *)
(* is not sent.                                                            *)
CreateFullItems ==
  /\ opc = "items"
  /\ Current.state = "connected"
  /\ LET sent == IF batch < NBatches THEN Batch(sub, batch) ELSE {}
     IN  \E refused \in SUBSET sent : Answer(sent, refused)
  /\ NextBatch
  /\ UNCHANGED <<limit, shutdown, wcsVars>>

CreateItems ==
  /\ opc = "items"
  /\ Current.state = "connected"
  /\ \E refused \in SUBSET Batch(sub, batch) : Answer(Batch(sub, batch), refused)
  /\ NextBatch
  /\ UNCHANGED <<limit, shutdown, wcsVars>>

(* A request fails, always so without a connection, or a node id does not  *)
(* parse.  The handle of the event loop is dropped.                        *)
SetupError ==
  /\ opc \in {"subscribe", "items"}
  /\ IF Current.state = "connected" THEN Failure ELSE UNCHANGED failures
  /\ Failed
  /\ UNCHANGED <<limit, shutdown, sub, batch, loops, wcsVars>>

(* Faulty variant of LoopEnded: a lost connection is taken for the end of  *)
(* the session.                                                            *)
LoopLost ==
  /\ opc = "run"
  /\ Current.state # "connected"
  /\ IF Current.state = "closed" THEN opc' = "ok" ELSE Failed
  /\ UNCHANGED <<limit, shutdown, sub, batch, loops, wcsVars, failures>>

(* The event loop has ended: with a good status the collector has too. *)
LoopEnded ==
  /\ opc = "run"
  /\ Current.state \in {"closed", "stopped"}
  /\ IF Current.state = "closed" THEN opc' = "ok" ELSE Failed
  /\ UNCHANGED <<limit, shutdown, sub, batch, loops, wcsVars, failures>>

(* The shutdown branch of connect_and_subscribe; whether the session could *)
(* be disconnected is not looked at.                                       *)
OpcShutdown ==
  /\ opc = "run"
  /\ shutdown
  /\ \/ loops' = [loops EXCEPT ![Len(loops)].state = "closed"]
     \/ UNCHANGED loops
  /\ opc' = "ok"
  /\ UNCHANGED <<limit, shutdown, sub, batch, wcsVars, failures>>

(* Faulty variant of Sleep: only the end of the sleep is waited for, and   *)
(* the signal is not looked at before the next session.                    *)
SleepOnly ==
  /\ opc = "sleep"
  /\ opc' = "connect"
  /\ UNCHANGED <<limit, shutdown, sub, batch, loops, wcsVars, failures>>

(* The five seconds before a retry, which the shutdown cuts short. *)
Sleep ==
  /\ opc = "sleep"
  /\ opc' \in {"check"} \cup (IF shutdown THEN {"ok"} ELSE {})
  /\ UNCHANGED <<limit, shutdown, sub, batch, loops, wcsVars, failures>>

OpcStep ==
  \/ Check \/ Connect \/ Connected \/ DescriptionMapError \/ CreateSubscription
  \/ CreateItems \/ SetupError \/ LoopEnded \/ OpcShutdown \/ Sleep
-----------------------------------------------------------------------------
(* The event loops. *)

Becomes(i, from, to) ==
  /\ loops[i].state = from
  /\ loops' = [loops EXCEPT ![i].state = to]

(* A session connects, or connects again with its subscriptions. *)
Establish(i) ==
  /\ Becomes(i, "connecting", "connected")
  /\ UNCHANGED <<limit, shutdown, opc, sub, batch, wcsVars, failures>>

Lose(i) ==
  /\ Becomes(i, "connected", "connecting")
  /\ Failure
  /\ UNCHANGED <<limit, shutdown, opc, sub, batch, wcsVars>>

(* With a retry limit the event loop ends when it has used up its retries. *)
GiveUp(i) ==
  /\ limit >= 0
  /\ Becomes(i, "connecting", "stopped")
  /\ UNCHANGED <<limit, shutdown, opc, sub, batch, wcsVars, failures>>

(* An event loop may end with a good status. *)
Close(i) ==
  /\ Becomes(i, "connected", "closed")
  /\ Failure
  /\ UNCHANGED <<limit, shutdown, opc, sub, batch, wcsVars>>

(* wait_for_connection may return without a connection when the event loop *)
(* has ended; then the description map or the next request fails.          *)
WaitEnds ==
  /\ opc = "wait"
  /\ Current.state \in {"stopped", "closed"}
  /\ \/ opc' = "subscribe" /\ sub' = 1
     \/ Failed /\ UNCHANGED sub
  /\ UNCHANGED <<limit, shutdown, batch, loops, wcsVars, failures>>

LoopStep == \E i \in DOMAIN loops : Establish(i) \/ Lose(i) \/ GiveUp(i) \/ Close(i)
-----------------------------------------------------------------------------
(* run_wcs_client and poll_loop. *)

WcsCheck ==
  /\ wcs = "check"
  /\ wcs' = IF shutdown THEN "ended" ELSE "build"
  /\ UNCHANGED <<limit, shutdown, opcVars, asked, ticks, failures>>

(* The HTTP client is built, and the interval's first tick is due. *)
BuildClient ==
  /\ wcs = "build"
  /\ \/ wcs' = "select" /\ ticks' = 1
     \/ wcs' = "sleep" /\ UNCHANGED ticks
  /\ UNCHANGED <<limit, shutdown, opcVars, asked, failures>>

(* retry_interval_ms before the next attempt, which the shutdown cuts short. *)
WcsSleep ==
  /\ wcs = "sleep"
  /\ wcs' \in {"check"} \cup (IF shutdown THEN {"ended"} ELSE {})
  /\ UNCHANGED <<limit, shutdown, opcVars, asked, ticks, failures>>

(* The interval goes on while a round lasts; a missed tick is made up for. *)
TickDue ==
  /\ wcs \in {"select", "poll"}
  /\ ticks < MaxTicks
  /\ ticks' = ticks + 1
  /\ UNCHANGED <<limit, shutdown, opcVars, wcs, asked, failures>>

StartRound ==
  /\ wcs = "select"
  /\ ticks > 0
  /\ ticks' = ticks - 1
  /\ wcs' = "poll"
  /\ asked' = 0
  /\ UNCHANGED <<limit, shutdown, opcVars, failures>>

(* The next endpoint has been asked. *)
Asked ==
  /\ asked' = asked + 1
  /\ wcs' = IF asked + 1 < NEndpoints THEN "poll" ELSE "select"

(* Faulty variant of PollEndpoint: an error ends the poll loop. *)
PollUntilError ==
  /\ wcs = "poll"
  /\ \/ Asked
     \/ wcs' = "sleep" /\ UNCHANGED asked
  /\ UNCHANGED <<limit, shutdown, opcVars, ticks, failures>>

(* The answer to one endpoint's request, or its error or timeout, after    *)
(* which the next one is asked just the same.                              *)
PollEndpoint ==
  /\ wcs = "poll"
  /\ Asked
  /\ UNCHANGED <<limit, shutdown, opcVars, ticks, failures>>

WcsShutdown ==
  /\ wcs = "select"
  /\ shutdown
  /\ wcs' = "ended"
  /\ UNCHANGED <<limit, shutdown, opcVars, asked, ticks, failures>>

WcsStep == WcsCheck \/ BuildClient \/ WcsSleep \/ PollEndpoint
-----------------------------------------------------------------------------
Next ==
  \/ Signal
  \/ OpcStep \/ SetupPanics \/ WaitEnds \/ LoopStep
  \/ WcsStep \/ TickDue \/ StartRound \/ WcsShutdown

Spec == Init /\ [][Next]_vars
-----------------------------------------------------------------------------
Loop ==
  [state : {"connecting", "connected", "stopped", "closed"}, subs : 0 .. NSubs,
   items : SUBSET Items, refused : SUBSET Items]

(* The values the variables take: a collector waits for, subscribes with   *)
(* and runs on an event loop that it has spawned.                          *)
CollectorsTypeOK ==
  /\ limit \in RetryLimits
  /\ shutdown \in BOOLEAN
  /\ opc \in {"check", "connect", "wait", "subscribe", "items", "run", "sleep",
              "ok", "err", "panicked"}
  /\ sub \in 1 .. NSubs /\ batch \in 1 .. NBatches
  /\ loops \in Seq(Loop)
  /\ opc \in {"wait", "subscribe", "items", "run"} => loops # <<>>
  /\ wcs \in {"check", "build", "select", "poll", "sleep", "ended"}
  /\ asked \in 0 .. NEndpoints /\ (wcs = "poll" => asked < NEndpoints)
  /\ ticks \in Nat
  /\ failures \in Nat

Live(l)     == l.state \in {"connecting", "connected"}
Complete(l) == l.items \cup l.refused = Items

(* The collector settles down to wait for the end of a session only when   *)
(* that session monitors every item of every batch of every subscription   *)
(* but those that the server has refused to it, one by one, in answers     *)
(* that succeeded (connect_and_subscribe, create_subscription): no         *)
(* interruption, however often the set-up was begun, leaves out any other, *)
(* and none is left out for a refusal in an earlier session.               *)
MonitorsAllButRefused == opc = "run" => Current.items = Items \ Current.refused

(* A failed set-up leaves its event loop running beside the sessions that  *)
(* come after it, and what it monitors is reported twice; but never all of *)
(* it: a session whose set-up was completed is not left for another one    *)
(* while it lives (run_opcua_client, connect_and_subscribe).               *)
OneCompleteSession == \A i \in 1 .. Len(loops) - 1 : ~ (Live(loops[i]) /\ Complete(loops[i]))

(* A round of the poller asks every endpoint, those after a failing one    *)
(* too, before the poller waits again (poll_loop).                         *)
RoundsAreWhole == wcs = "select" => asked \in {0, NEndpoints}

(* What has been sent for the session being set up.                        *)
SentSoFar ==
  CASE opc = "wait"      -> {}
    [] opc = "subscribe" -> {i \in Items : i[1] < sub}
    [] opc = "items"     -> {i \in Items : i[1] < sub \/ (i[1] = sub /\ i[2] < batch)}
    [] opc = "run"       -> Items

(* The inductive invariant behind these three. *)
CollectorsInv ==
  /\ CollectorsTypeOK
  /\ opc \in {"wait", "subscribe", "items", "run"} =>
       /\ Current.refused \subseteq SentSoFar
       /\ Current.items = SentSoFar \ Current.refused
  /\ \A i \in DOMAIN loops :
       Live(loops[i]) /\ Complete(loops[i]) => i = Len(loops) /\ opc \in {"run", "ok"}
  /\ wcs # "poll" => asked \in {0, NEndpoints}

(* Nothing but the signal ends the poller, and nothing else the OPC UA     *)
(* collector but a retry limit of 0, the good end of a session whose       *)
(* set-up was complete, or a panic: neither a lost connection nor a        *)
(* session that ended while the next was being set up leaves the tags      *)
(* unwatched for good (run_opcua_client, connect_and_subscribe,            *)
(* run_wcs_client).                                                        *)
EndsForAReason ==
  /\ opc = "err" => limit = 0
  /\ ~ shutdown =>
       /\ wcs # "ended"
       /\ opc = "ok" => loops # <<>> /\ Current.state = "closed" /\ Complete(Current)
=============================================================================
