------------------------------ MODULE WcsInbox ------------------------------
(***************************************************************************)
(* The WCS alarm inbox (migrations 202605180003, 202605180004 and          *)
(* 202605200001): WCS hands in events through sp_write_wcs_alarm_event or   *)
(* by writing the inbox table, a MySQL event runs                          *)
(* sp_process_wcs_alarm_inbox every minute, and both process an event with *)
(* sp_process_wcs_alarm_event: claim it, insert its history row, upsert    *)
(* its realtime row, mark it.  Nothing opens a transaction, so every       *)
(* statement commits by itself and the sessions interleave between         *)
(* statements; a run of the event may also overlap with the one before.    *)
(*                                                                         *)
(* Events are numbered in the order their inbox rows are created, which is *)
(* the order of the ids.  Each event has a source_event_id.                *)
(***************************************************************************)
EXTENDS RealtimeRow, FiniteSets

CONSTANTS
  Session,      (* MySQL sessions: WCS clients and runs of the event         *)
  NEvents,      (* number of events (bounds the model)                       *)
  PointOf,      (* the realtime row of each event: its node_id               *)
  TimeOf,       (* COALESCE(fault_at, received_at) of each event             *)
  ActiveOf,     (* whether tag_value of each event is a fault                *)
  Mappable,     (* events whose device maps to a history table               *)
  BatchSize,    (* LIMIT of sp_process_wcs_alarm_inbox                       *)
  MaxAttempts,  (* its bound on process_attempts                             *)
  MaxSubmits,   (* calls of sp_write_wcs_alarm_event (bounds the model)      *)
  MaxFaults     (* how often each kind of fault may happen (bounds the model)*)

InboxFault == {"statement", "claim", "crash"}

Event == 1 .. NEvents
Point == {PointOf[e] : e \in Event}

ASSUME InboxAssumption ==
  /\ IsFiniteSet(Session)
  /\ NEvents \in Nat
  /\ DOMAIN PointOf = Event
  /\ TimeOf \in [Event -> Nat \ {0}]
  /\ ActiveOf \in [Event -> BOOLEAN]
  /\ Mappable \subseteq Event
  /\ BatchSize \in Nat \ {0}
  /\ MaxAttempts \in Nat
  /\ MaxSubmits \in Nat
  /\ MaxFaults \in [InboxFault -> Nat]

VARIABLES
  status,    (* process_status of each inbox row, "absent" before it exists *)
  attempts,  (* process_attempts                                            *)
  pc,        (* the statement each session executes next                    *)
  job,       (* the event it works on (p_inbox_id)                          *)
  ids,       (* rest of tmp_wcs_alarm_event_ids                             *)
  history,   (* history rows with the event's source_event_id               *)
  realtime,  (* device_realtime_status                                      *)
  submits,   (* calls of sp_write_wcs_alarm_event so far                    *)
  faults     (* faults of each kind so far                                  *)

inboxVars == <<status, attempts>>
sessionVars == <<pc, job, ids>>
tableVars == <<history, realtime>>
vars == <<inboxVars, sessionVars, tableVars, submits, faults>>

Arrived == {e \in Event : status[e] # "absent"}

(* The statements between claim and mark. *)
Working == {"history", "realtime", "mark"}

Goto(p, label) == pc' = [pc EXCEPT ![p] = label]

Fault(kind) ==
  /\ faults[kind] < MaxFaults[kind]
  /\ faults' = [faults EXCEPT ![kind] = @ + 1]

(* A new inbox row takes the next id. *)
IsNext(e) == e \notin Arrived /\ \A d \in 1 .. e - 1 : d \in Arrived

Init ==
  /\ status = [e \in Event |-> "absent"]
  /\ attempts = [e \in Event |-> 0]
  /\ pc = [p \in Session |-> "free"]
  /\ job = [p \in Session |-> 0]
  /\ ids = [p \in Session |-> {}]
  /\ history = [e \in Event |-> 0]
  /\ realtime = [n \in Point |-> Absent]
  /\ submits = 0
  /\ faults = [kind \in InboxFault |-> 0]
-----------------------------------------------------------------------------
(* WCS writes the inbox table itself. *)
DirectWrite(e) ==
  /\ IsNext(e)
  /\ status' = [status EXCEPT ![e] = "pending"]
  /\ UNCHANGED <<attempts, sessionVars, tableVars, submits, faults>>

(* sp_write_wcs_alarm_event: a known source_event_id finds the row it has  *)
(* and leaves it as it is; either way the event is processed at once.      *)
Submit(p, e) ==
  /\ pc[p] = "free"
  /\ submits < MaxSubmits
  /\ e \in Arrived \/ IsNext(e)
  /\ status' = IF e \in Arrived THEN status
               ELSE [status EXCEPT ![e] = "pending"]
  /\ job' = [job EXCEPT ![p] = e]
  /\ Goto(p, "claim")
  /\ submits' = submits + 1
  /\ UNCHANGED <<attempts, ids, tableVars, faults>>

(* Faulty variant of Ready: failed rows are not tried again. *)
ReadyPending == {e \in Event : status[e] = "pending" /\ attempts[e] < MaxAttempts}

Ready ==
  {e \in Event : status[e] \in {"pending", "failed"} /\ attempts[e] < MaxAttempts}

(* sp_process_wcs_alarm_inbox takes the ids of a batch once. *)
StartBatch(p) ==
  /\ pc[p] = "free"
  /\ Ready # {}
  /\ ids' = [ids EXCEPT ![p] =
               {e \in Ready : Cardinality({d \in Ready : d < e}) < BatchSize}]
  /\ Goto(p, "fetch")
  /\ UNCHANGED <<inboxVars, job, tableVars, submits, faults>>

(* FETCH cur, or the end of the loop; a call from sp_write comes back here  *)
(* too and finds nothing left to do.                                       *)
Fetch(p) ==
  /\ pc[p] = "fetch"
  /\ IF ids[p] = {}
     THEN Goto(p, "free") /\ UNCHANGED <<job, ids>>
     ELSE \E e \in ids[p] :
            /\ \A d \in ids[p] : e <= d
            /\ job' = [job EXCEPT ![p] = e]
            /\ ids' = [ids EXCEPT ![p] = @ \ {e}]
            /\ Goto(p, "claim")
  /\ UNCHANGED <<inboxVars, tableVars, submits, faults>>
-----------------------------------------------------------------------------
(* sp_process_wcs_alarm_event, one statement per step. *)

(* Faulty variants of Claim: the status is not looked at; an event that is  *)
(* processed already is claimed again; the realtime row comes before the   *)
(* history row.                                                            *)
ClaimAny(p) ==
  /\ pc[p] = "claim"
  /\ status' = [status EXCEPT ![job[p]] = "processing"]
  /\ attempts' = [attempts EXCEPT ![job[p]] = @ + 1]
  /\ Goto(p, "history")
  /\ UNCHANGED <<job, ids, tableVars, submits, faults>>

ClaimProcessed(p) ==
  /\ pc[p] = "claim"
  /\ IF status[job[p]] # "processing"
     THEN /\ status' = [status EXCEPT ![job[p]] = "processing"]
          /\ attempts' = [attempts EXCEPT ![job[p]] = @ + 1]
          /\ Goto(p, "history")
     ELSE Goto(p, "fetch") /\ UNCHANGED inboxVars
  /\ UNCHANGED <<job, ids, tableVars, submits, faults>>

ClaimForRealtime(p) ==
  /\ pc[p] = "claim"
  /\ IF status[job[p]] \in {"pending", "failed"}
     THEN /\ status' = [status EXCEPT ![job[p]] = "processing"]
          /\ attempts' = [attempts EXCEPT ![job[p]] = @ + 1]
          /\ Goto(p, "realtime")
     ELSE Goto(p, "fetch") /\ UNCHANGED inboxVars
  /\ UNCHANGED <<job, ids, tableVars, submits, faults>>

Claim(p) ==
  /\ pc[p] = "claim"
  /\ IF status[job[p]] \in {"pending", "failed"}
     THEN /\ status' = [status EXCEPT ![job[p]] = "processing"]
          /\ attempts' = [attempts EXCEPT ![job[p]] = @ + 1]
          /\ Goto(p, "history")
     ELSE Goto(p, "fetch") /\ UNCHANGED inboxVars
  /\ UNCHANGED <<job, ids, tableVars, submits, faults>>

(* The catalogs give no history table: SIGNAL, or PREPARE of NULL. *)
MapError(p) ==
  /\ pc[p] = "history"
  /\ job[p] \notin Mappable
  /\ Goto(p, "fail")
  /\ UNCHANGED <<inboxVars, job, ids, tableVars, submits, faults>>

InsertHistory(p) ==
  /\ pc[p] = "history"
  /\ job[p] \in Mappable
  /\ history' = [history EXCEPT ![job[p]] = @ + 1]
  /\ Goto(p, "realtime")
  /\ UNCHANGED <<inboxVars, job, ids, realtime, submits, faults>>

(* Unlike the sink's upsert, this one does not compare the times. *)
WcsUpsert(row, at, alarm) ==
  IF row.exists
  THEN Replaced(row, at, alarm, Begins(row.alarm, alarm))
  ELSE Inserted(at, alarm)

UpsertRealtime(p) ==
  /\ pc[p] = "realtime"
  /\ realtime' = [realtime EXCEPT ![PointOf[job[p]]] =
                    WcsUpsert(@, TimeOf[job[p]], ActiveOf[job[p]])]
  /\ Goto(p, "mark")
  /\ UNCHANGED <<inboxVars, job, ids, history, submits, faults>>

(* Faulty variant of Mark: a status the ENUM does not have. *)
MarkDone(p) ==
  /\ pc[p] = "mark"
  /\ status' = [status EXCEPT ![job[p]] = "done"]
  /\ Goto(p, "fetch")
  /\ UNCHANGED <<attempts, job, ids, tableVars, submits, faults>>

Mark(p) ==
  /\ pc[p] = "mark"
  /\ status' = [status EXCEPT ![job[p]] = "processed"]
  /\ Goto(p, "fetch")
  /\ UNCHANGED <<attempts, job, ids, tableVars, submits, faults>>

(* A statement after the claim fails (deadlock, lock wait timeout, a value *)
(* too long); the handler runs next.                                       *)
StatementError(p) ==
  /\ pc[p] \in Working
  /\ Fault("statement")
  /\ Goto(p, "fail")
  /\ UNCHANGED <<inboxVars, job, ids, tableVars, submits>>

(* The claim itself fails; the same handler runs next. *)
ClaimError(p) ==
  /\ pc[p] = "claim"
  /\ Fault("claim")
  /\ Goto(p, "fail")
  /\ UNCHANGED <<inboxVars, job, ids, tableVars, submits>>

(* Faulty variant of Fail: the handler only leaves the procedure. *)
FailSilently(p) ==
  /\ pc[p] = "fail"
  /\ Goto(p, "fetch")
  /\ UNCHANGED <<inboxVars, job, ids, tableVars, submits, faults>>

(* The EXIT HANDLER marks the row whoever may have claimed it. *)
Fail(p) ==
  /\ pc[p] = "fail"
  /\ status' = [status EXCEPT ![job[p]] = "failed"]
  /\ Goto(p, "fetch")
  /\ UNCHANGED <<attempts, job, ids, tableVars, submits, faults>>

(* The session ends between two statements: the connection is lost, the    *)
(* server stops, or the handler's own UPDATE fails.                        *)
Crash(p) ==
  /\ pc[p] # "free"
  /\ Fault("crash")
  /\ Goto(p, "free")
  /\ ids' = [ids EXCEPT ![p] = {}]
  /\ UNCHANGED <<inboxVars, job, tableVars, submits>>
-----------------------------------------------------------------------------
Statement(p) ==
  \/ Fetch(p) \/ Claim(p) \/ MapError(p) \/ InsertHistory(p)
  \/ UpsertRealtime(p) \/ Mark(p) \/ Fail(p)

Next ==
  \/ \E e \in Event : DirectWrite(e)
  \/ \E p \in Session :
       \/ \E e \in Event : Submit(p, e)
       \/ StartBatch(p)
       \/ Statement(p)
       \/ StatementError(p) \/ ClaimError(p) \/ Crash(p)

Spec == Init /\ [][Next]_vars

(* MySQL executes the statements of a session, and the event scheduler     *)
(* starts the procedure every minute.                                      *)
FairSpec ==
  /\ Spec
  /\ \A p \in Session : WF_vars(Statement(p))
  /\ WF_vars(\E p \in Session : StartBatch(p))
-----------------------------------------------------------------------------
InboxTypeOK ==
  /\ status \in [Event -> {"absent", "pending", "processing", "processed", "failed"}]
  /\ attempts \in [Event -> Nat]
  /\ pc \in [Session -> {"free", "fetch", "claim", "fail"} \cup Working]
  /\ job \in [Session -> Event \cup {0}]
  /\ ids \in [Session -> SUBSET Event]
  /\ history \in [Event -> Nat]
  /\ realtime \in [Point -> Row]
  /\ submits \in Nat
  /\ faults \in [InboxFault -> Nat]

(* Two sessions never process one event at a time: the claim is a single   *)
(* UPDATE that only one of them can win (claim of                          *)
(* sp_process_wcs_alarm_event).  A claim that fails breaks this, for its   *)
(* handler takes the event away from whoever holds it.                     *)
OneOwner ==
  faults["claim"] = 0 =>
    \A p, q \in Session :
      pc[p] \in Working /\ pc[q] \in Working /\ job[p] = job[q] => p = q

(* An event has one history row, however often it is submitted, by however *)
(* many sessions at once, and across crashes, unless a statement failed;   *)
(* and never more than one for each attempt that was counted.              *)
OnceUnlessStatementsFail ==
  \A e \in Event :
    /\ history[e] <= 1 + faults["statement"] + faults["claim"]
    /\ history[e] <= attempts[e]

(* An event is marked as processed only after a history row of it has been *)
(* inserted, and an event in processing has a session working on it unless *)
(* a session was lost.                                                     *)
StatusMeansProgress ==
  \A e \in Event :
    /\ status[e] = "processed" => history[e] > 0
    /\ status[e] = "processing" /\ faults["crash"] = 0 =>
         \E p \in Session : job[p] = e /\ pc[p] \in Working \cup {"fail"}

(* A realtime row shows an event whose history row was inserted before,    *)
(* also while sessions overlap and after statements failed: the history is *)
(* what the realtime table can be traced back to (README.md:13).           *)
RealtimeBackedByHistory ==
  \A n \in Point :
    \/ realtime[n] = Absent
    \/ \E e \in Event : /\ PointOf[e] = n
                        /\ history[e] > 0
                        /\ realtime[n].at = TimeOf[e]
                        /\ realtime[n].alarm = ActiveOf[e]

(* Every event that arrived ends up processed, or failed with no attempts  *)
(* left: nothing stays pending and nothing stays in processing.            *)
Settled(e) ==
  status[e] = "processed" \/ (status[e] = "failed" /\ attempts[e] >= MaxAttempts)
EventuallySettled ==
  \A e \in Event : e \in Arrived ~> Settled(e)
=============================================================================
