---------------------------- MODULE NodeBackend -----------------------------
(***************************************************************************)
(* The Node backend (react/src and vue/src hold the same files): Express   *)
(* handlers and a setInterval poller interleave at every await.  A save is *)
(* one transaction; saveCallback is not: its lookup, its event row and the *)
(* save it announces are committed one after the other.                    *)
(***************************************************************************)
EXTENDS CallbackEvents

Init ==
    /\ RemoteInit
    /\ StoreInit
    /\ ProcsInit
    /\ processed = {}
-----------------------------------------------------------------------------
(* Mutant of SaveSubmitted: the task row alone, its subtasks with a later sync. *)
SaveSubmittedTaskOnly(t, m) ==
    /\ geoTasks' = [geoTasks EXCEPT ![t] =
          [status |-> m.status,
           done |-> geoTasks[t].done,
           kept |-> SubmitColumns,
           born |-> IF HasRow(t) THEN geoTasks[t].born ELSE clock + 1]]
    /\ clock' = IF HasRow(t) THEN clock ELSE clock + 1
    /\ UNCHANGED geoSubtasks

(* A repeated task_id keeps its created_local_at and its progress counters *)
(* while its status and subtask rows go back to the submission's.          *)
SaveSubmitted(t, m) ==
    /\ geoTasks' = [geoTasks EXCEPT ![t] =
          [status |-> m.status,
           done |-> geoTasks[t].done,
           kept |-> SubmitColumns,
           born |-> IF HasRow(t) THEN geoTasks[t].born ELSE clock + 1]]
    /\ geoSubtasks' = [geoSubtasks EXCEPT ![t] = SubRowsOf(m)]
    /\ clock' = IF HasRow(t) THEN clock ELSE clock + 1

SaveRemoteResult(m) == WriteSnapshot(m)

StoreSubmitted(p) ==
    /\ pc[p] = "saveSubmitted"
    /\ SaveSubmitted(job[p], msg[p])
    /\ accepted' = accepted \cup {job[p]}
    /\ Return(p)
    /\ UNCHANGED <<remoteVars, queue, processed>>
-----------------------------------------------------------------------------
(* saveCallback.  Its first statement looks the payload up; the request    *)
(* keeps the answer, however the table changes until it writes.            *)

(* Mutant of ReceiveCallback: a new push is applied without an event row. *)
ReceiveCallbackSkipping(p) ==
    \E m \in pushes :
        /\ TakeUp(p, m, "saveCallback")
        /\ UNCHANGED processed

ReceiveCallback(p) ==
    \E m \in pushes :
        /\ TakeUp(p, m, IF m \in processed THEN "saveDuplicate" ELSE "saveEvent")
        /\ UNCHANGED processed

StoreDuplicate(p) ==
    /\ pc[p] = "saveDuplicate"
    /\ Acknowledge(msg[p])
    /\ Return(p)
    /\ UNCHANGED <<remote, storeVars, queue, accepted, processed>>

StoreEvent(p) ==
    /\ pc[p] = "saveEvent"
    /\ processed' = processed \cup {msg[p]}
    /\ GoTo(p, "saveCallback", job[p], msg[p])
    /\ UNCHANGED <<remoteVars, storeVars, queue, accepted>>

StoreCallback(p) ==
    /\ pc[p] = "saveCallback"
    /\ SaveRemoteResult(msg[p])
    /\ Acknowledge(msg[p])
    /\ Return(p)
    /\ UNCHANGED <<remote, queue, accepted, processed>>
-----------------------------------------------------------------------------
(* syncOne: status, save, and the result when there is something to fetch. *)

StoreStatus(p) ==
    /\ pc[p] = "saveStatus"
    /\ SaveRemoteResult(msg[p])
    /\ IF FetchesResult(msg[p]) THEN GoTo(p, "fetchResult", job[p], None) ELSE Return(p)
    /\ UNCHANGED <<remoteVars, queue, accepted, processed>>

StoreResult(p) ==
    /\ pc[p] = "saveResult"
    /\ SaveRemoteResult(msg[p])
    /\ Return(p)
    /\ UNCHANGED <<remoteVars, queue, accepted, processed>>

SyncOne(p) ==
    \/ (FetchStatus(p) \/ FetchResult(p)) /\ UNCHANGED processed
    \/ StoreStatus(p)
    \/ StoreResult(p)

(* The poller's `running' flag and its loop over the batch. *)
SyncUnfinished == (StartPass \/ NextTask) /\ UNCHANGED processed
-----------------------------------------------------------------------------
Handler(p) ==
    \/ \E t \in Tasks : (CreateTask(p, t) \/ ManualSync(p, t)) /\ UNCHANGED processed
    \/ StoreSubmitted(p)
    \/ ReceiveCallback(p)
    \/ StoreDuplicate(p)
    \/ StoreEvent(p)
    \/ StoreCallback(p)

Next ==
    \/ \E p \in Handlers : Handler(p)
    \/ \E p \in Procs : SyncOne(p) \/ (GiveUp(p) /\ UNCHANGED processed)
    \/ SyncUnfinished
    \/ Crash /\ UNCHANGED processed
    \/ \E t \in Tasks : StopTask(t) /\ UNCHANGED processed
    \/ \E t \in Tasks : Service(t) /\ UNCHANGED <<storeVars, procVars, processed>>

Spec == Init /\ [][Next]_eventVars
=============================================================================
