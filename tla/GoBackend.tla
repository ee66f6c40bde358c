----------------------------- MODULE GoBackend ------------------------------
(***************************************************************************)
(* The Go backend (golang/): HTTP handlers and the background goroutine    *)
(* share one MySQL database and talk to the remote service.  One process   *)
(* per concurrent request (Handlers) plus the sync loop; `pc' is the next  *)
(* remote call or transaction a process performs, and everything between   *)
(* two of them is one step.                                                *)
(***************************************************************************)
EXTENDS BackendProcesses

Init ==
    /\ RemoteInit
    /\ StoreInit
    /\ ProcsInit
-----------------------------------------------------------------------------
(* The repository: each operation is one transaction. *)

(* Mutant of SaveSubmitted: a submitted task is filed as being processed. *)
SaveSubmittedProcessing(t, m) ==
    /\ geoTasks' = [geoTasks EXCEPT ![t] =
          [status |-> "processing", done |-> 0, kept |-> SubmitColumns, born |-> clock + 1]]
    /\ geoSubtasks' = [geoSubtasks EXCEPT ![t] = SubRowsOf(m)]
    /\ clock' = clock + 1

SaveSubmitted(t, m) ==
    /\ geoTasks' = [geoTasks EXCEPT ![t] =
          [status |-> m.status, done |-> 0, kept |-> SubmitColumns, born |-> clock + 1]]
    /\ geoSubtasks' = [geoSubtasks EXCEPT ![t] = SubRowsOf(m)]
    /\ clock' = clock + 1

(* Mutant of SaveRemoteResult: UpdateAll, as in SaveSubmitted. *)
SaveRemoteResultAll(m) ==
    LET t == m.task
    IN  /\ geoTasks' = [geoTasks EXCEPT ![t] =
              [status |-> m.status, done |-> CompletedItems(m), kept |-> {}, born |-> clock + 1]]
        /\ geoSubtasks' = [geoSubtasks EXCEPT ![t] = SubRowsOf(m)]
        /\ clock' = clock + 1

(* Mutant of SaveRemoteResult: completed_items is not among the updated columns. *)
SaveRemoteResultNoCount(m) ==
    LET t == m.task
    IN  /\ geoTasks' = [geoTasks EXCEPT ![t] =
              IF HasRow(t) THEN [@ EXCEPT !.status = m.status]
              ELSE [status |-> m.status, done |-> CompletedItems(m), kept |-> {},
                    born |-> clock + 1]]
        /\ geoSubtasks' = [geoSubtasks EXCEPT ![t] = SubRowsOf(m)]
        /\ clock' = IF HasRow(t) THEN clock ELSE clock + 1

(* Mutant of SaveRemoteResult: a subtask already stored as completed is left alone. *)
SaveRemoteResultSticky(m) ==
    LET t == m.task
    IN  /\ geoTasks' = [geoTasks EXCEPT ![t] =
              [status |-> m.status, done |-> CompletedItems(m), kept |-> @.kept,
               born |-> IF HasRow(t) THEN @.born ELSE clock + 1]]
        /\ geoSubtasks' = [geoSubtasks EXCEPT ![t] = [s \in Subs |->
              IF s \in CompletedRows(t) THEN @[s] ELSE SubRowOf(m, s)]]
        /\ clock' = IF HasRow(t) THEN clock ELSE clock + 1

SaveRemoteResult(m) == WriteSnapshot(m)
-----------------------------------------------------------------------------
StoreSubmitted(p) ==
    /\ pc[p] = "saveSubmitted"
    /\ SaveSubmitted(job[p], msg[p])
    /\ accepted' = accepted \cup {job[p]}
    /\ Return(p)
    /\ UNCHANGED <<remoteVars, queue>>

ReceiveCallback(p) == \E m \in pushes : TakeUp(p, m, "saveEvent")

(* The event row is committed on its own; no unique index can refuse it,   *)
(* and any other failure of the insert is answered as a duplicate.         *)
StoreEvent(p) ==
    /\ pc[p] = "saveEvent"
    /\ \/ /\ GoTo(p, "saveCallback", job[p], msg[p])
          /\ UNCHANGED pushes
       \/ /\ Acknowledge(msg[p])
          /\ Return(p)
    /\ UNCHANGED <<remote, storeVars, queue, accepted>>

StoreCallback(p) ==
    /\ pc[p] = "saveCallback"
    /\ SaveRemoteResult(msg[p])
    /\ Acknowledge(msg[p])
    /\ Return(p)
    /\ UNCHANGED <<remote, queue, accepted>>
-----------------------------------------------------------------------------
(* syncer.SyncOne, run by a handler (manual sync) or by the loop. *)

StoreStatus(p) ==
    /\ pc[p] = "saveStatus"
    /\ SaveRemoteResult(msg[p])
    /\ IF FetchesResult(msg[p]) THEN GoTo(p, "fetchResult", job[p], None) ELSE Return(p)
    /\ UNCHANGED <<remoteVars, queue, accepted>>

StoreResult(p) ==
    /\ pc[p] = "saveResult"
    /\ SaveRemoteResult(msg[p])
    /\ Return(p)
    /\ UNCHANGED <<remoteVars, queue, accepted>>

(* A failed insert of the event row is not an error (StoreEvent). *)
CallFails(p) == pc[p] # "saveEvent" /\ GiveUp(p)
-----------------------------------------------------------------------------
Sync(p) ==
    \/ FetchStatus(p)
    \/ StoreStatus(p)
    \/ FetchResult(p)
    \/ StoreResult(p)

Handler(p) ==
    \/ \E t \in Tasks : CreateTask(p, t) \/ ManualSync(p, t)
    \/ StoreSubmitted(p)
    \/ ReceiveCallback(p)
    \/ StoreEvent(p)
    \/ StoreCallback(p)

Next ==
    \/ \E p \in Handlers : Handler(p)
    \/ \E p \in Procs : Sync(p) \/ CallFails(p)
    \/ StartPass
    \/ NextTask
    \/ Crash
    \/ \E t \in Tasks : StopTask(t)
    \/ \E t \in Tasks : Service(t) /\ UNCHANGED <<storeVars, procVars>>

Spec == Init /\ [][Next]_vars

(* Liveness needs the sync loop to run, started requests to end (the HTTP  *)
(* client and the database have timeouts), and calls that fail now and     *)
(* then rather than always: a call the loop tries for ever on one task     *)
(* also succeeds for ever.  New requests, stops, pushes, crashes and the   *)
(* service's own progress need never happen.                               *)
LoopWorksOn(t) ==
    /\ SF_vars(queue # <<>> /\ Head(queue) = t /\ NextTask)
    /\ SF_vars(job[Loop] = t /\ FetchStatus(Loop))
    /\ SF_vars(job[Loop] = t /\ StoreStatus(Loop))
    /\ SF_vars(job[Loop] = t /\ FetchResult(Loop))
    /\ SF_vars(job[Loop] = t /\ StoreResult(Loop))

Proceed(p) == Sync(p) \/ StoreSubmitted(p) \/ StoreEvent(p) \/ StoreCallback(p) \/ CallFails(p)

Fairness ==
    /\ WF_vars(StartPass)
    /\ \A t \in Tasks : LoopWorksOn(t)
    /\ \A p \in Handlers : WF_vars(Proceed(p))

FairSpec == Spec /\ Fairness
=============================================================================
