----------------------------- MODULE PhpBackend -----------------------------
(***************************************************************************)
(* The ThinkPHP backend (php/): requests are separate PHP workers and the  *)
(* loop is a console command, so everything they share is in MySQL.  It is *)
(* the one backend whose subtask upsert keeps the answer a payload leaves  *)
(* out, whose callback is a single transaction, and whose stop request     *)
(* synchronises the task it stopped.  A find-then-insert that loses a race *)
(* against another insert fails on the primary key (GiveUp).               *)
(***************************************************************************)
EXTENDS CallbackEvents

(* Whether results and pushes list answerContent, as null, for subtasks    *)
(* without an answer; docs/api does not say (it does for errorMessage).    *)
CONSTANT ExplicitNulls

Init ==
    /\ RemoteInit
    /\ StoreInit
    /\ ProcsInit
    /\ processed = {}
-----------------------------------------------------------------------------
(* Mutant of UpsertSubtask: overwrites, as the other backends do. *)
UpsertSubtaskAll(m, s, rich) == SubRowOf(m, s)

(* Mutant of UpsertSubtask: keeps the status along with the answer. *)
UpsertSubtaskKeeps(m, s, rich) ==
    LET row == geoSubtasks[m.task][s]
    IN  IF row.answer THEN row ELSE SubRowOf(m, s)

(* Mutant of UpsertSubtask: every subtask gets the master task's status. *)
UpsertSubtaskOfMaster(m, s, rich) ==
    [status |-> m.status, answer |-> s \in m.answers \/ geoSubtasks[m.task][s].answer]

(* A column is written when the payload has its key: statuses (rich is     *)
(* FALSE) never mention answerContent.                                     *)
UpsertSubtask(m, s, rich) ==
    [status |-> m.sub[s],
     answer |-> \/ s \in m.answers
                \/ geoSubtasks[m.task][s].answer /\ ~(rich /\ ExplicitNulls)]

UpsertSubtasks(m, rich) ==
    geoSubtasks' = [geoSubtasks EXCEPT ![m.task] =
        [s \in Subs |-> UpsertSubtask(m, s, rich)]]

(* Update the task's row, or insert it with the submit columns `inserted'. *)
WriteTask(t, status, done, kept) ==
    /\ geoTasks' = [geoTasks EXCEPT ![t] =
          [status |-> status, done |-> done, kept |-> kept,
           born |-> IF HasRow(t) THEN geoTasks[t].born ELSE clock + 1]]
    /\ clock' = IF HasRow(t) THEN clock ELSE clock + 1

(* Mutant of SaveSubmittedTask: leaves the row a callback inserted alone. *)
SaveSubmittedTaskIfNew(t, m) ==
    /\ IF HasRow(t) THEN UNCHANGED <<geoTasks, clock>>
       ELSE WriteTask(t, m.status, 0, SubmitColumns)
    /\ UpsertSubtasks(m, FALSE)

SaveSubmittedTask(t, m) ==
    /\ WriteTask(t, m.status, 0, SubmitColumns)
    /\ UpsertSubtasks(m, FALSE)

ApplyRemote(m, rich) ==
    /\ WriteTask(m.task, m.status, CompletedItems(m), geoTasks[m.task].kept)
    /\ UpsertSubtasks(m, rich)
-----------------------------------------------------------------------------
StoreSubmitted(p) ==
    /\ pc[p] = "saveSubmitted"
    /\ SaveSubmittedTask(job[p], msg[p])
    /\ accepted' = accepted \cup {job[p]}
    /\ Return(p)
    /\ UNCHANGED <<remoteVars, queue, processed>>

(* applyCallbackPayload: the transaction begins with a plain read of the   *)
(* event table, so two deliveries of one push may both find no event.      *)
ReceiveCallback(p) ==
    \E m \in pushes :
        /\ TakeUp(p, m, IF m \in processed THEN "saveDuplicate" ELSE "saveCallback")
        /\ UNCHANGED processed

StoreDuplicate(p) ==
    /\ pc[p] = "saveDuplicate"
    /\ Acknowledge(msg[p])
    /\ Return(p)
    /\ UNCHANGED <<remote, storeVars, queue, accepted, processed>>

(* Mutant of StoreCallback: the event row outlives a failed save. *)
StoreCallbackUnprotected(p) ==
    /\ pc[p] = "saveCallback"
    /\ processed' = processed \cup {msg[p]}
    /\ \/ ApplyRemote(msg[p], TRUE) /\ Acknowledge(msg[p])
       \/ UNCHANGED <<storeVars, pushes>>
    /\ Return(p)
    /\ UNCHANGED <<remote, queue, accepted>>

StoreCallback(p) ==
    /\ pc[p] = "saveCallback"
    /\ ApplyRemote(msg[p], TRUE)
    /\ processed' = processed \cup {msg[p]}
    /\ Acknowledge(msg[p])
    /\ Return(p)
    /\ UNCHANGED <<remote, queue, accepted>>
-----------------------------------------------------------------------------
(* PUT /api/tasks/:taskId/stop: stop, then syncOne in the same request,   *)
(* unless the answer of the stop call is lost.                             *)
Stop(p, t) ==
    /\ pc[p] = "idle"
    /\ Stoppable(remote[t])
    /\ remote' = [remote EXCEPT ![t] = Stopped(@)]
    /\ \/ GoTo(p, "fetchStatus", t, None)
       \/ UNCHANGED <<pc, job, msg>>
    /\ UNCHANGED <<pushes, storeVars, queue, accepted, processed>>

StoreStatus(p) ==
    /\ pc[p] = "saveStatus"
    /\ ApplyRemote(msg[p], FALSE)
    /\ IF FetchesResult(msg[p]) THEN GoTo(p, "fetchResult", job[p], None) ELSE Return(p)
    /\ UNCHANGED <<remoteVars, queue, accepted, processed>>

StoreResult(p) ==
    /\ pc[p] = "saveResult"
    /\ ApplyRemote(msg[p], TRUE)
    /\ Return(p)
    /\ UNCHANGED <<remoteVars, queue, accepted, processed>>

SyncOne(p) ==
    \/ (FetchStatus(p) \/ FetchResult(p)) /\ UNCHANGED processed
    \/ StoreStatus(p)
    \/ StoreResult(p)

(* molizhishu:sync-loop, a process of its own: one pass, then a sleep.  It *)
(* dies alone (a failing scan is not caught) and starts again afresh.      *)
SyncUnfinished == (StartPass \/ NextTask) /\ UNCHANGED processed

LoopDies ==
    /\ Return(Loop)
    /\ queue' = <<>>
    /\ UNCHANGED <<remoteVars, storeVars, accepted, processed>>
-----------------------------------------------------------------------------
Handler(p) ==
    \/ \E t \in Tasks : (CreateTask(p, t) \/ ManualSync(p, t)) /\ UNCHANGED processed
    \/ \E t \in Tasks : Stop(p, t)
    \/ StoreSubmitted(p)
    \/ ReceiveCallback(p)
    \/ StoreDuplicate(p)
    \/ StoreCallback(p)

Next ==
    \/ \E p \in Handlers : Handler(p)
    \/ \E p \in Procs : SyncOne(p) \/ (GiveUp(p) /\ UNCHANGED processed)
    \/ SyncUnfinished
    \/ LoopDies
    \/ \E t \in Tasks : Service(t) /\ UNCHANGED <<storeVars, procVars, processed>>

Spec == Init /\ [][Next]_eventVars
=============================================================================
