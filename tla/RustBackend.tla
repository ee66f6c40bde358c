---------------------------- MODULE RustBackend -----------------------------
(***************************************************************************)
(* The Rust backend (rust/): axum handlers and one tokio loop on a shared  *)
(* connection pool.  Its saves are not transactions: the task row and each *)
(* subtask row are statements of their own, so a save can be seen, or      *)
(* abandoned, half done.  `left' holds the subtask rows a save still has   *)
(* to write; it is empty until the save has written the task row.          *)
(***************************************************************************)
EXTENDS CallbackEvents

VARIABLE left           \* left[p]: subtasks whose rows p has yet to write

rustVars == <<eventVars, left>>

ASSUME SomeSubtask == Subs # {}

Init ==
    /\ RemoteInit
    /\ StoreInit
    /\ ProcsInit
    /\ processed = {}
    /\ left = [p \in Procs |-> {}]

LeftTypeOK == left \in [Procs -> SUBSET Subs]
-----------------------------------------------------------------------------
(* The first statement of a save.  A submission for a known task_id keeps  *)
(* created_local_at and the counters; a result keeps the submit columns.   *)

(* Mutant of TaskRowAfter: a submission leaves the columns of a known task alone. *)
TaskRowAfterIfNew(label, m) ==
    LET old == geoTasks[m.task]
    IN  [status |-> m.status,
         done |-> IF label = "saveSubmitted" THEN old.done ELSE CompletedItems(m),
         kept |-> IF label = "saveSubmitted" /\ ~HasRow(m.task) THEN SubmitColumns ELSE old.kept,
         born |-> IF HasRow(m.task) THEN old.born ELSE clock + 1]

TaskRowAfter(label, m) ==
    LET old == geoTasks[m.task]
    IN  [status |-> m.status,
         done |-> IF label = "saveSubmitted" THEN old.done ELSE CompletedItems(m),
         kept |-> IF label = "saveSubmitted" THEN SubmitColumns ELSE old.kept,
         born |-> IF HasRow(m.task) THEN old.born ELSE clock + 1]

Rows == {"saveSubmitted", "saveCallback", "saveStatus", "saveResult"}

WriteTaskRow(p) ==
    /\ pc[p] \in Rows
    /\ left[p] = {}
    /\ geoTasks' = [geoTasks EXCEPT ![job[p]] = TaskRowAfter(pc[p], msg[p])]
    /\ clock' = IF HasRow(job[p]) THEN clock ELSE clock + 1
    /\ left' = [left EXCEPT ![p] = Subs]
    /\ UNCHANGED <<remoteVars, geoSubtasks, procVars, processed>>

(* What follows a save, once its last row is written. *)
Saved(p) ==
    \/ /\ pc[p] = "saveSubmitted"
       /\ accepted' = accepted \cup {job[p]}
       /\ Return(p)
       /\ UNCHANGED pushes
    \/ /\ pc[p] = "saveCallback"
       /\ Acknowledge(msg[p])
       /\ Return(p)
       /\ UNCHANGED accepted
    \/ /\ pc[p] = "saveStatus"
       /\ IF FetchesResult(msg[p]) THEN GoTo(p, "fetchResult", job[p], None) ELSE Return(p)
       /\ UNCHANGED <<pushes, accepted>>
    \/ /\ pc[p] = "saveResult"
       /\ Return(p)
       /\ UNCHANGED <<pushes, accepted>>

(* Mutant of UpsertSubtask: the request is answered after the first row. *)
UpsertSubtaskEarly(p, s) ==
    /\ s \in left[p]
    /\ geoSubtasks' = [geoSubtasks EXCEPT ![job[p]][s] = SubRowOf(msg[p], s)]
    /\ left' = [left EXCEPT ![p] = {}]
    /\ Saved(p)
    /\ UNCHANGED <<remote, geoTasks, clock, queue, processed>>

(* Mutant of UpsertSubtask: the master task's status for every row. *)
UpsertSubtaskOfMaster(p, s) ==
    /\ s \in left[p]
    /\ geoSubtasks' = [geoSubtasks EXCEPT ![job[p]][s] = SubRowOfMaster(msg[p], s)]
    /\ left' = [left EXCEPT ![p] = @ \ {s}]
    /\ IF left'[p] = {} THEN Saved(p) ELSE UNCHANGED <<pushes, pc, job, msg, accepted>>
    /\ UNCHANGED <<remote, geoTasks, clock, queue, processed>>

UpsertSubtask(p, s) ==
    /\ s \in left[p]
    /\ geoSubtasks' = [geoSubtasks EXCEPT ![job[p]][s] = SubRowOf(msg[p], s)]
    /\ left' = [left EXCEPT ![p] = @ \ {s}]
    /\ IF left'[p] = {} THEN Saved(p) ELSE UNCHANGED <<pushes, pc, job, msg, accepted>>
    /\ UNCHANGED <<remote, geoTasks, clock, queue, processed>>

Save(p) == WriteTaskRow(p) \/ \E s \in Subs : UpsertSubtask(p, s)
-----------------------------------------------------------------------------
(* save_callback up to its save_remote_result; the lookup comes first, and *)
(* the request keeps its answer.                                           *)

ReceiveCallback(p) ==
    \E m \in pushes :
        /\ TakeUp(p, m, IF m \in processed THEN "saveDuplicate" ELSE "saveEvent")
        /\ UNCHANGED <<processed, left>>

StoreDuplicate(p) ==
    /\ pc[p] = "saveDuplicate"
    /\ Acknowledge(msg[p])
    /\ Return(p)
    /\ UNCHANGED <<remote, storeVars, queue, accepted, processed, left>>

(* Mutant of StoreEvent: the payload is applied without a processed event. *)
StoreEventUnmarked(p) ==
    /\ pc[p] = "saveEvent"
    /\ GoTo(p, "saveCallback", job[p], msg[p])
    /\ UNCHANGED <<remoteVars, storeVars, queue, accepted, processed, left>>

StoreEvent(p) ==
    /\ pc[p] = "saveEvent"
    /\ processed' = processed \cup {msg[p]}
    /\ GoTo(p, "saveCallback", job[p], msg[p])
    /\ UNCHANGED <<remoteVars, storeVars, queue, accepted, left>>
-----------------------------------------------------------------------------
(* A remote call or a statement fails; what was written stays. *)
Fail(p) ==
    /\ GiveUp(p)
    /\ left' = [left EXCEPT ![p] = {}]
    /\ UNCHANGED processed

Die ==
    /\ Crash
    /\ left' = [p \in Procs |-> {}]
    /\ UNCHANGED processed

SyncUnfinished == (StartPass \/ NextTask) /\ UNCHANGED <<processed, left>>

Handler(p) ==
    \/ \E t \in Tasks : (CreateTask(p, t) \/ ManualSync(p, t)) /\ UNCHANGED <<processed, left>>
    \/ ReceiveCallback(p)
    \/ StoreDuplicate(p)
    \/ StoreEvent(p)

Next ==
    \/ \E p \in Handlers : Handler(p)
    \/ \E p \in Procs :
          \/ (FetchStatus(p) \/ FetchResult(p)) /\ UNCHANGED <<processed, left>>
          \/ Save(p)
          \/ Fail(p)
    \/ SyncUnfinished
    \/ Die
    \/ \E t \in Tasks : StopTask(t) /\ UNCHANGED <<processed, left>>
    \/ \E t \in Tasks : Service(t) /\ UNCHANGED <<storeVars, procVars, processed, left>>

Spec == Init /\ [][Next]_rustVars

(* As in GoBackend: the loop runs, requests end, and what the loop tries   *)
(* for ever on one task also succeeds for ever, statement by statement.    *)
LoopWorksOn(t) ==
    /\ SF_rustVars(SyncUnfinished /\ queue # <<>> /\ Head(queue) = t)
    /\ SF_rustVars(job[Loop] = t /\ FetchStatus(Loop) /\ UNCHANGED <<processed, left>>)
    /\ SF_rustVars(job[Loop] = t /\ FetchResult(Loop) /\ UNCHANGED <<processed, left>>)
    /\ SF_rustVars(job[Loop] = t /\ WriteTaskRow(Loop))
    /\ \A s \in Subs : SF_rustVars(job[Loop] = t /\ UpsertSubtask(Loop, s))

Fairness ==
    /\ WF_rustVars(StartPass /\ UNCHANGED <<processed, left>>)
    /\ \A t \in Tasks : LoopWorksOn(t)
    /\ \A p \in Handlers : WF_rustVars(pc[p] # "idle" /\ (Save(p) \/ Fail(p)))

FairSpec == Spec /\ Fairness
-----------------------------------------------------------------------------
(* Half-done saves may mix two snapshots, yet every row on its own shows   *)
(* what the service once said, and a save under way has its task row.      *)
RustInv ==
    /\ TypeOK
    /\ EventsTypeOK
    /\ LeftTypeOK
    /\ RemoteConsistent
    /\ RowsObserved
    /\ SnapshotsObserved
    /\ ProcsConsistent
    /\ QueueKnown
    /\ \A p \in Procs : left[p] # {} => pc[p] \in Rows /\ HasRow(job[p])

(* The scan makes up for half-done saves of every task whose submission    *)
(* was answered with success: none of its gaps is overlooked.              *)
AcceptedGapRescanned ==
    \A t \in accepted : Finished(t) /\ ~Mirrored(t) => t \in Unfinished
=============================================================================
