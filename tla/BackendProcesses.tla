-------------------------- MODULE BackendProcesses --------------------------
(***************************************************************************)
(* What the backends have in common besides the tables: requests and a     *)
(* background loop run side by side, each a sequence of remote calls and   *)
(* transactions; `pc' is the next of them, and everything between two is   *)
(* one step.  The steps that do not touch a table are the same in every    *)
(* language and are here (mapped to one of them); the steps that save rows *)
(* and how they are put together are in the module of each backend, which  *)
(* EXTENDS this one.                                                       *)
(***************************************************************************)
EXTENDS LocalStore

CONSTANTS
    Handlers,       \* requests served at the same time
    Loop,           \* the background loop
    None

ASSUME ProcsAssumption == Loop \notin Handlers
ASSUME NoneAssumption == None \notin Tasks \cup Snapshot \cup RemoteTask

VARIABLES
    pc,             \* the process's next call
    job,            \* the task it works for
    msg,            \* the snapshot it holds between a read and a save
    queue,          \* task ids left in the current background pass
    accepted        \* tasks whose POST /api/tasks was answered with success

Procs == Handlers \cup {Loop}
procVars == <<pc, job, msg, queue, accepted>>
vars == <<remoteVars, storeVars, procVars>>

Fetching == {"fetchStatus", "fetchResult"}
Saving == {"saveSubmitted", "saveDuplicate", "saveEvent", "saveCallback", "saveStatus",
           "saveResult"}

TypeOK ==
    /\ RemoteTypeOK
    /\ StoreTypeOK
    /\ pc \in [Procs -> {"idle"} \cup Fetching \cup Saving]
    /\ job \in [Procs -> Tasks \cup {None}]
    /\ msg \in [Procs -> Snapshot \cup {None}]
    /\ queue \in Seq(Tasks)
    /\ accepted \subseteq Tasks

ProcsInit ==
    /\ pc = [p \in Procs |-> "idle"]
    /\ job = [p \in Procs |-> None]
    /\ msg = [p \in Procs |-> None]
    /\ queue = <<>>
    /\ accepted = {}

GoTo(p, label, t, m) ==
    /\ pc' = [pc EXCEPT ![p] = label]
    /\ job' = [job EXCEPT ![p] = t]
    /\ msg' = [msg EXCEPT ![p] = m]

Return(p) == GoTo(p, "idle", None, None)

(* Mutant of FetchesResult: results are fetched for terminal tasks only. *)
FetchesResultAtEnd(m) == m.status \in Terminal

(* hasCompletedItems || terminalStatus: an "error" subtask does not count. *)
FetchesResult(m) ==
    \/ m.status \in Terminal
    \/ CompletedItems(m) > 0
    \/ \E s \in Subs : m.sub[s] \in Terminal
-----------------------------------------------------------------------------
(* Requests. *)

(* POST /api/tasks: the service accepts the task; the response is either   *)
(* received, or lost and the request fails without any local trace.        *)
CreateTask(p, t) ==
    /\ pc[p] = "idle"
    /\ remote[t].status = Missing
    /\ remote' = [remote EXCEPT ![t] = NewRemoteTask]
    /\ \/ GoTo(p, "saveSubmitted", t, StatusView(NewRemoteTask, t))
       \/ UNCHANGED <<pc, job, msg>>
    /\ UNCHANGED <<pushes, storeVars, queue, accepted>>

(* PUT /api/tasks/:taskId/stop: forwards the call and leaves the rows     *)
(* alone; the new status arrives with a later sync or push.                *)
StopTask(t) ==
    /\ Stoppable(remote[t])
    /\ remote' = [remote EXCEPT ![t] = Stopped(@)]
    /\ UNCHANGED <<pushes, storeVars, procVars>>

(* POST /webhooks/molizhishu: a request takes up push m; `label' is the    *)
(* first thing it writes.                                                  *)
TakeUp(p, m, label) ==
    /\ pc[p] = "idle"
    /\ GoTo(p, label, m.task, m)
    /\ UNCHANGED <<remoteVars, storeVars, queue, accepted>>

(* The 2xx answer reaches the service, or is lost and the push repeated. *)
Acknowledge(m) == pushes' \in {pushes, pushes \ {m}}
-----------------------------------------------------------------------------
(* Reading from the service: syncOne of a manual sync or of the loop.      *)
(* A manual sync of a task the service does not know fails without effect. *)

ManualSync(p, t) ==
    /\ pc[p] = "idle"
    /\ remote[t].status # Missing
    /\ GoTo(p, "fetchStatus", t, None)
    /\ UNCHANGED <<remoteVars, storeVars, queue, accepted>>

FetchStatus(p) ==
    /\ pc[p] = "fetchStatus"
    /\ GoTo(p, "saveStatus", job[p], StatusView(remote[job[p]], job[p]))
    /\ UNCHANGED <<remoteVars, storeVars, queue, accepted>>

FetchResult(p) ==
    /\ pc[p] = "fetchResult"
    /\ GoTo(p, "saveResult", job[p], ResultView(remote[job[p]], job[p]))
    /\ UNCHANGED <<remoteVars, storeVars, queue, accepted>>

(* The remote call or the transaction fails: the request answers with an   *)
(* error, the loop logs it and goes on with the next task.                 *)
GiveUp(p) ==
    /\ pc[p] # "idle"
    /\ Return(p)
    /\ UNCHANGED <<remoteVars, storeVars, queue, accepted>>
-----------------------------------------------------------------------------
(* The background loop. *)

(* A tick with no pass under way scans once; ticks during a pass are       *)
(* dropped by the ticker.                                                  *)
StartPass ==
    /\ pc[Loop] = "idle"
    /\ queue = <<>>
    /\ queue' \in Batches
    /\ UNCHANGED <<remoteVars, storeVars, pc, job, msg, accepted>>

NextTask ==
    /\ pc[Loop] = "idle"
    /\ queue # <<>>
    /\ GoTo(Loop, "fetchStatus", Head(queue), None)
    /\ queue' = Tail(queue)
    /\ UNCHANGED <<remoteVars, storeVars, accepted>>

(* The process dies and is started again: MySQL keeps what was committed. *)
Crash ==
    /\ pc' = [p \in Procs |-> "idle"]
    /\ job' = [p \in Procs |-> None]
    /\ msg' = [p \in Procs |-> None]
    /\ queue' = <<>>
    /\ UNCHANGED <<remoteVars, storeVars, accepted>>
-----------------------------------------------------------------------------
Service(t) == RemoteWork(t) \/ RemotePush(t)
-----------------------------------------------------------------------------
(* What the store promises. *)

(* A task whose submission was answered with success keeps every submit    *)
(* column, whatever callbacks and syncs raced with the submission          *)
(* (store.go upserts; docs/implementation-contract.md, data saving rules). *)
SubmissionsKept == \A t \in accepted : geoTasks[t].kept = SubmitColumns

(* completed_items always equals the number of subtask rows shown as       *)
(* completed: SaveSubmitted and SaveRemoteResult write both in one         *)
(* transaction, in whatever order requests and passes commit.              *)
CountersAgree == \A t \in Tasks : geoTasks[t].done = Cardinality(CompletedRows(t))

(* Inductive together with CountersAgree: SaveSubmitted resets the counter *)
(* of a task that shows no completed subtask.                              *)
SubmissionsFresh ==
    \A p \in Procs : pc[p] = "saveSubmitted" => CompletedItems(msg[p]) = 0

(* Every payload under way is an observation of the service, a process     *)
(* about to save holds a snapshot of its own task, and only tasks the      *)
(* service knows are fetched or queued.                                    *)
SnapshotsObserved ==
    /\ \A m \in pushes : Observed(m)
    /\ \A p \in Procs : msg[p] # None => Observed(msg[p])

ProcsConsistent ==
    \A p \in Procs :
        /\ pc[p] \in Saving => msg[p] # None /\ msg[p].task = job[p]
        /\ pc[p] \in Fetching => job[p] # None /\ remote[job[p]].status # Missing

QueueKnown == \A i \in 1..Len(queue) : remote[queue[i]].status # Missing

(* The inductive invariant: rows are whole and observed because every      *)
(* payload under way is an observation and every save writes all of it.    *)
IndInv ==
    /\ TypeOK
    /\ RemoteConsistent
    /\ RowsWhole
    /\ RowsObserved
    /\ SnapshotsObserved
    /\ ProcsConsistent
    /\ QueueKnown

(* The statuses of a master task and of its subtasks as the service shows  *)
(* them together.                                                          *)
Coherent(r) ==
    \/ r.status = "pending" /\ \A s \in Subs : r.sub[s] = "pending"
    \/ r.status = "processing" /\ ~Settled(r.sub) /\ \E s \in Subs : r.sub[s] # "pending"
    \/ r.status = "stopped" /\ \A s \in Subs : r.sub[s] # "pending"
    \/ r.status \in Terminal \ {"stopped"} /\ r.status = Derived(r.sub)

States == {r \in RemoteTask : Coherent(r)}

Earlier(a, b) ==
    /\ MasterPrecedes(a.status, b.status)
    /\ \A s \in Subs : SubPrecedes(a.sub[s], b.sub[s])

Real == [t \in Tasks |-> IF remote[t].status = Missing THEN None ELSE remote[t]]

Copy == [t \in Tasks |->
            IF HasRow(t)
            THEN [status |-> geoTasks[t].status,
                  sub |-> [s \in Subs |-> geoSubtasks[t][s].status]]
            ELSE None]

Abstract == INSTANCE Replica WITH NoState <- None, real <- Real, copy <- Copy

(* Together, the rows of a task always show one state the service was in:  *)
(* no interleaving of saves leaves the master status of one snapshot with  *)
(* a subtask status of another (one transaction per save, store.go:47-65). *)
RowsFollowService == Abstract!Spec

(* A finished task the database knows ends up there complete, answers      *)
(* included, although status saves clear answers and results may fail.     *)
FinishedTasksConverge == \A t \in Tasks : HasRow(t) /\ Finished(t) ~> Mirrored(t)

(* The answer of a completed subtask arrives while its master task is      *)
(* still being worked on, or at the latest when that is over.              *)
PartialAnswersArrive ==
    \A t \in Tasks, s \in Subs :
        HasRow(t) /\ remote[t].sub[s] = "completed" /\ remote[t].status # "stopped"
            ~> geoSubtasks[t][s].answer \/ remote[t].status = "stopped"

(* A stopped task's finished answers are stored too. *)
StoppedAnswersArrive ==
    \A t \in Tasks, s \in Subs :
        HasRow(t) /\ remote[t].status = "stopped" /\ remote[t].sub[s] = "completed"
            ~> geoSubtasks[t][s].answer
=============================================================================
