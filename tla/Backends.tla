------------------------------ MODULE Backends ------------------------------
(***************************************************************************)
(* The three kinds of backend that save a snapshot in one transaction,     *)
(* deployed alone or side by side: every .env.example names the same       *)
(* database `molizhishu', and the README invites the reader to run several *)
(* languages at once.  A process belongs to one backend for good; what a   *)
(* second backend's loop would do, its requests do as manual syncs.        *)
(***************************************************************************)
EXTENDS CallbackEvents

CONSTANT Deployments    \* which backend each process may belong to

PhpKinds == {"php", "phpNulls"}
Languages == {"go", "node"} \cup PhpKinds
ASSUME DeploymentsAssumption == Deployments \subseteq [Procs -> Languages]

VARIABLE language       \* the deployment at hand

allVars == <<eventVars, language>>

Go == INSTANCE GoBackend
Node == INSTANCE NodeBackend
Php == INSTANCE PhpBackend WITH ExplicitNulls <- FALSE
PhpNulls == INSTANCE PhpBackend WITH ExplicitNulls <- TRUE

Init ==
    /\ language \in Deployments
    /\ RemoteInit
    /\ StoreInit
    /\ ProcsInit
    /\ processed = {}
-----------------------------------------------------------------------------
(* Go hashes a push with its keys sorted: no other backend finds its row.  *)
GoProcess(p) ==
    /\ language[p] = "go"
    /\ (p \in Handlers /\ Go!Handler(p)) \/ Go!Sync(p) \/ Go!CallFails(p)
    /\ UNCHANGED processed

(* Node and PHP hash compact JSON to the same value. *)
NodeProcess(p) ==
    /\ language[p] = "node"
    /\ \/ p \in Handlers /\ Node!Handler(p)
       \/ Node!SyncOne(p)
       \/ GiveUp(p) /\ UNCHANGED processed

PhpProcess(p) ==
    /\ \/ /\ language[p] = "php"
          /\ (p \in Handlers /\ Php!Handler(p)) \/ Php!SyncOne(p)
       \/ /\ language[p] = "phpNulls"
          /\ (p \in Handlers /\ PhpNulls!Handler(p)) \/ PhpNulls!SyncOne(p)
       \/ language[p] \in PhpKinds /\ GiveUp(p) /\ UNCHANGED processed

(* The stop handlers of Go and Node; PHP's is part of PhpProcess. *)
StopForwarded ==
    /\ \E p \in Handlers : language[p] \in {"go", "node"}
    /\ \E t \in Tasks : StopTask(t)
    /\ UNCHANGED processed

(* The processes that end with p: in PHP the worker is one of its own.     *)
DieWith(p) ==
    IF language[p] \in PhpKinds THEN {p} ELSE {q \in Procs : language[q] = language[p]}

ProcessDies(p) ==
    /\ pc' = [q \in Procs |-> IF q \in DieWith(p) THEN "idle" ELSE pc[q]]
    /\ job' = [q \in Procs |-> IF q \in DieWith(p) THEN None ELSE job[q]]
    /\ msg' = [q \in Procs |-> IF q \in DieWith(p) THEN None ELSE msg[q]]
    /\ queue' = IF Loop \in DieWith(p) THEN <<>> ELSE queue
    /\ UNCHANGED <<remoteVars, storeVars, accepted, processed>>
-----------------------------------------------------------------------------
Next ==
    /\ UNCHANGED language
    /\ \/ \E p \in Procs : GoProcess(p) \/ NodeProcess(p) \/ PhpProcess(p) \/ ProcessDies(p)
       \/ (StartPass \/ NextTask) /\ UNCHANGED processed
       \/ StopForwarded
       \/ \E t \in Tasks : Service(t) /\ UNCHANGED <<storeVars, procVars, processed>>

Spec == Init /\ [][Next]_allVars
-----------------------------------------------------------------------------
Alone(l) == \A p \in Procs : language[p] = l

(* Rows show what the service has said.  PHP keeps the answer a payload    *)
(* leaves out, so where it takes part an answer may stand beside an older  *)
(* status; the service has completed its subtask nevertheless.             *)
AnswersObserved ==
    /\ \A t \in Tasks : HasRow(t) =>
          /\ remote[t].status # Missing
          /\ MasterPrecedes(geoTasks[t].status, remote[t].status)
          /\ \A s \in Subs : SubPrecedes(geoSubtasks[t][s].status, remote[t].sub[s])
    /\ \A t \in Tasks, s \in Subs : geoSubtasks[t][s].answer =>
          remote[t].status # Missing /\ remote[t].sub[s] = "completed"

NoPhp == \A p \in Procs : language[p] \notin PhpKinds

(* Whatever requests, pushes and passes of whichever backends interleave:  *)
(* rows are typed, whole and observed, and so are the payloads under way.  *)
BackendInv ==
    /\ TypeOK
    /\ EventsTypeOK
    /\ RemoteConsistent
    /\ RowsWhole
    /\ AnswersObserved
    /\ NoPhp => RowsObserved
    /\ SnapshotsObserved
    /\ ProcsConsistent
    /\ QueueKnown

(* completed_items counts the completed rows wherever a late submission    *)
(* resets it; Node's upsert leaves the counter of an earlier callback.     *)
CountersMatch == (\A p \in Handlers : language[p] # "node") => CountersAgree

(* No answer that reached the tables is taken out again by an older        *)
(* status, result or push: what PHP's selective update is for, when no     *)
(* other backend writes the same tables.                                   *)
AnswersSurvive ==
    [][Alone("php") =>
          \A t \in Tasks, s \in Subs : geoSubtasks[t][s].answer => geoSubtasks'[t][s].answer]_allVars

(* With it, an event marked processed means its answers are in the tables. *)
ProcessedMeansStored == Alone("php") => ProcessedAnswersStored

(* The service stops repeating a push only when an event row remembers it; *)
(* Go answers a failed insert as a duplicate.                              *)
AckedPushesRecorded ==
    [][(\A p \in Handlers : language[p] # "go") => pushes \ pushes' \subseteq processed']_allVars
=============================================================================
