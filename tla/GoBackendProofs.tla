-------------------------- MODULE GoBackendProofs ---------------------------
(***************************************************************************)
(* Theorems about the Go backend.  IndInv is inductive; what the runs of   *)
(* MCGoBackend check follows from it.                                      *)
(***************************************************************************)
EXTENDS GoBackend, ProcessProofs

LEMMA SaveSubmittedKeepsRows ==
    ASSUME StoreTypeOK, RowsWhole, RowsObserved,
           NEW m \in Snapshot, Observed(m), SaveSubmitted(m.task, m), UNCHANGED remote
    PROVE  StoreTypeOK' /\ RowsWhole' /\ RowsObserved'
<1>1. m.task \in Tasks /\ m.status \in MasterStatus
    BY DEF Snapshot
<1>2. /\ geoTasks'[m.task].status = m.status
      /\ geoSubtasks'[m.task] = SubRowsOf(m)
      /\ \A t \in Tasks \ {m.task} : /\ geoTasks'[t] = geoTasks[t]
                                     /\ geoSubtasks'[t] = geoSubtasks[t]
    BY <1>1 DEF SaveSubmitted, StoreTypeOK
<1>3. StoreTypeOK'
    BY <1>1, SubRowsType DEF SaveSubmitted, StoreTypeOK, TaskRow, SubmitColumns
<1>4. QED
    BY <1>2, <1>3, SnapshotRowsObserved
LEMMA SyncStep ==
    ASSUME IndInv, NEW p \in Procs, Sync(p) \/ CallFails(p)
    PROVE  IndInv'
<1>1. CASE StoreStatus(p)
    <2>1. pc[p] \in Saving
        BY <1>1 DEF StoreStatus, Saving
    <2>2. StoreTypeOK' /\ RowsWhole' /\ RowsObserved'
        BY <1>1, <2>1, SaverHolds, WriteSnapshotKeepsRows
        DEF StoreStatus, SaveRemoteResult, remoteVars
    <2>3. \/ GoTo(p, "idle", None, None)
          \/ GoTo(p, "fetchResult", job[p], None)
        BY <1>1 DEF StoreStatus, Return
    <2>4. "fetchResult" \in Fetching
        BY DEF Fetching
    <2>5. UNCHANGED <<remote, queue>> /\ pushes' \subseteq pushes /\ accepted' \subseteq Tasks
        BY <1>1 DEF StoreStatus, remoteVars, IndInv, TypeOK
    <2>6. QED
        BY <2>1, <2>2, <2>3, <2>4, <2>5, SaverHolds, SavingStep
<1>2. CASE StoreResult(p)
    <2>1. pc[p] \in Saving
        BY <1>2 DEF StoreResult, Saving
    <2>2. StoreTypeOK' /\ RowsWhole' /\ RowsObserved'
        BY <1>2, <2>1, SaverHolds, WriteSnapshotKeepsRows
        DEF StoreResult, SaveRemoteResult, remoteVars
    <2>3. /\ GoTo(p, "idle", None, None)
          /\ UNCHANGED <<remote, queue>> /\ pushes' \subseteq pushes /\ accepted' \subseteq Tasks
        BY <1>2 DEF StoreResult, Return, remoteVars, IndInv, TypeOK
    <2>4. QED
        BY <2>2, <2>3, SavingStep
<1>3. QED
    BY <1>1, <1>2, FetchStep, GiveUpStep DEF Sync, CallFails

LEMMA HandlerStep ==
    ASSUME IndInv, NEW p \in Handlers, Handler(p)
    PROVE  IndInv'
<1>0. p \in Procs
    BY DEF Procs
<1>1. ASSUME ReceiveCallback(p) PROVE IndInv'
    <2>1. "saveEvent" \in Saving \ Fetching
        BY DEF Saving, Fetching
    <2>2. QED
        BY <1>0, <1>1, <2>1, ReceiveStep DEF ReceiveCallback
<1>2. CASE StoreSubmitted(p)
    <2>1. pc[p] \in Saving
        BY <1>2 DEF StoreSubmitted, Saving
    <2>2. StoreTypeOK' /\ RowsWhole' /\ RowsObserved'
        BY <1>0, <1>2, <2>1, SaverHolds, SaveSubmittedKeepsRows DEF StoreSubmitted, remoteVars
    <2>3. /\ GoTo(p, "idle", None, None)
          /\ UNCHANGED <<remote, queue>> /\ pushes' \subseteq pushes /\ accepted' \subseteq Tasks
        BY <1>0, <1>2, <2>1, SaverHolds DEF StoreSubmitted, Return, remoteVars, IndInv, TypeOK
    <2>4. QED
        BY <1>0, <2>2, <2>3, SavingStep
<1>3. CASE StoreEvent(p)
    <2>1. pc[p] \in Saving
        BY <1>3 DEF StoreEvent, Saving
    <2>2. CASE GoTo(p, "saveCallback", job[p], msg[p]) /\ UNCHANGED pushes
        <3>1. "saveCallback" \in Saving /\ "saveCallback" \notin Fetching /\ msg[p] # None
            BY <1>0, <2>1, SaverHolds, NoneAssumption DEF Saving, Fetching
        <3>2. UNCHANGED <<remoteVars, storeVars, queue, accepted>>
            BY <1>3, <2>2 DEF StoreEvent, remoteVars
        <3>3. QED
            BY <1>0, <2>1, <2>2, <3>1, <3>2, SaverHolds, PrivateStep
    <2>3. CASE Acknowledge(msg[p]) /\ Return(p)
        <3>1. /\ GoTo(p, "idle", None, None) /\ pushes' \subseteq pushes
              /\ UNCHANGED <<remote, queue>> /\ accepted' \subseteq Tasks
              /\ UNCHANGED storeVars
            BY <1>3, <2>3, AcknowledgeOnlyRemoves DEF StoreEvent, Return, IndInv, TypeOK
        <3>2. StoreTypeOK' /\ RowsWhole' /\ RowsObserved'
            BY <3>1, IndInvIsCoreAndRows, RemoteUnchanged, StoreUnchanged
        <3>3. QED
            BY <1>0, <3>1, <3>2, SavingStep
    <2>4. QED
        BY <1>3, <2>2, <2>3 DEF StoreEvent
<1>4. CASE StoreCallback(p)
    <2>1. pc[p] \in Saving
        BY <1>4 DEF StoreCallback, Saving
    <2>2. StoreTypeOK' /\ RowsWhole' /\ RowsObserved'
        BY <1>0, <1>4, <2>1, SaverHolds, WriteSnapshotKeepsRows
        DEF StoreCallback, SaveRemoteResult
    <2>3. /\ GoTo(p, "idle", None, None)
          /\ UNCHANGED <<remote, queue>> /\ pushes' \subseteq pushes /\ accepted' \subseteq Tasks
        BY <1>4, AcknowledgeOnlyRemoves DEF StoreCallback, Return, IndInv, TypeOK
    <2>4. QED
        BY <1>0, <2>2, <2>3, SavingStep
<1>5. QED
    BY <1>0, <1>1, <1>2, <1>3, <1>4, RequestStep DEF Handler

LEMMA IndInvStep == IndInv /\ [Next]_vars => IndInv'
<1> SUFFICES ASSUME IndInv, [Next]_vars PROVE IndInv'
    OBVIOUS
<1>1. ASSUME NEW p \in Handlers, Handler(p) PROVE IndInv'
    BY <1>1, HandlerStep
<1>2. ASSUME NEW p \in Procs, Sync(p) \/ CallFails(p) PROVE IndInv'
    BY <1>2, SyncStep
<1>3. CASE StartPass \/ NextTask \/ Crash
    BY <1>3, LoopStep
<1>4. ASSUME NEW t \in Tasks, StopTask(t) \/ (Service(t) /\ UNCHANGED <<storeVars, procVars>>)
      PROVE  IndInv'
    BY <1>4, ServiceStep
<1>5. CASE UNCHANGED vars
    BY <1>5, StutterStep
<1>6. QED
    BY <1>1, <1>2, <1>3, <1>4, <1>5 DEF Next
-----------------------------------------------------------------------------
(* In every reachable state, whatever requests, pushes, passes, failures   *)
(* and crashes came before, rows, payloads under way and queued work are   *)
(* typed and are observations of the service (store.go, syncer.go).        *)
THEOREM IndInvInvariant == Spec => []IndInv
<1>1. QED
    BY IndInvInit, IndInvStep, PTL DEF Spec, Init

(* The types of every variable hold in every reachable state. *)
THEOREM TypeCorrect == Spec => []TypeOK
<1>1. IndInv => TypeOK
    BY DEF IndInv
<1>2. QED
    BY <1>1, IndInvInvariant, PTL

(* The scan's WHERE clause is complete (store.go:113-145): a finished task *)
(* whose rows differ from its result is selected, so no state the database *)
(* can get into hides missing answers from the background passes.          *)
THEOREM GapsAreRescanned == Spec => []GapRescanned
<1>1. IndInv => GapRescanned
    BY UnselectedIsMirrored DEF IndInv, TypeOK, GapRescanned
<1>2. QED
    BY <1>1, IndInvInvariant, PTL
-----------------------------------------------------------------------------
(* A step saves a submission, saves a snapshot, or leaves the rows alone.  *)
LEMMA StepsThatSave ==
    ASSUME IndInv, [Next]_vars
    PROVE  \/ \E p \in Procs : /\ pc[p] = "saveSubmitted"
                               /\ SaveSubmitted(job[p], msg[p])
                               /\ accepted' = accepted \cup {job[p]}
                               /\ Return(p)
           \/ /\ UNCHANGED accepted
              /\ \E p \in Procs, label \in {"idle", "fetchResult"}, t \in Tasks \cup {None} :
                    /\ pc[p] \in Saving
                    /\ SaveRemoteResult(msg[p])
                    /\ GoTo(p, label, t, None)
           \/ UNCHANGED <<geoTasks, geoSubtasks, accepted>>
<1>1. ASSUME NEW p \in Handlers, Handler(p), ~StoreSubmitted(p), ~StoreCallback(p)
      PROVE  UNCHANGED <<geoTasks, geoSubtasks, accepted>>
    BY <1>1 DEF Handler, CreateTask, ManualSync, ReceiveCallback, TakeUp, StoreEvent,
                storeVars
<1>2. ASSUME NEW p \in Procs, Sync(p) \/ CallFails(p), ~StoreStatus(p), ~StoreResult(p)
      PROVE  UNCHANGED <<geoTasks, geoSubtasks, accepted>>
    BY <1>2 DEF Sync, FetchStatus, FetchResult, CallFails, GiveUp, storeVars
<1>3. ASSUME NEW p \in Procs, StoreStatus(p) \/ StoreResult(p) \/ StoreCallback(p)
      PROVE  /\ UNCHANGED accepted
             /\ \E label \in {"idle", "fetchResult"}, t \in Tasks \cup {None} :
                   /\ pc[p] \in Saving
                   /\ SaveRemoteResult(msg[p])
                   /\ GoTo(p, label, t, None)
    <2>1. pc[p] \in Saving /\ UNCHANGED accepted /\ SaveRemoteResult(msg[p])
        BY <1>3 DEF StoreStatus, StoreResult, StoreCallback, Saving
    <2>2. job[p] \in Tasks
        BY <2>1, SaverHolds
    <2>3. GoTo(p, "idle", None, None) \/ GoTo(p, "fetchResult", job[p], None)
        BY <1>3 DEF StoreStatus, StoreResult, StoreCallback, Return
    <2>4. QED
        BY <2>1, <2>2, <2>3
<1>4. ASSUME NEW p \in Handlers, StoreSubmitted(p)
      PROVE  /\ pc[p] = "saveSubmitted" /\ SaveSubmitted(job[p], msg[p])
             /\ accepted' = accepted \cup {job[p]} /\ Return(p)
    BY <1>4 DEF StoreSubmitted
<1>5. ASSUME \/ StartPass \/ NextTask \/ Crash
             \/ \E t \in Tasks : StopTask(t)
             \/ UNCHANGED <<storeVars, procVars>>
             \/ UNCHANGED vars
      PROVE  UNCHANGED <<geoTasks, geoSubtasks, accepted>>
    BY <1>5 DEF StartPass, NextTask, Crash, StopTask, storeVars, procVars, vars
<1>6. Handlers \subseteq Procs
    BY DEF Procs
<1>7. QED
    BY <1>1, <1>2, <1>3, <1>4, <1>5, <1>6 DEF Next

(* A submission answered with success keeps its submit columns, whatever   *)
(* syncs and pushes come before or after it (store.go:27-65).              *)
THEOREM SubmissionsAreKept == Spec => []SubmissionsKept
<1>1. Init => SubmissionsKept
    BY DEF Init, ProcsInit, SubmissionsKept
<1>2. IndInv /\ SubmissionsKept /\ [Next]_vars => SubmissionsKept'
    <2> SUFFICES ASSUME IndInv, SubmissionsKept, [Next]_vars PROVE SubmissionsKept'
        OBVIOUS
    <2>0. geoTasks \in [Tasks -> TaskRow] /\ accepted \subseteq Tasks
        BY DEF IndInv, TypeOK, StoreTypeOK
    <2>1. ASSUME NEW p \in Procs, pc[p] = "saveSubmitted", SaveSubmitted(job[p], msg[p]),
                 accepted' = accepted \cup {job[p]}
          PROVE  SubmissionsKept'
        <3>1. job[p] \in Tasks
            BY <2>1, SaverHolds DEF Saving
        <3>2. QED
            BY <2>0, <2>1, <3>1 DEF SubmissionsKept, SaveSubmitted
    <2>2. ASSUME NEW p \in Procs, pc[p] \in Saving, SaveRemoteResult(msg[p]), UNCHANGED accepted
          PROVE  SubmissionsKept'
        <3>1. msg[p].task \in Tasks
            BY <2>2, SaverHolds
        <3>2. QED
            BY <2>0, <2>2, <3>1 DEF SubmissionsKept, SaveRemoteResult, WriteSnapshot
    <2>3. CASE UNCHANGED <<geoTasks, geoSubtasks, accepted>>
        BY <2>3 DEF SubmissionsKept
    <2>4. QED
        BY <2>1, <2>2, <2>3, StepsThatSave
<1>3. QED
    BY <1>1, <1>2, IndInvInvariant, PTL DEF Spec

(* A process that is about to save a submission holds the snapshot of a    *)
(* task the service has only just accepted.                                *)
LEMMA FreshStep ==
    ASSUME IndInv, SubmissionsFresh, [Next]_vars PROVE SubmissionsFresh'
<1>0. pc \in [Procs -> {"idle"} \cup Fetching \cup Saving] /\ msg \in [Procs -> Snapshot \cup {None}]
    BY DEF IndInv, TypeOK
<1>1. ASSUME NEW p \in Procs, NEW label, NEW t, NEW m, GoTo(p, label, t, m),
             label = "saveSubmitted" => CompletedItems(m) = 0
      PROVE  SubmissionsFresh'
    BY <1>0, <1>1 DEF GoTo, SubmissionsFresh, CompletedItems
<1>2. ASSUME UNCHANGED <<pc, msg>> PROVE SubmissionsFresh'
    BY <1>2 DEF SubmissionsFresh, CompletedItems
<1>3. ASSUME NEW t PROVE CompletedItems(StatusView(NewRemoteTask, t)) = 0
    <2>1. {s \in Subs : StatusView(NewRemoteTask, t).sub[s] = "completed"} = {}
        BY DEF StatusView, NewRemoteTask
    <2>2. QED
        BY <2>1, FS_EmptySet DEF CompletedItems
<1>4. ASSUME NEW p \in Procs, Sync(p) \/ CallFails(p) PROVE SubmissionsFresh'
    BY <1>1, <1>4 DEF Sync, FetchStatus, StoreStatus, FetchResult, StoreResult, CallFails,
                GiveUp, Return
<1>5. ASSUME NEW p \in Handlers, Handler(p) PROVE SubmissionsFresh'
    <2>1. p \in Procs
        BY DEF Procs
    <2>2. ASSUME NEW t \in Tasks, CreateTask(p, t) PROVE SubmissionsFresh'
        BY <1>1, <1>2, <1>3, <2>1, <2>2 DEF CreateTask
    <2>3. ASSUME NEW t \in Tasks, ManualSync(p, t) PROVE SubmissionsFresh'
        BY <1>1, <2>1, <2>3 DEF ManualSync
    <2>4. ASSUME StoreSubmitted(p) \/ ReceiveCallback(p) \/ StoreEvent(p) \/ StoreCallback(p)
          PROVE  SubmissionsFresh'
        BY <1>1, <2>1, <2>4 DEF StoreSubmitted, ReceiveCallback, TakeUp, StoreEvent,
                    StoreCallback, Return
    <2>5. QED
        BY <1>5, <2>2, <2>3, <2>4 DEF Handler
<1>6. CASE StartPass
    BY <1>2, <1>6 DEF StartPass
<1>7. CASE NextTask
    <2>1. Loop \in Procs
        BY DEF Procs
    <2>2. QED
        BY <1>1, <1>7, <2>1 DEF NextTask
<1>8. CASE Crash
    BY <1>8 DEF Crash, SubmissionsFresh
<1>9. ASSUME \/ \E t \in Tasks : StopTask(t)
             \/ UNCHANGED <<storeVars, procVars>>
             \/ UNCHANGED vars
      PROVE  SubmissionsFresh'
    BY <1>2, <1>9 DEF StopTask, procVars, vars
<1>10. QED
    BY <1>4, <1>5, <1>6, <1>7, <1>8, <1>9 DEF Next

(* completed_items equals the number of completed subtask rows in every    *)
(* reachable state (store.go:27-65, 205-227).  A submission resets the     *)
(* counter, which is right because its snapshot has no completed subtask.  *)
THEOREM CountersAlwaysAgree == Spec => []CountersAgree
<1> DEFINE Inv == CountersAgree /\ SubmissionsFresh
<1>1. Init => Inv
    <2>1. ASSUME Init, NEW t \in Tasks
          PROVE  CompletedRows(t) = {} /\ geoTasks[t].done = 0
        BY <2>1 DEF Init, StoreInit, NoTaskRow, NoSubRow, CompletedRows, Missing
    <2>2. Cardinality({}) = 0
        BY FS_EmptySet
    <2>3. Init => CountersAgree
        BY <2>1, <2>2 DEF CountersAgree
    <2>4. Init => SubmissionsFresh
        BY DEF Init, ProcsInit, SubmissionsFresh
    <2>5. QED
        BY <2>3, <2>4
<1>2. IndInv /\ Inv /\ [Next]_vars => CountersAgree'
    <2> SUFFICES ASSUME IndInv, Inv, [Next]_vars PROVE CountersAgree'
        OBVIOUS
    <2>0. StoreTypeOK
        BY DEF IndInv, TypeOK
    <2>1. ASSUME NEW p \in Procs, pc[p] = "saveSubmitted", SaveSubmitted(job[p], msg[p])
          PROVE  CountersAgree'
        <3> DEFINE m == msg[p]
        <3>1. m \in Snapshot /\ m.task = job[p] /\ m.task \in Tasks
            BY <2>1, SaverHolds DEF Saving
        <3>2. CompletedItems(m) = 0
            BY <2>1 DEF SubmissionsFresh
        <3>3. /\ geoTasks'[m.task].done = 0 /\ geoSubtasks'[m.task] = SubRowsOf(m)
              /\ \A t \in Tasks \ {m.task} : /\ geoTasks'[t] = geoTasks[t]
                                             /\ geoSubtasks'[t] = geoSubtasks[t]
            BY <2>0, <2>1, <3>1 DEF SaveSubmitted, StoreTypeOK
        <3>4. \A s \in Subs : geoSubtasks'[m.task][s].status = m.sub[s]
            BY <3>3 DEF SubRowsOf, SubRowOf
        <3>5. QED
            BY <2>0, <3>1, <3>2, <3>3, <3>4, SavedCounter
    <2>2. ASSUME NEW p \in Procs, pc[p] \in Saving, SaveRemoteResult(msg[p])
          PROVE  CountersAgree'
        <3> DEFINE m == msg[p]
        <3>1. m \in Snapshot /\ m.task \in Tasks
            BY <2>2, SaverHolds
        <3>2. /\ geoTasks'[m.task].done = CompletedItems(m)
              /\ geoSubtasks'[m.task] = SubRowsOf(m)
              /\ \A t \in Tasks \ {m.task} : /\ geoTasks'[t] = geoTasks[t]
                                             /\ geoSubtasks'[t] = geoSubtasks[t]
            BY <2>0, <2>2, <3>1 DEF SaveRemoteResult, WriteSnapshot, StoreTypeOK
        <3>3. \A s \in Subs : geoSubtasks'[m.task][s].status = m.sub[s]
            BY <3>2 DEF SubRowsOf, SubRowOf
        <3>4. QED
            BY <2>0, <3>1, <3>2, <3>3, SavedCounter
    <2>3. CASE UNCHANGED <<geoTasks, geoSubtasks, accepted>>
        BY <2>3 DEF CountersAgree, CompletedRows
    <2>4. QED
        BY <2>1, <2>2, <2>3, StepsThatSave
<1>3. IndInv /\ Inv /\ [Next]_vars => SubmissionsFresh'
    BY FreshStep
<1>4. QED
    BY <1>1, <1>2, <1>3, IndInvInvariant, PTL DEF Spec
-----------------------------------------------------------------------------
(* A save of the Go backend replaces all rows of one task by its snapshot. *)
LEMMA SaveOverwrites ==
    ASSUME IndInv, NEW p \in Procs, pc[p] \in Saving,
           SaveSubmitted(job[p], msg[p]) \/ SaveRemoteResult(msg[p])
    PROVE  /\ geoTasks'[job[p]].status = msg[p].status
           /\ geoSubtasks'[job[p]] = SubRowsOf(msg[p])
           /\ \A s \in Subs : geoSubtasks'[job[p]][s].status = msg[p].sub[s]
           /\ \A u \in Tasks \ {job[p]} : /\ geoTasks'[u] = geoTasks[u]
                                          /\ geoSubtasks'[u] = geoSubtasks[u]
<1>1. job[p] \in Tasks /\ msg[p].task = job[p] /\ StoreTypeOK
    BY SaverHolds
<1>2. QED
    BY <1>1 DEF SaveSubmitted, SaveRemoteResult, WriteSnapshot, StoreTypeOK, SubRowsOf, SubRowOf

LEMMA StoreFollows ==
    ASSUME IndInv, CoreInv, PayloadsCoherent, NEW p \in Procs,
           \/ StoreSubmitted(p) \/ StoreEvent(p) \/ StoreCallback(p)
           \/ StoreStatus(p) \/ StoreResult(p)
    PROVE  Follows
<1>1. pc[p] \in Saving /\ UNCHANGED remote /\ pushes' \subseteq pushes
    BY AcknowledgeOnlyRemoves
    DEF StoreSubmitted, StoreEvent, StoreCallback, StoreStatus, StoreResult, Saving, remoteVars
<1>2. CASE StoreEvent(p)
    <2>1. UNCHANGED <<geoTasks, geoSubtasks>>
        BY <1>2 DEF StoreEvent, storeVars
    <2>2. Coherent(msg[p])
        BY <1>1, SaverHolds, NoneAssumption DEF PayloadsCoherent
    <2>3. GoTo(p, "saveCallback", job[p], msg[p]) \/ GoTo(p, "idle", None, None)
        BY <1>2 DEF StoreEvent, Return
    <2>4. PayloadsCoherent'
        BY <1>1, <2>2, <2>3, CoherentGoTo
    <2>5. QED
        BY <1>1, <2>1, <2>4, RowsAlone DEF Follows
<1>3. CASE ~StoreEvent(p)
    <2>1. SaveSubmitted(job[p], msg[p]) \/ SaveRemoteResult(msg[p])
        BY <1>3 DEF StoreSubmitted, StoreCallback, StoreStatus, StoreResult
    <2>2. GoTo(p, "fetchResult", job[p], None) \/ GoTo(p, "idle", None, None)
        BY <1>3 DEF StoreSubmitted, StoreCallback, StoreStatus, StoreResult, Return
    <2>3. QED
        BY <1>1, <2>1, <2>2, SaveOverwrites, SaveFollows
<1>4. QED
    BY <1>2, <1>3

LEMMA NextFollows ==
    ASSUME IndInv, CoreInv, PayloadsCoherent, [Next]_vars PROVE Follows
<1>1. ASSUME NEW p \in Handlers, Handler(p) PROVE Follows
    <2>1. p \in Procs
        BY DEF Procs
    <2>2. ASSUME ReceiveCallback(p) PROVE Follows
        BY <2>1, <2>2, ReceiveFollows DEF ReceiveCallback
    <2>3. QED
        BY <1>1, <2>1, <2>2, StoreFollows, CreateFollows, ManualSyncFollows DEF Handler
<1>2. ASSUME NEW p \in Procs, Sync(p) \/ CallFails(p) PROVE Follows
    BY <1>2, FetchFollows, StoreFollows, GiveUpFollows DEF Sync, CallFails
<1>3. ASSUME StartPass \/ NextTask \/ Crash PROVE Follows
    BY <1>3, LoopFollows
<1>4. ASSUME NEW t \in Tasks, StopTask(t) PROVE Follows
    <2>1. /\ Stoppable(remote[t]) /\ remote' = [remote EXCEPT ![t] = Stopped(@)]
          /\ UNCHANGED <<pushes, geoTasks, geoSubtasks, msg>>
        BY <1>4 DEF StopTask, storeVars, procVars
    <2>2. QED
        BY <2>1, StopFollows
<1>5. ASSUME NEW t \in Tasks, Service(t), UNCHANGED <<storeVars, procVars>> PROVE Follows
    BY <1>5, ServiceFollows
<1>6. CASE UNCHANGED vars
    BY <1>6, StutterFollows
<1>7. QED
    BY <1>1, <1>2, <1>3, <1>4, <1>5, <1>6 DEF Next

(* The Go backend implements Replica: whatever saves interleave, the rows  *)
(* of a task show one past state of the service (store.go:27-65, 205-227). *)
THEOREM GoFollowsService == Spec => RowsFollowService
<1>1. Init => PayloadsCoherent /\ Abstract!Init
    BY CoherentInit, AbstractInit DEF Init
<1>2. IndInv /\ PayloadsCoherent /\ [Next]_vars
        => PayloadsCoherent' /\ [Abstract!Next]_<<Real, Copy>>
    BY NextFollows, IndInvIsCoreAndRows DEF Follows
<1>3. QED
    BY <1>1, <1>2, IndInvInvariant, PTL DEF Spec, RowsFollowService, Abstract!Spec
=============================================================================
