------------------------- MODULE NodeBackendProofs --------------------------
(***************************************************************************)
(* Theorems about the Node backend (react/src and vue/src).  IndInv is     *)
(* inductive here too, although saveCallback is not a transaction: the     *)
(* event row it commits early is in no other table.                        *)
(***************************************************************************)
EXTENDS NodeBackend, ProcessProofs

(* A save replaces all rows of one task by the snapshot the process holds. *)
LEMMA SaveOverwrites ==
    ASSUME IndInv, NEW p \in Procs, pc[p] \in Saving,
           SaveSubmitted(job[p], msg[p]) \/ SaveRemoteResult(msg[p])
    PROVE  /\ geoTasks'[job[p]].status = msg[p].status
           /\ geoSubtasks'[job[p]] = SubRowsOf(msg[p])
           /\ \A s \in Subs : geoSubtasks'[job[p]][s].status = msg[p].sub[s]
           /\ \A u \in Tasks \ {job[p]} : /\ geoTasks'[u] = geoTasks[u]
                                          /\ geoSubtasks'[u] = geoSubtasks[u]
<1>1. job[p] \in Tasks /\ msg[p].task = job[p] /\ StoreTypeOK
    BY SaverHolds
<1>2. QED
    BY <1>1 DEF SaveSubmitted, SaveRemoteResult, WriteSnapshot, StoreTypeOK, SubRowsOf, SubRowOf

LEMMA SaveKeepsRows ==
    ASSUME IndInv, NEW p \in Procs, pc[p] \in Saving, UNCHANGED remote,
           SaveSubmitted(job[p], msg[p]) \/ SaveRemoteResult(msg[p])
    PROVE  StoreTypeOK' /\ RowsWhole' /\ RowsObserved'
<1>1. /\ msg[p] \in Snapshot /\ Observed(msg[p]) /\ msg[p].task = job[p]
      /\ StoreTypeOK /\ RowsWhole /\ RowsObserved
    BY SaverHolds
<1>2. CASE SaveSubmitted(job[p], msg[p])
    <2>1. StoreTypeOK'
        BY <1>1, <1>2, SubRowsType
        DEF SaveSubmitted, StoreTypeOK, TaskRow, SubmitColumns, Snapshot
    <2>2. QED
        BY <1>1, <1>2, <2>1, SaveOverwrites, SnapshotRowsObserved
<1>3. CASE SaveRemoteResult(msg[p])
    BY <1>1, <1>3, WriteSnapshotKeepsRows DEF SaveRemoteResult
<1>4. QED
    BY <1>2, <1>3

(* The steps that save rows: what they write, and where the process goes.  *)
LEMMA SavingSteps ==
    ASSUME IndInv, NEW p \in Procs,
           \/ StoreSubmitted(p) \/ StoreCallback(p) \/ StoreStatus(p) \/ StoreResult(p)
    PROVE  /\ pc[p] \in Saving
           /\ SaveSubmitted(job[p], msg[p]) \/ SaveRemoteResult(msg[p])
           /\ GoTo(p, "idle", None, None) \/ GoTo(p, "fetchResult", job[p], None)
           /\ UNCHANGED <<remote, queue>> /\ pushes' \subseteq pushes /\ accepted' \subseteq Tasks
<1>1. pc[p] \in Saving
    BY DEF StoreSubmitted, StoreCallback, StoreStatus, StoreResult, Saving
<1>2. job[p] \in Tasks
    BY <1>1, SaverHolds
<1>3. QED
    BY <1>1, <1>2, AcknowledgeOnlyRemoves
    DEF StoreSubmitted, StoreCallback, StoreStatus, StoreResult, Return, remoteVars, IndInv,
        TypeOK

(* The steps of saveCallback around its save leave the rows alone.         *)
LEMMA EventSteps ==
    ASSUME IndInv, NEW p \in Procs, StoreDuplicate(p) \/ StoreEvent(p)
    PROVE  /\ pc[p] \in Saving
           /\ GoTo(p, "idle", None, None) \/ GoTo(p, "saveCallback", job[p], msg[p])
           /\ UNCHANGED <<remote, storeVars, queue, accepted>> /\ pushes' \subseteq pushes
BY AcknowledgeOnlyRemoves DEF StoreDuplicate, StoreEvent, Return, Saving, remoteVars

LEMMA StoreStep ==
    ASSUME IndInv, NEW p \in Procs,
           \/ StoreSubmitted(p) \/ StoreCallback(p) \/ StoreStatus(p) \/ StoreResult(p)
           \/ StoreDuplicate(p) \/ StoreEvent(p)
    PROVE  IndInv'
<1>1. CASE StoreDuplicate(p) \/ StoreEvent(p)
    <2>1. CASE StoreDuplicate(p)
        <3>1. /\ GoTo(p, "idle", None, None) /\ UNCHANGED <<remote, storeVars, queue, accepted>>
              /\ pushes' \subseteq pushes
            BY <2>1, AcknowledgeOnlyRemoves DEF StoreDuplicate, Return
        <3>2. StoreTypeOK' /\ RowsWhole' /\ RowsObserved'
            BY <3>1, IndInvIsCoreAndRows, RemoteUnchanged, StoreUnchanged
        <3>3. accepted' \subseteq Tasks
            BY <3>1 DEF IndInv, TypeOK
        <3>4. QED
            BY <3>1, <3>2, <3>3, SavingStep
    <2>2. CASE StoreEvent(p)
        <3>1. /\ pc[p] \in Saving /\ GoTo(p, "saveCallback", job[p], msg[p])
              /\ UNCHANGED <<remoteVars, storeVars, queue, accepted>>
            BY <2>2 DEF StoreEvent, Saving
        <3>2. "saveCallback" \in Saving /\ "saveCallback" \notin Fetching /\ msg[p] # None
            BY <3>1, SaverHolds, NoneAssumption DEF Saving, Fetching
        <3>3. QED
            BY <3>1, <3>2, SaverHolds, PrivateStep
    <2>3. QED
        BY <1>1, <2>1, <2>2
<1>2. CASE StoreSubmitted(p) \/ StoreCallback(p) \/ StoreStatus(p) \/ StoreResult(p)
    <2>1. "fetchResult" \in Fetching
        BY DEF Fetching
    <2>2. StoreTypeOK' /\ RowsWhole' /\ RowsObserved'
        BY <1>2, SavingSteps, SaveKeepsRows
    <2>3. job[p] \in Tasks /\ remote[job[p]].status # Missing
        BY <1>2, SavingSteps, SaverHolds
    <2>4. QED
        BY <1>2, <2>1, <2>2, <2>3, SavingSteps, SavingStep
<1>3. QED
    BY <1>1, <1>2

LEMMA StoreFollows ==
    ASSUME IndInv, CoreInv, PayloadsCoherent, NEW p \in Procs,
           \/ StoreSubmitted(p) \/ StoreCallback(p) \/ StoreStatus(p) \/ StoreResult(p)
           \/ StoreDuplicate(p) \/ StoreEvent(p)
    PROVE  Follows
<1>1. CASE StoreDuplicate(p) \/ StoreEvent(p)
    <2>1. /\ pc[p] \in Saving /\ UNCHANGED <<remote, geoTasks, geoSubtasks>>
          /\ GoTo(p, "idle", None, None) \/ GoTo(p, "saveCallback", job[p], msg[p])
          /\ pushes' \subseteq pushes
        BY <1>1, EventSteps DEF storeVars
    <2>2. Coherent(msg[p])
        BY <2>1, SaverHolds, NoneAssumption DEF PayloadsCoherent
    <2>3. PayloadsCoherent'
        BY <2>1, <2>2, CoherentGoTo
    <2>4. QED
        BY <2>1, <2>3, RowsAlone DEF Follows
<1>2. CASE StoreSubmitted(p) \/ StoreCallback(p) \/ StoreStatus(p) \/ StoreResult(p)
    BY <1>2, SavingSteps, SaveOverwrites, SaveFollows
<1>3. QED
    BY <1>1, <1>2
-----------------------------------------------------------------------------
LEMMA NextStep ==
    ASSUME IndInv, CoreInv, PayloadsCoherent, [Next]_eventVars PROVE IndInv' /\ Follows
<1>1. ASSUME NEW p \in Handlers, Handler(p) PROVE IndInv' /\ Follows
    <2>1. p \in Procs
        BY DEF Procs
    <2>2. ASSUME ReceiveCallback(p) PROVE IndInv' /\ Follows
        <3>1. PICK m \in pushes :
                TakeUp(p, m, IF m \in processed THEN "saveDuplicate" ELSE "saveEvent")
            BY <2>2 DEF ReceiveCallback
        <3>2. (IF m \in processed THEN "saveDuplicate" ELSE "saveEvent") \in Saving \ Fetching
            BY DEF Saving, Fetching
        <3>3. QED
            BY <2>1, <3>1, <3>2, ReceiveStep, ReceiveFollows
    <2>3. QED
        BY <1>1, <2>1, <2>2, StoreStep, StoreFollows, RequestStep, CreateFollows, ManualSyncFollows
        DEF Handler
<1>2. ASSUME NEW p \in Procs, SyncOne(p) \/ GiveUp(p) PROVE IndInv' /\ Follows
    BY <1>2, FetchStep, FetchFollows, StoreStep, StoreFollows, GiveUpStep, GiveUpFollows
    DEF SyncOne
<1>3. ASSUME StartPass \/ NextTask \/ Crash PROVE IndInv' /\ Follows
    BY <1>3, LoopStep, LoopFollows
<1>4. ASSUME NEW t \in Tasks, StopTask(t) PROVE IndInv' /\ Follows
    <2>1. /\ Stoppable(remote[t]) /\ remote' = [remote EXCEPT ![t] = Stopped(@)]
          /\ UNCHANGED <<pushes, geoTasks, geoSubtasks, msg>>
        BY <1>4 DEF StopTask, storeVars, procVars
    <2>2. QED
        BY <1>4, <2>1, ServiceStep, StopFollows
<1>5. ASSUME NEW t \in Tasks, Service(t), UNCHANGED <<storeVars, procVars>>
      PROVE  IndInv' /\ Follows
    BY <1>5, ServiceStep, ServiceFollows
<1>6. CASE UNCHANGED eventVars
    BY <1>6, StutterStep, StutterFollows DEF eventVars
<1>7. QED
    BY <1>1, <1>2, <1>3, <1>4, <1>5, <1>6 DEF Next, SyncUnfinished

LEMMA InitHolds == Init => IndInv /\ PayloadsCoherent /\ Abstract!Init
BY IndInvInit, CoherentInit, AbstractInit DEF Init

(* In every reachable state rows are whole and every row and payload is an *)
(* observation of the service (repository.js:78-127, syncer.js:17-28).     *)
THEOREM NodeRowsObserved == Spec => []IndInv
<1>1. IndInv /\ PayloadsCoherent /\ [Next]_eventVars => (IndInv /\ PayloadsCoherent)'
    BY NextStep, IndInvIsCoreAndRows DEF Follows
<1>2. QED
    BY <1>1, InitHolds, PTL DEF Spec

(* The Node backend implements Replica: statuses of two snapshots are      *)
(* never mixed in the rows of a task (repository.js:144-152).              *)
THEOREM NodeFollowsService == Spec => RowsFollowService
<1>1. IndInv /\ PayloadsCoherent /\ [Next]_eventVars
        => (IndInv /\ PayloadsCoherent)' /\ [Abstract!Next]_<<Real, Copy>>
    BY NextStep, IndInvIsCoreAndRows DEF Follows
<1>2. QED
    BY <1>1, InitHolds, PTL DEF Spec, RowsFollowService, Abstract!Spec

(* The scan sees every gap of a finished task (repository.js:129-142).     *)
THEOREM NodeGapsAreRescanned == Spec => []GapRescanned
<1>1. IndInv => GapRescanned
    BY UnselectedIsMirrored DEF IndInv, TypeOK, GapRescanned
<1>2. QED
    BY <1>1, NodeRowsObserved, PTL
-----------------------------------------------------------------------------
(* A process that is past the event row, or has found it, relies on it.    *)
EventsKnown ==
    \A p \in Procs : pc[p] \in {"saveCallback", "saveDuplicate"} => msg[p] \in processed

(* One process moves on; event rows are never deleted.                     *)
LEMMA EventsGoTo ==
    ASSUME IndInv, EventsKnown, processed \subseteq processed',
           NEW p \in Procs, NEW label, NEW t, NEW m, GoTo(p, label, t, m),
           label \in {"saveCallback", "saveDuplicate"} => m \in processed'
    PROVE  EventsKnown'
BY DEF EventsKnown, GoTo, IndInv, TypeOK

LEMMA EventsStep ==
    ASSUME IndInv, EventsKnown, [Next]_eventVars
    PROVE  EventsKnown' /\ pushes \ pushes' \subseteq processed'
<1>0. Handlers \subseteq Procs /\ Loop \in Procs
    BY DEF Procs
<1>1. ASSUME NEW p \in Handlers, NEW t \in Tasks, UNCHANGED processed,
             CreateTask(p, t) \/ ManualSync(p, t)
      PROVE  EventsKnown' /\ UNCHANGED pushes
    <2>1. \/ GoTo(p, "saveSubmitted", t, StatusView(NewRemoteTask, t))
          \/ GoTo(p, "fetchStatus", t, None)
          \/ UNCHANGED <<pc, job, msg>>
        BY <1>1 DEF CreateTask, ManualSync
    <2>2. UNCHANGED pushes
        BY <1>1 DEF CreateTask, ManualSync, remoteVars
    <2>3. QED
        BY <1>0, <1>1, <2>1, <2>2, EventsGoTo DEF EventsKnown
<1>2. ASSUME NEW p \in Handlers, ReceiveCallback(p) PROVE EventsKnown' /\ UNCHANGED pushes
    <2>1. PICK m \in pushes :
            /\ TakeUp(p, m, IF m \in processed THEN "saveDuplicate" ELSE "saveEvent")
            /\ UNCHANGED processed
        BY <1>2 DEF ReceiveCallback
    <2>2. GoTo(p, IF m \in processed THEN "saveDuplicate" ELSE "saveEvent", m.task, m)
          /\ UNCHANGED pushes
        BY <2>1 DEF TakeUp, remoteVars
    <2>3. QED
        BY <1>0, <2>1, <2>2, EventsGoTo
<1>3. ASSUME NEW p \in Procs, StoreDuplicate(p) \/ StoreCallback(p)
      PROVE  EventsKnown' /\ pushes \ pushes' \subseteq processed'
    <2>1. msg[p] \in processed /\ UNCHANGED processed
        BY <1>3 DEF StoreDuplicate, StoreCallback, EventsKnown
    <2>2. GoTo(p, "idle", None, None) /\ pushes' \in {pushes, pushes \ {msg[p]}}
        BY <1>3 DEF StoreDuplicate, StoreCallback, Return, Acknowledge
    <2>3. QED
        BY <2>1, <2>2, EventsGoTo
<1>4. ASSUME NEW p \in Procs, StoreEvent(p) PROVE EventsKnown' /\ UNCHANGED pushes
    <2>1. /\ processed' = processed \cup {msg[p]} /\ GoTo(p, "saveCallback", job[p], msg[p])
          /\ UNCHANGED pushes
        BY <1>4 DEF StoreEvent, remoteVars
    <2>2. QED
        BY <2>1, EventsGoTo
<1>5. ASSUME NEW p \in Procs,
             \/ StoreSubmitted(p) \/ StoreStatus(p) \/ StoreResult(p)
             \/ (FetchStatus(p) \/ FetchResult(p) \/ GiveUp(p)) /\ UNCHANGED processed
      PROVE  EventsKnown' /\ UNCHANGED pushes
    <2>1. UNCHANGED <<pushes, processed>>
        BY <1>5 DEF StoreSubmitted, StoreStatus, StoreResult, FetchStatus, FetchResult, GiveUp,
                    remoteVars
    <2>2. \E label \in {"idle", "fetchResult", "saveStatus", "saveResult"} : \E t, m :
            GoTo(p, label, t, m)
        BY <1>5 DEF StoreSubmitted, StoreStatus, StoreResult, FetchStatus, FetchResult, GiveUp,
                    Return
    <2>3. QED
        BY <2>1, <2>2, EventsGoTo
<1>6. ASSUME UNCHANGED processed, StartPass \/ NextTask \/ Crash
      PROVE  EventsKnown' /\ UNCHANGED pushes
    <2>1. UNCHANGED pushes
        BY <1>6 DEF StartPass, NextTask, Crash, remoteVars
    <2>2. CASE StartPass
        BY <1>6, <2>1, <2>2 DEF StartPass, EventsKnown
    <2>3. CASE NextTask
        BY <1>0, <1>6, <2>1, <2>3, EventsGoTo DEF NextTask
    <2>4. CASE Crash
        BY <2>1, <2>4 DEF Crash, EventsKnown
    <2>5. QED
        BY <1>6, <2>1, <2>2, <2>3, <2>4
<1>7. ASSUME UNCHANGED <<pc, msg, processed>>, pushes \subseteq pushes'
      PROVE  EventsKnown' /\ pushes \ pushes' \subseteq processed'
    BY <1>7 DEF EventsKnown
<1>8. ASSUME NEW t \in Tasks, UNCHANGED processed,
             StopTask(t) \/ (Service(t) /\ UNCHANGED <<storeVars, procVars>>)
      PROVE  EventsKnown' /\ pushes \ pushes' \subseteq processed'
    <2>1. pushes \subseteq pushes' /\ UNCHANGED <<pc, msg>>
        BY <1>8 DEF StopTask, procVars, Service, RemoteWork, RemoteStart, RemoteFinish,
                    RemotePush
    <2>2. QED
        BY <1>7, <1>8, <2>1
<1>9. CASE UNCHANGED eventVars
    BY <1>7, <1>9 DEF eventVars, vars, remoteVars, procVars
<1>10. ASSUME NEW p \in Procs, SyncOne(p) \/ (GiveUp(p) /\ UNCHANGED processed)
       PROVE  EventsKnown' /\ UNCHANGED pushes
    BY <1>5, <1>10 DEF SyncOne
<1>11. ASSUME NEW p \in Handlers, Handler(p)
       PROVE  EventsKnown' /\ pushes \ pushes' \subseteq processed'
    BY <1>0, <1>1, <1>2, <1>3, <1>4, <1>5, <1>11 DEF Handler
<1>12. QED
    BY <1>6, <1>8, <1>9, <1>10, <1>11 DEF Next, SyncUnfinished

(* The service is told to stop repeating a push only when an event row     *)
(* remembers the payload (repository.js:116-127, server.js:95-103).        *)
THEOREM NodeAckedAreRecorded == Spec => AckedAreRecorded
<1>1. Init => EventsKnown
    BY DEF Init, ProcsInit, EventsKnown
<1>2. IndInv /\ EventsKnown /\ [Next]_eventVars
        => EventsKnown' /\ [pushes \ pushes' \subseteq processed']_eventVars
    BY EventsStep
<1>3. QED
    BY <1>1, <1>2, NodeRowsObserved, PTL DEF Spec, AckedAreRecorded
=============================================================================
