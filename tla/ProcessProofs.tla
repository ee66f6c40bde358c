---------------------------- MODULE ProcessProofs ----------------------------
(***************************************************************************)
(* Lemmas about the steps all backends share, for any tasks, subtasks,     *)
(* number of concurrent requests and batch limit: each keeps CoreInv, and  *)
(* IndInv with it, and is a step of Replica or none.  A backend's proof    *)
(* adds the steps that save rows.                                          *)
(***************************************************************************)
EXTENDS BackendProcesses, FiniteSetTheorems, TLAPS

-----------------------------------------------------------------------------
(* The order of statuses. *)

LEMMA SubPrecedesTransitive ==
    \A a, b, c \in SubStatus : SubPrecedes(a, b) /\ SubPrecedes(b, c) => SubPrecedes(a, c)
BY DEF SubPrecedes, SubStatus

LEMMA MasterPrecedesTransitive ==
    \A a, b, c \in MasterStatus :
        MasterPrecedes(a, b) /\ MasterPrecedes(b, c) => MasterPrecedes(a, c)
BY DEF MasterPrecedes, MasterStatus, Terminal

(* The number of completed subtasks a payload shows is a natural number. *)
LEMMA CompletedItemsType ==
    ASSUME NEW m PROVE CompletedItems(m) \in Nat
<1>1. IsFiniteSet({s \in Subs : m.sub[s] = "completed"})
    BY SubsAssumption, FS_Subset
<1>2. QED
    BY <1>1, FS_CardinalityType DEF CompletedItems
-----------------------------------------------------------------------------
(* The remote record of a known task never moves backwards.  This is all   *)
(* the proof uses of the service's own steps.                              *)
RemoteForward ==
    \A t \in Tasks : remote[t].status # Missing =>
        /\ remote'[t].status # Missing
        /\ MasterPrecedes(remote[t].status, remote'[t].status)
        /\ \A s \in Subs : SubPrecedes(remote[t].sub[s], remote'[t].sub[s])

LEMMA ObservedStaysObserved ==
    ASSUME RemoteTypeOK, RemoteTypeOK', RemoteForward, NEW m \in Snapshot, Observed(m)
    PROVE  Observed(m)'
BY SubPrecedesTransitive, MasterPrecedesTransitive
DEF RemoteTypeOK, RemoteTask, RemoteForward, Snapshot, Observed, Missing

LEMMA RowsStayObserved ==
    ASSUME RemoteTypeOK, RemoteTypeOK', RemoteForward, StoreTypeOK, RowsObserved,
           UNCHANGED <<geoTasks, geoSubtasks>>
    PROVE  RowsObserved'
<1> SUFFICES ASSUME NEW t \in Tasks, HasRow(t)'
             PROVE  /\ remote'[t].status # Missing
                    /\ MasterPrecedes(geoTasks'[t].status, remote'[t].status)
                    /\ \A s \in Subs : geoSubtasks'[t][s].status # Missing =>
                          /\ SubPrecedes(geoSubtasks'[t][s].status, remote'[t].sub[s])
                          /\ geoSubtasks'[t][s].answer
                                => geoSubtasks'[t][s].status = "completed"
    BY DEF RowsObserved
<1>1. HasRow(t)
    BY DEF HasRow
<1>2. /\ remote[t].status \in MasterStatus /\ remote'[t].status \in MasterStatus
      /\ geoTasks[t].status \in MasterStatus
    BY <1>1 DEF RemoteTypeOK, RemoteTask, RemoteForward, RowsObserved, StoreTypeOK,
                TaskRow, HasRow, Missing
<1>3. \A s \in Subs : /\ remote[t].sub[s] \in SubStatus /\ remote'[t].sub[s] \in SubStatus
                      /\ geoSubtasks[t][s].status \in SubStatus \cup {Missing}
    BY DEF RemoteTypeOK, RemoteTask, StoreTypeOK, SubRow
<1>4. MasterPrecedes(geoTasks'[t].status, remote'[t].status)
    BY <1>1, <1>2, MasterPrecedesTransitive DEF RemoteForward, RowsObserved
<1>5. ASSUME NEW s \in Subs, geoSubtasks'[t][s].status # Missing
      PROVE  SubPrecedes(geoSubtasks'[t][s].status, remote'[t].sub[s])
    BY <1>1, <1>3, <1>5, SubPrecedesTransitive DEF RemoteForward, RowsObserved
<1>6. QED
    BY <1>1, <1>4, <1>5 DEF RemoteForward, RowsObserved
-----------------------------------------------------------------------------
(* Each way the remote record changes moves it forward. *)

LEMMA NewTaskForward ==
    ASSUME RemoteTypeOK, RemoteConsistent, NEW t \in Tasks, remote[t].status = Missing,
           remote' = [remote EXCEPT ![t] = NewRemoteTask], UNCHANGED pushes
    PROVE  RemoteTypeOK' /\ RemoteConsistent' /\ RemoteForward
BY DEF RemoteTypeOK, RemoteTask, RemoteConsistent, RemoteForward, NewRemoteTask, Missing,
       MasterStatus, Terminal, SubStatus, MasterPrecedes, SubPrecedes

LEMMA StoppedForward ==
    ASSUME RemoteTypeOK, RemoteConsistent, NEW t \in Tasks, Stoppable(remote[t]),
           remote' = [remote EXCEPT ![t] = Stopped(@)], UNCHANGED pushes
    PROVE  RemoteTypeOK' /\ RemoteConsistent' /\ RemoteForward
BY DEF RemoteTypeOK, RemoteTask, RemoteConsistent, RemoteForward, Stopped, Stoppable,
       Missing, MasterStatus, Terminal, SubStatus, MasterPrecedes, SubPrecedes

LEMMA StartForward ==
    ASSUME RemoteTypeOK, RemoteConsistent, NEW t \in Tasks, NEW s \in Subs,
           RemoteStart(t, s)
    PROVE  RemoteTypeOK' /\ RemoteConsistent' /\ RemoteForward
BY DEF RemoteStart, RemoteTypeOK, RemoteTask, RemoteConsistent, RemoteForward,
       Missing, MasterStatus, Terminal, SubStatus, MasterPrecedes, SubPrecedes

LEMMA FinishForward ==
    ASSUME RemoteTypeOK, RemoteConsistent, NEW t \in Tasks, NEW s \in Subs,
           RemoteFinish(t, s)
    PROVE  RemoteTypeOK' /\ RemoteConsistent' /\ RemoteForward
<1>1. PICK outcome \in {"completed"} \cup FinalFailures :
        remote' = [remote EXCEPT ![t] =
            [status |-> IF remote[t].status = "stopped" THEN "stopped"
                        ELSE Derived([remote[t].sub EXCEPT ![s] = outcome]),
             sub |-> [remote[t].sub EXCEPT ![s] = outcome]]]
    BY DEF RemoteFinish
<1> DEFINE sub == [remote[t].sub EXCEPT ![s] = outcome]
<1>2. outcome \in {"completed", "failed", "error"}
    BY FailuresAssumption
<1>3. sub \in [Subs -> SubStatus]
    BY <1>2 DEF RemoteTypeOK, RemoteTask, SubStatus
<1>4. /\ Derived(sub) \in {"processing", "completed", "partial_completed", "failed"}
      /\ Derived(sub) # "processing" => Settled(sub)
    BY DEF Derived
<1>5. remote[t].status \in {"pending", "processing", "stopped"}
    BY DEF RemoteFinish, RemoteConsistent, Settled, RemoteTypeOK, RemoteTask, MasterStatus,
           Terminal
<1>6. RemoteTypeOK'
    BY <1>1, <1>3, <1>4 DEF RemoteFinish, RemoteTypeOK, RemoteTask, MasterStatus, Terminal
<1>7. RemoteConsistent'
    BY <1>1, <1>4 DEF RemoteConsistent, RemoteTypeOK
<1>8. RemoteForward
    <2> SUFFICES ASSUME NEW u \in Tasks, remote[u].status # Missing
                 PROVE  /\ remote'[u].status # Missing
                        /\ MasterPrecedes(remote[u].status, remote'[u].status)
                        /\ \A x \in Subs : SubPrecedes(remote[u].sub[x], remote'[u].sub[x])
        BY DEF RemoteForward
    <2>1. CASE u # t
        BY <1>1, <2>1 DEF RemoteTypeOK, MasterPrecedes, SubPrecedes
    <2>2. CASE u = t
        <3>1. /\ remote'[t].sub = sub
              /\ remote'[t].status = IF remote[t].status = "stopped" THEN "stopped"
                                     ELSE Derived(sub)
            BY <1>1 DEF RemoteTypeOK
        <3>2. /\ remote'[t].status # Missing
              /\ MasterPrecedes(remote[t].status, remote'[t].status)
            BY <3>1, <1>4, <1>5 DEF MasterPrecedes, Terminal, Missing
        <3>3. \A x \in Subs : SubPrecedes(remote[t].sub[x], sub[x])
            BY <1>2 DEF RemoteFinish, SubPrecedes, RemoteTypeOK, RemoteTask
        <3>4. QED
            BY <2>2, <3>1, <3>2, <3>3
    <2>3. QED
        BY <2>1, <2>2
<1>9. QED
    BY <1>6, <1>7, <1>8
-----------------------------------------------------------------------------
(* Each transaction keeps the rows typed, whole and observed. *)

LEMMA SnapshotRowsObserved ==
    ASSUME RowsWhole, RowsObserved, UNCHANGED remote, NEW m \in Snapshot, Observed(m),
           geoTasks'[m.task].status = m.status,
           geoSubtasks'[m.task] = SubRowsOf(m),
           \A t \in Tasks \ {m.task} : /\ geoTasks'[t] = geoTasks[t]
                                       /\ geoSubtasks'[t] = geoSubtasks[t]
    PROVE  RowsWhole' /\ RowsObserved'
<1>1. /\ m.task \in Tasks /\ m.sub \in [Subs -> SubStatus]
    BY DEF Snapshot
<1>2. \A s \in Subs : /\ geoSubtasks'[m.task][s].status = m.sub[s]
                      /\ geoSubtasks'[m.task][s].answer = (s \in m.answers)
    BY DEF SubRowsOf, SubRowOf
<1>3. RowsWhole'
    BY <1>1, <1>2 DEF RowsWhole, HasRow, SubStatus, Missing
<1>4. RowsObserved'
    <2>1. ASSUME NEW t \in Tasks, t # m.task, HasRow(t)'
          PROVE  /\ remote'[t].status # Missing
                 /\ MasterPrecedes(geoTasks'[t].status, remote'[t].status)
                 /\ \A s \in Subs : geoSubtasks'[t][s].status # Missing =>
                       /\ SubPrecedes(geoSubtasks'[t][s].status, remote'[t].sub[s])
                       /\ geoSubtasks'[t][s].answer
                             => geoSubtasks'[t][s].status = "completed"
        BY <2>1 DEF RowsObserved, HasRow
    <2>2. /\ remote'[m.task].status # Missing
          /\ MasterPrecedes(geoTasks'[m.task].status, remote'[m.task].status)
          /\ \A s \in Subs :
                /\ SubPrecedes(geoSubtasks'[m.task][s].status, remote'[m.task].sub[s])
                /\ geoSubtasks'[m.task][s].answer
                      => geoSubtasks'[m.task][s].status = "completed"
        BY <1>2 DEF Observed
    <2>3. QED
        BY <2>1, <2>2 DEF RowsObserved
<1>5. QED
    BY <1>3, <1>4

LEMMA SubRowsType ==
    ASSUME NEW m \in Snapshot PROVE SubRowsOf(m) \in [Subs -> SubRow]
BY DEF Snapshot, SubRowsOf, SubRowOf, SubRow

LEMMA WriteSnapshotKeepsRows ==
    ASSUME StoreTypeOK, RowsWhole, RowsObserved,
           NEW m \in Snapshot, Observed(m), WriteSnapshot(m), UNCHANGED remote
    PROVE  StoreTypeOK' /\ RowsWhole' /\ RowsObserved'
<1>1. m.task \in Tasks /\ m.status \in MasterStatus
    BY DEF Snapshot
<1>2. /\ geoTasks'[m.task].status = m.status
      /\ geoSubtasks'[m.task] = SubRowsOf(m)
      /\ \A t \in Tasks \ {m.task} : /\ geoTasks'[t] = geoTasks[t]
                                     /\ geoSubtasks'[t] = geoSubtasks[t]
    BY <1>1 DEF WriteSnapshot, StoreTypeOK
<1>3. StoreTypeOK'
    BY <1>1, CompletedItemsType, SubRowsType DEF WriteSnapshot, StoreTypeOK, TaskRow
<1>4. QED
    BY <1>2, <1>3, SnapshotRowsObserved

-----------------------------------------------------------------------------
(* What does not depend on how a backend writes rows, and is inductive by  *)
(* itself: IndInv is CoreInv with RowsWhole and RowsObserved.              *)
CoreInv ==
    /\ TypeOK
    /\ RemoteConsistent
    /\ SnapshotsObserved
    /\ ProcsConsistent
    /\ QueueKnown

LEMMA IndInvIsCoreAndRows == IndInv <=> CoreInv /\ RowsWhole /\ RowsObserved
BY DEF IndInv, CoreInv

LEMMA ViewsObserved ==
    ASSUME RemoteTypeOK, NEW t \in Tasks, remote[t].status # Missing
    PROVE  /\ StatusView(remote[t], t) \in Snapshot
           /\ Observed(StatusView(remote[t], t))
           /\ ResultView(remote[t], t) \in Snapshot
           /\ Observed(ResultView(remote[t], t))
BY DEF RemoteTypeOK, RemoteTask, StatusView, ResultView, Snapshot, Observed,
       MasterPrecedes, SubPrecedes, MasterStatus, Missing

LEMMA QueueStaysKnown ==
    ASSUME CoreInv, RemoteForward, UNCHANGED queue
    PROVE  queue' \in Seq(Tasks) /\ QueueKnown'
BY DEF CoreInv, TypeOK, QueueKnown, RemoteForward

LEMMA PushesStayObserved ==
    ASSUME CoreInv, RemoteTypeOK', RemoteForward, pushes' \subseteq pushes
    PROVE  \A m \in pushes' : Observed(m)'
BY ObservedStaysObserved DEF CoreInv, TypeOK, RemoteTypeOK, SnapshotsObserved

(* A step that leaves the remote record alone trivially moves it forward. *)
LEMMA RemoteUnchanged ==
    ASSUME CoreInv, UNCHANGED remote, pushes' \subseteq pushes
    PROVE  RemoteTypeOK' /\ RemoteConsistent' /\ RemoteForward
BY DEF CoreInv, TypeOK, RemoteTypeOK, RemoteConsistent, RemoteForward, MasterPrecedes,
       SubPrecedes

(* What a process about to save, or to fetch, can rely on. *)
LEMMA SaverKnows ==
    ASSUME CoreInv, NEW p \in Procs, pc[p] \in Saving
    PROVE  /\ msg[p] \in Snapshot /\ Observed(msg[p]) /\ msg[p].task = job[p]
           /\ job[p] \in Tasks /\ remote[job[p]].status # Missing
           /\ StoreTypeOK
BY DEF CoreInv, TypeOK, SnapshotsObserved, ProcsConsistent, Observed, Snapshot

LEMMA FetcherKnows ==
    ASSUME CoreInv, NEW p \in Procs, pc[p] \in Fetching
    PROVE  /\ job[p] \in Tasks /\ job[p] # None
           /\ RemoteTypeOK /\ remote[job[p]].status # Missing
BY DEF CoreInv, TypeOK, ProcsConsistent

LEMMA AcknowledgeOnlyRemoves ==
    ASSUME NEW m, Acknowledge(m) PROVE pushes' \subseteq pushes
BY DEF Acknowledge
-----------------------------------------------------------------------------
(* Process bookkeeping: a step of p leaves every other process alone. *)

(* A process moves by GoTo while the service moves forward or stays.  The  *)
(* rows may change too; their types are for the caller to show.            *)
LEMMA GoToStep ==
    ASSUME CoreInv, RemoteTypeOK', RemoteConsistent', RemoteForward, StoreTypeOK',
           pushes' \subseteq pushes, accepted' \subseteq Tasks,
           queue' \in Seq(Tasks), QueueKnown',
           NEW p \in Procs, NEW label, NEW t, NEW m, GoTo(p, label, t, m),
           label \in {"idle"} \cup Fetching \cup Saving,
           t \in Tasks \cup {None}, m \in Snapshot \cup {None},
           m # None => Observed(m)',
           label \in Saving => m # None /\ m.task = t,
           label \in Fetching => t # None /\ remote'[t].status # Missing
    PROVE  CoreInv'
<1>1. /\ pc' \in [Procs -> {"idle"} \cup Fetching \cup Saving]
      /\ job' \in [Procs -> Tasks \cup {None}]
      /\ msg' \in [Procs -> Snapshot \cup {None}]
    BY DEF CoreInv, TypeOK, GoTo
<1>2. /\ pc'[p] = label /\ job'[p] = t /\ msg'[p] = m
      /\ \A q \in Procs \ {p} : pc'[q] = pc[q] /\ job'[q] = job[q] /\ msg'[q] = msg[q]
    BY DEF CoreInv, TypeOK, GoTo
<1>3. ASSUME NEW q \in Procs, msg'[q] # None PROVE Observed(msg[q])'
    <2>1. CASE q = p
        BY <1>2, <1>3, <2>1 DEF Observed
    <2>2. CASE q # p
        <3>1. msg[q] \in Snapshot /\ Observed(msg[q])
            BY <1>2, <1>3, <2>2 DEF CoreInv, TypeOK, SnapshotsObserved
        <3>2. \A n \in Snapshot : Observed(n) => Observed(n)'
            BY ObservedStaysObserved DEF CoreInv, TypeOK
        <3>3. QED
            BY <1>2, <2>2, <3>1, <3>2 DEF Observed
    <2>3. QED
        BY <2>1, <2>2
<1>4. \A u \in Tasks : remote[u].status # Missing => remote'[u].status # Missing
    BY DEF RemoteForward
<1>5. ProcsConsistent'
    BY <1>2, <1>4 DEF CoreInv, TypeOK, ProcsConsistent
<1>6. QED
    BY <1>1, <1>3, <1>5, PushesStayObserved DEF CoreInv, TypeOK, SnapshotsObserved

(* A step of one process that neither touches the service nor the rows. *)
LEMMA PrivateCore ==
    ASSUME CoreInv, UNCHANGED <<remoteVars, storeVars, queue, accepted>>,
           NEW p \in Procs, NEW label, NEW t, NEW m, GoTo(p, label, t, m),
           label \in {"idle"} \cup Fetching \cup Saving,
           t \in Tasks \cup {None}, m \in Snapshot \cup {None},
           m # None => Observed(m),
           label \in Saving => m # None /\ m.task = t,
           label \in Fetching => t # None /\ remote[t].status # Missing
    PROVE  CoreInv' /\ RemoteForward
<1>1. UNCHANGED remote /\ pushes' \subseteq pushes /\ UNCHANGED <<storeVars, queue, accepted>>
    BY DEF remoteVars
<1>2. RemoteTypeOK' /\ RemoteConsistent' /\ RemoteForward
    BY <1>1, RemoteUnchanged
<1>3. m # None => Observed(m)'
    BY <1>1 DEF Observed
<1>4. label \in Fetching => t # None /\ remote'[t].status # Missing
    BY <1>1
<1>5. StoreTypeOK' /\ accepted' \subseteq Tasks
    BY <1>1 DEF storeVars, CoreInv, TypeOK, StoreTypeOK
<1>6. QED
    BY <1>1, <1>2, <1>3, <1>4, <1>5, QueueStaysKnown, GoToStep

(* A step of one process that saves rows and then goes on to `label'. *)
LEMMA SavingCore ==
    ASSUME CoreInv, NEW p \in Procs, NEW label, NEW t, GoTo(p, label, t, None),
           StoreTypeOK',
           UNCHANGED <<remote, queue>>, pushes' \subseteq pushes, accepted' \subseteq Tasks,
           \/ label = "idle" /\ t = None
           \/ label \in Fetching /\ t \in Tasks /\ remote[t].status # Missing
    PROVE  CoreInv' /\ RemoteForward
<1>1. RemoteTypeOK' /\ RemoteConsistent' /\ RemoteForward
    BY RemoteUnchanged
<1>2. label \notin Saving /\ (label \in Fetching => t \in Tasks /\ remote'[t].status # Missing)
    BY DEF Saving, Fetching
<1>3. t \in Tasks \cup {None} /\ (t \in Tasks => t # None)
    BY NoneAssumption
<1>4. label \in {"idle"} \cup Fetching \cup Saving
    OBVIOUS
<1>5. QED
    BY <1>1, <1>2, <1>3, <1>4, QueueStaysKnown, GoToStep

(* Some processes are ended, and the queue of the loop perhaps with them.  *)
LEMMA ForgetStep ==
    ASSUME CoreInv, UNCHANGED <<remoteVars, storeVars, accepted>>, queue' = queue \/ queue' = <<>>,
           NEW dead \in SUBSET Procs,
           pc' = [q \in Procs |-> IF q \in dead THEN "idle" ELSE pc[q]],
           job' = [q \in Procs |-> IF q \in dead THEN None ELSE job[q]],
           msg' = [q \in Procs |-> IF q \in dead THEN None ELSE msg[q]]
    PROVE  CoreInv' /\ RemoteForward
<1>1. UNCHANGED remote /\ UNCHANGED pushes /\ UNCHANGED <<geoTasks, geoSubtasks, clock, accepted>>
    BY DEF remoteVars, storeVars
<1>2. RemoteTypeOK' /\ RemoteConsistent' /\ RemoteForward
    BY <1>1, RemoteUnchanged
<1>3. TypeOK'
    <2>1. /\ pc' \in [Procs -> {"idle"} \cup Fetching \cup Saving]
          /\ job' \in [Procs -> Tasks \cup {None}]
          /\ msg' \in [Procs -> Snapshot \cup {None}]
        BY DEF CoreInv, TypeOK
    <2>2. queue \in Seq(Tasks) /\ <<>> \in Seq(Tasks)
        BY DEF CoreInv, TypeOK
    <2>3. QED
        BY <1>1, <1>2, <2>1, <2>2 DEF CoreInv, TypeOK, StoreTypeOK
<1>4. SnapshotsObserved'
    BY <1>1 DEF CoreInv, SnapshotsObserved, Observed
<1>5. ProcsConsistent'
    BY <1>1 DEF CoreInv, ProcsConsistent, Saving, Fetching
<1>6. QueueKnown'
    BY <1>1 DEF CoreInv, QueueKnown
<1>7. QED
    BY <1>2, <1>3, <1>4, <1>5, <1>6 DEF CoreInv

(* A step of the service that only moves the remote record forward. *)
LEMMA ForwardStep ==
    ASSUME CoreInv, UNCHANGED <<storeVars, procVars>>,
           RemoteTypeOK', RemoteConsistent', RemoteForward,
           \A m \in pushes' \ pushes : Observed(m)'
    PROVE  CoreInv'
<1>1. UNCHANGED <<pc, job, msg, queue, accepted, geoTasks, geoSubtasks, clock>>
    BY DEF procVars, storeVars
<1>2. \A n \in Snapshot : Observed(n) => Observed(n)'
    BY ObservedStaysObserved DEF CoreInv, TypeOK
<1>3. SnapshotsObserved'
    <2>1. \A m \in pushes' : Observed(m)'
        BY <1>2 DEF CoreInv, TypeOK, RemoteTypeOK, SnapshotsObserved
    <2>2. \A q \in Procs : msg'[q] # None => Observed(msg[q])'
        BY <1>1, <1>2 DEF CoreInv, TypeOK, SnapshotsObserved, Observed
    <2>3. QED
        BY <1>1, <2>1, <2>2 DEF SnapshotsObserved
<1>4. ProcsConsistent'
    BY <1>1 DEF CoreInv, TypeOK, ProcsConsistent, RemoteForward
<1>5. QED
    BY <1>1, <1>3, <1>4, QueueStaysKnown DEF CoreInv, TypeOK, StoreTypeOK
-----------------------------------------------------------------------------
(* The shared actions keep CoreInv. *)

LEMMA CoreInit == RemoteInit /\ StoreInit /\ ProcsInit => CoreInv /\ RowsWhole /\ RowsObserved
BY DEF ProcsInit, CoreInv, TypeOK, RemoteInit, RemoteTypeOK, RemoteTask, NewRemoteTask, StoreInit,
       StoreTypeOK, NoTaskRow, NoSubRow, TaskRow, SubRow, SubmitColumns, RemoteConsistent,
       RowsWhole, RowsObserved, HasRow, SnapshotsObserved, ProcsConsistent, QueueKnown, Saving,
       Fetching, SubStatus, Missing

LEMMA FetchCore ==
    ASSUME CoreInv, NEW p \in Procs, FetchStatus(p) \/ FetchResult(p)
    PROVE  CoreInv' /\ RemoteForward
<1>1. CASE FetchStatus(p)
    <2>1. pc[p] \in Fetching
        BY <1>1 DEF FetchStatus, Fetching
    <2>2. LET m == StatusView(remote[job[p]], job[p])
          IN  m \in Snapshot /\ Observed(m) /\ m.task = job[p]
        BY <2>1, FetcherKnows, ViewsObserved DEF StatusView
    <2>3. "saveStatus" \in Saving /\ "saveStatus" \notin Fetching
        BY DEF Saving, Fetching
    <2>4. QED
        BY <1>1, <2>1, <2>2, <2>3, FetcherKnows, PrivateCore, NoneAssumption DEF FetchStatus
<1>2. CASE FetchResult(p)
    <2>1. pc[p] \in Fetching
        BY <1>2 DEF FetchResult, Fetching
    <2>2. LET m == ResultView(remote[job[p]], job[p])
          IN  m \in Snapshot /\ Observed(m) /\ m.task = job[p]
        BY <2>1, FetcherKnows, ViewsObserved DEF ResultView
    <2>3. "saveResult" \in Saving /\ "saveResult" \notin Fetching
        BY DEF Saving, Fetching
    <2>4. QED
        BY <1>2, <2>1, <2>2, <2>3, FetcherKnows, PrivateCore, NoneAssumption DEF FetchResult
<1>3. QED
    BY <1>1, <1>2

LEMMA GiveUpCore ==
    ASSUME CoreInv, NEW p \in Procs, GiveUp(p) PROVE CoreInv' /\ RemoteForward
<1>1. "idle" \notin Saving /\ "idle" \notin Fetching
    BY DEF Saving, Fetching
<1>2. QED
    BY <1>1, PrivateCore DEF GiveUp, Return

(* A request moves the service on; its process takes that up or not.       *)
LEMMA RequestCore ==
    ASSUME CoreInv, UNCHANGED <<pushes, storeVars, queue, accepted>>,
           RemoteTypeOK', RemoteConsistent', RemoteForward,
           NEW p \in Procs, NEW label, NEW t \in Tasks, NEW m \in Snapshot \cup {None},
           GoTo(p, label, t, m) \/ UNCHANGED <<pc, job, msg>>,
           m # None => Observed(m)',
           \/ label \in Saving \ Fetching /\ m # None /\ m.task = t
           \/ label \in Fetching \ Saving /\ remote'[t].status # Missing
    PROVE  CoreInv'
<1>1. CASE UNCHANGED <<pc, job, msg>>
    <2>1. UNCHANGED <<storeVars, procVars>>
        BY <1>1 DEF procVars
    <2>2. QED
        BY <2>1, ForwardStep
<1>2. CASE GoTo(p, label, t, m)
    <2>1. StoreTypeOK' /\ accepted' \subseteq Tasks
        BY DEF storeVars, CoreInv, TypeOK, StoreTypeOK
    <2>2. t \in Tasks \cup {None} /\ t # None
        BY NoneAssumption
    <2>3. QED
        BY <1>2, <2>1, <2>2, QueueStaysKnown, GoToStep
<1>3. QED
    BY <1>1, <1>2

LEMMA CreateCore ==
    ASSUME CoreInv, NEW p \in Procs, NEW t \in Tasks, CreateTask(p, t)
    PROVE  CoreInv' /\ RemoteForward
<1>1. RemoteTypeOK' /\ RemoteConsistent' /\ RemoteForward
    BY NewTaskForward DEF CreateTask, CoreInv, TypeOK
<1> DEFINE m == StatusView(NewRemoteTask, t)
<1>2. remote'[t] = NewRemoteTask /\ NewRemoteTask.status # Missing
    BY DEF CreateTask, CoreInv, TypeOK, RemoteTypeOK, NewRemoteTask, Missing
<1>3. m \in Snapshot /\ m.task = t /\ Observed(m)'
    BY <1>2 DEF StatusView, NewRemoteTask, Snapshot, Observed, MasterPrecedes, SubPrecedes,
                MasterStatus, SubStatus
<1>4. m # None
    BY <1>3, NoneAssumption
<1>5. "saveSubmitted" \in Saving \ Fetching
    BY DEF Saving, Fetching
<1>6. /\ GoTo(p, "saveSubmitted", t, m) \/ UNCHANGED <<pc, job, msg>>
      /\ UNCHANGED <<pushes, storeVars, queue, accepted>>
    BY DEF CreateTask
<1> HIDE DEF m
<1>7. QED
    BY <1>1, <1>3, <1>4, <1>5, <1>6, RequestCore

LEMMA ManualSyncCore ==
    ASSUME CoreInv, NEW p \in Procs, NEW t \in Tasks, ManualSync(p, t)
    PROVE  CoreInv' /\ RemoteForward
<1>1. "fetchStatus" \in Fetching /\ "fetchStatus" \notin Saving /\ t # None
    BY NoneAssumption DEF Saving, Fetching
<1>2. QED
    BY <1>1, PrivateCore DEF ManualSync

LEMMA ReceiveCore ==
    ASSUME CoreInv, NEW p \in Procs, NEW m \in pushes, NEW label \in Saving \ Fetching,
           TakeUp(p, m, label)
    PROVE  CoreInv' /\ RemoteForward
<1>1. GoTo(p, label, m.task, m)
    BY DEF TakeUp
<1>2. m \in Snapshot /\ Observed(m) /\ m.task \in Tasks /\ m # None
    BY NoneAssumption DEF CoreInv, TypeOK, RemoteTypeOK, SnapshotsObserved, Snapshot
<1>3. QED
    BY <1>1, <1>2, PrivateCore DEF TakeUp

LEMMA ServiceCore ==
    ASSUME CoreInv, NEW t \in Tasks, Service(t), UNCHANGED <<storeVars, procVars>>
    PROVE  CoreInv' /\ RemoteForward
<1>1. ASSUME NEW s \in Subs, RemoteStart(t, s) \/ RemoteFinish(t, s)
      PROVE  CoreInv' /\ RemoteForward
    <2>1. RemoteTypeOK' /\ RemoteConsistent' /\ RemoteForward
        BY <1>1, StartForward, FinishForward DEF CoreInv, TypeOK
    <2>2. UNCHANGED pushes
        BY <1>1 DEF RemoteStart, RemoteFinish
    <2>3. QED
        BY <2>1, <2>2, ForwardStep
<1>2. CASE RemotePush(t)
    <2>1. /\ UNCHANGED remote /\ pushes' = pushes \cup {ResultView(remote[t], t)}
          /\ remote[t].status # Missing
        BY <1>2 DEF RemotePush, Terminal, Missing
    <2>2. ResultView(remote[t], t) \in Snapshot /\ Observed(ResultView(remote[t], t))
        BY <2>1, ViewsObserved DEF CoreInv, TypeOK
    <2>3. RemoteTypeOK' /\ RemoteConsistent' /\ RemoteForward
        BY <2>1, <2>2 DEF CoreInv, TypeOK, RemoteTypeOK, RemoteConsistent, RemoteForward,
                         MasterPrecedes, SubPrecedes
    <2>4. \A m \in pushes' \ pushes : Observed(m)'
        BY <2>1, <2>2 DEF Observed
    <2>5. QED
        BY <2>3, <2>4, ForwardStep
<1>3. QED
    BY <1>1, <1>2 DEF Service, RemoteWork

LEMMA StopCore ==
    ASSUME CoreInv, NEW t \in Tasks, StopTask(t) PROVE CoreInv' /\ RemoteForward
<1>1. RemoteTypeOK' /\ RemoteConsistent' /\ RemoteForward
    BY StoppedForward DEF StopTask, CoreInv, TypeOK
<1>2. QED
    BY <1>1, ForwardStep DEF StopTask

LEMMA StutterCore ==
    ASSUME CoreInv, UNCHANGED vars PROVE CoreInv' /\ RemoteForward
<1>1. UNCHANGED <<remoteVars, storeVars, procVars>>
    BY DEF vars
<1>2. UNCHANGED remote /\ UNCHANGED pushes
    BY <1>1 DEF remoteVars
<1>3. QED
    BY <1>1, <1>2, RemoteUnchanged, ForwardStep

(* The scan returns known tasks: only they have rows. *)
RowsKnown == \A t \in Tasks : HasRow(t) => remote[t].status # Missing

LEMMA BatchKnown ==
    ASSUME RowsKnown, NEW ids \in Batches
    PROVE  ids \in Seq(Tasks) /\ \A i \in 1..Len(ids) : remote[ids[i]].status # Missing
<1>1. PICK n \in 0..BatchLimit : ids \in [1..n -> Tasks]
    BY DEF Batches
<1>2. n \in Nat
    BY BatchAssumption
<1>3. ids \in Seq(Tasks) /\ Len(ids) = n
    BY <1>1, <1>2
<1>4. \A i \in 1..Len(ids) : ids[i] \in Unfinished
    BY DEF Batches, IsBatch
<1>5. QED
    BY <1>3, <1>4 DEF Unfinished, RowsKnown

LEMMA StartPassCore ==
    ASSUME CoreInv, RowsKnown, StartPass PROVE CoreInv' /\ RemoteForward
<1>1. queue' \in Seq(Tasks) /\ \A i \in 1..Len(queue') : remote[queue'[i]].status # Missing
    BY BatchKnown DEF StartPass
<1>2. QueueKnown'
    BY <1>1 DEF StartPass, remoteVars, QueueKnown
<1>3. UNCHANGED <<remote, pushes, geoTasks, geoSubtasks, clock, pc, job, msg, accepted>>
    BY DEF StartPass, remoteVars, storeVars
<1>4. RemoteTypeOK' /\ StoreTypeOK' /\ RemoteConsistent' /\ RemoteForward
    BY <1>3, RemoteUnchanged DEF CoreInv, TypeOK, StoreTypeOK
<1>5. SnapshotsObserved' /\ ProcsConsistent'
    BY <1>3 DEF CoreInv, SnapshotsObserved, ProcsConsistent, Observed
<1>6. QED
    BY <1>1, <1>2, <1>3, <1>4, <1>5 DEF CoreInv, TypeOK

LEMMA NextTaskCore ==
    ASSUME CoreInv, NextTask PROVE CoreInv' /\ RemoteForward
<1>1. /\ queue \in Seq(Tasks) /\ queue # <<>> /\ queue' = Tail(queue)
      /\ GoTo(Loop, "fetchStatus", Head(queue), None)
    BY DEF NextTask, CoreInv, TypeOK
<1>2. /\ Head(queue) \in Tasks /\ Head(queue) # None
      /\ remote[Head(queue)].status # Missing
    BY <1>1, NoneAssumption DEF CoreInv, QueueKnown
<1>3. queue' \in Seq(Tasks) /\ QueueKnown'
    <2>1. Tail(queue) \in Seq(Tasks) /\ Len(Tail(queue)) = Len(queue) - 1
        BY <1>1
    <2>2. \A i \in 1..Len(Tail(queue)) : Tail(queue)[i] = queue[i + 1] /\ i + 1 \in 1..Len(queue)
        BY <1>1
    <2>3. QED
        BY <1>1, <2>1, <2>2 DEF NextTask, remoteVars, CoreInv, QueueKnown
<1>4. UNCHANGED remote /\ pushes' \subseteq pushes /\ UNCHANGED <<storeVars, accepted>>
    BY DEF NextTask, remoteVars
<1>5. RemoteTypeOK' /\ RemoteConsistent' /\ RemoteForward
    BY <1>4, RemoteUnchanged
<1>6. "fetchStatus" \in Fetching /\ "fetchStatus" \notin Saving
    BY DEF Fetching, Saving
<1>7. StoreTypeOK' /\ accepted' \subseteq Tasks
    BY <1>4 DEF storeVars, CoreInv, TypeOK, StoreTypeOK
<1>8. Loop \in Procs /\ remote'[Head(queue)].status # Missing
    BY <1>2, <1>4 DEF Procs
<1>9. QED
    BY <1>1, <1>2, <1>3, <1>4, <1>5, <1>6, <1>7, <1>8, GoToStep

LEMMA CrashCore ==
    ASSUME CoreInv, Crash PROVE CoreInv' /\ RemoteForward
<1>1. /\ UNCHANGED <<remoteVars, storeVars, accepted>> /\ (queue' = queue \/ queue' = <<>>)
      /\ pc' = [q \in Procs |-> IF q \in Procs THEN "idle" ELSE pc[q]]
      /\ job' = [q \in Procs |-> IF q \in Procs THEN None ELSE job[q]]
      /\ msg' = [q \in Procs |-> IF q \in Procs THEN None ELSE msg[q]]
    BY DEF Crash
<1>2. QED
    BY <1>1, ForgetStep
-----------------------------------------------------------------------------
(* The shared actions keep IndInv: none of them writes rows. *)

LEMMA StoreUnchanged ==
    ASSUME IndInv, RemoteTypeOK', RemoteForward, UNCHANGED storeVars
    PROVE  StoreTypeOK' /\ RowsWhole' /\ RowsObserved'
<1>1. StoreTypeOK' /\ RowsWhole'
    BY DEF IndInv, TypeOK, storeVars, StoreTypeOK, RowsWhole, HasRow
<1>2. RowsObserved'
    BY RowsStayObserved DEF IndInv, TypeOK, storeVars
<1>3. QED
    BY <1>1, <1>2

LEMMA RowsUntouched ==
    ASSUME IndInv, CoreInv', RemoteForward, UNCHANGED storeVars PROVE IndInv'
<1>1. RemoteTypeOK'
    BY DEF CoreInv, TypeOK
<1>2. QED
    BY <1>1, StoreUnchanged DEF IndInv, CoreInv

(* What a process about to save can rely on. *)
LEMMA SaverHolds ==
    ASSUME IndInv, NEW p \in Procs, pc[p] \in Saving
    PROVE  /\ msg[p] \in Snapshot /\ Observed(msg[p]) /\ msg[p].task = job[p]
           /\ job[p] \in Tasks /\ remote[job[p]].status # Missing
           /\ StoreTypeOK /\ RowsWhole /\ RowsObserved
BY SaverKnows, IndInvIsCoreAndRows

LEMMA PrivateStep ==
    ASSUME IndInv, UNCHANGED <<remoteVars, storeVars, queue, accepted>>,
           NEW p \in Procs, NEW label, NEW t, NEW m, GoTo(p, label, t, m),
           label \in {"idle"} \cup Fetching \cup Saving,
           t \in Tasks \cup {None}, m \in Snapshot \cup {None},
           m # None => Observed(m),
           label \in Saving => m # None /\ m.task = t,
           label \in Fetching => t # None /\ remote[t].status # Missing
    PROVE  IndInv'
<1>1. CoreInv' /\ RemoteForward
    BY IndInvIsCoreAndRows, PrivateCore
<1>2. QED
    BY <1>1, RowsUntouched

LEMMA SavingStep ==
    ASSUME IndInv, NEW p \in Procs, NEW label, NEW t, GoTo(p, label, t, None),
           StoreTypeOK', RowsWhole', RowsObserved',
           UNCHANGED <<remote, queue>>, pushes' \subseteq pushes, accepted' \subseteq Tasks,
           \/ label = "idle" /\ t = None
           \/ label \in Fetching /\ t \in Tasks /\ remote[t].status # Missing
    PROVE  IndInv'
<1>1. CoreInv'
    BY IndInvIsCoreAndRows, SavingCore
<1>2. QED
    BY <1>1 DEF IndInv, CoreInv

LEMMA IndInvInit == RemoteInit /\ StoreInit /\ ProcsInit => IndInv
BY CoreInit, IndInvIsCoreAndRows

LEMMA FetchStep ==
    ASSUME IndInv, NEW p \in Procs, FetchStatus(p) \/ FetchResult(p) PROVE IndInv'
<1>1. UNCHANGED storeVars
    BY DEF FetchStatus, FetchResult
<1>2. QED
    BY <1>1, IndInvIsCoreAndRows, FetchCore, RowsUntouched

LEMMA RequestStep ==
    ASSUME IndInv, NEW p \in Procs, NEW t \in Tasks, CreateTask(p, t) \/ ManualSync(p, t)
    PROVE  IndInv'
<1>1. UNCHANGED storeVars
    BY DEF CreateTask, ManualSync
<1>2. QED
    BY <1>1, IndInvIsCoreAndRows, CreateCore, ManualSyncCore, RowsUntouched

LEMMA ReceiveStep ==
    ASSUME IndInv, NEW p \in Procs, NEW m \in pushes, NEW label \in Saving \ Fetching,
           TakeUp(p, m, label)
    PROVE  IndInv'
<1>1. UNCHANGED storeVars
    BY DEF TakeUp
<1>2. QED
    BY <1>1, IndInvIsCoreAndRows, ReceiveCore, RowsUntouched

LEMMA GiveUpStep ==
    ASSUME IndInv, NEW p \in Procs, GiveUp(p) PROVE IndInv'
<1>1. UNCHANGED storeVars
    BY DEF GiveUp
<1>2. QED
    BY <1>1, IndInvIsCoreAndRows, GiveUpCore, RowsUntouched

LEMMA LoopStep ==
    ASSUME IndInv, StartPass \/ NextTask \/ Crash PROVE IndInv'
<1>1. UNCHANGED storeVars
    BY DEF StartPass, NextTask, Crash
<1>2. RowsKnown
    BY DEF IndInv, RowsObserved, RowsKnown
<1>3. QED
    BY <1>1, <1>2, IndInvIsCoreAndRows, StartPassCore, NextTaskCore, CrashCore, RowsUntouched

LEMMA ServiceStep ==
    ASSUME IndInv, NEW t \in Tasks,
           StopTask(t) \/ (Service(t) /\ UNCHANGED <<storeVars, procVars>>)
    PROVE  IndInv'
<1>1. UNCHANGED storeVars
    BY DEF StopTask
<1>2. QED
    BY <1>1, IndInvIsCoreAndRows, StopCore, ServiceCore, RowsUntouched

LEMMA StutterStep ==
    ASSUME IndInv, UNCHANGED vars PROVE IndInv'
<1>1. UNCHANGED storeVars
    BY DEF vars
<1>2. QED
    BY <1>1, IndInvIsCoreAndRows, StutterCore, RowsUntouched
-----------------------------------------------------------------------------
(* The scan's WHERE clause is complete (store.go:113-145): a finished task *)
(* whose rows differ from its result is selected, so no state the database *)
(* can get into hides missing answers from the background passes.  This    *)
(* takes only that the rows of the task are all there, show what the       *)
(* service has said, and have answers of completed subtasks only.          *)
LEMMA UnselectedShowsResult ==
    ASSUME StoreTypeOK, NEW t \in Tasks, HasRow(t), Finished(t), t \notin Unfinished,
           MasterPrecedes(geoTasks[t].status, remote[t].status),
           \A s \in Subs : /\ geoSubtasks[t][s].status # Missing
                           /\ SubPrecedes(geoSubtasks[t][s].status, remote[t].sub[s])
                           /\ geoSubtasks[t][s].answer => remote[t].sub[s] = "completed"
    PROVE  Mirrored(t)
<1>1. /\ geoTasks[t].status \in Terminal
      /\ \A s \in Subs : geoSubtasks[t][s].status \in Terminal
    BY DEF Unfinished
<1>2. geoTasks[t].status = remote[t].status
    BY <1>1 DEF MasterPrecedes, Terminal
<1>3. ASSUME NEW s \in Subs
      PROVE  geoSubtasks[t][s] = SubRowOf(ResultView(remote[t], t), s)
    <2>1. /\ geoSubtasks[t][s] \in SubRow /\ geoSubtasks[t][s].answer \in BOOLEAN
          /\ geoSubtasks[t][s] = [status |-> geoSubtasks[t][s].status,
                                  answer |-> geoSubtasks[t][s].answer]
        BY DEF StoreTypeOK, SubRow
    <2>2. geoSubtasks[t][s].status = remote[t].sub[s]
        BY <1>1 DEF SubPrecedes, Terminal
    <2>3. geoSubtasks[t][s].answer <=> remote[t].sub[s] = "completed"
        BY <1>1, <1>2, <2>2 DEF Unfinished, Finished
    <2>4. ResultView(remote[t], t).sub[s] = remote[t].sub[s]
        BY DEF ResultView
    <2>5. (s \in ResultView(remote[t], t).answers) <=> remote[t].sub[s] = "completed"
        BY DEF ResultView
    <2>6. QED
        BY <2>1, <2>2, <2>3, <2>4, <2>5 DEF SubRowOf
<1>4. geoSubtasks[t] = SubRowsOf(ResultView(remote[t], t))
    BY <1>3 DEF SubRowsOf, StoreTypeOK
<1>5. QED
    BY <1>2, <1>4 DEF Mirrored

LEMMA UnselectedIsMirrored ==
    ASSUME StoreTypeOK, RowsWhole, RowsObserved,
           NEW t \in Tasks, HasRow(t), Finished(t), t \notin Unfinished
    PROVE  Mirrored(t)
<1>1. /\ MasterPrecedes(geoTasks[t].status, remote[t].status)
      /\ \A s \in Subs : /\ geoSubtasks[t][s].status # Missing
                         /\ SubPrecedes(geoSubtasks[t][s].status, remote[t].sub[s])
                         /\ geoSubtasks[t][s].answer => remote[t].sub[s] = "completed"
    BY DEF RowsWhole, RowsObserved, SubPrecedes
<1>2. QED
    BY <1>1, UnselectedShowsResult

(* The counter a save writes is the number of rows it shows as completed.  *)
LEMMA SavedCounter ==
    ASSUME NEW m \in Snapshot, StoreTypeOK, CountersAgree,
           geoTasks'[m.task].done = CompletedItems(m),
           \A s \in Subs : geoSubtasks'[m.task][s].status = m.sub[s],
           \A t \in Tasks \ {m.task} : /\ geoTasks'[t] = geoTasks[t]
                                       /\ geoSubtasks'[t] = geoSubtasks[t]
    PROVE  CountersAgree'
<1>1. {s \in Subs : geoSubtasks'[m.task][s].status = "completed"}
        = {s \in Subs : m.sub[s] = "completed"}
    OBVIOUS
<1>2. ASSUME NEW t \in Tasks, t # m.task
      PROVE  geoTasks'[t].done = Cardinality(CompletedRows(t)')
    BY <1>2 DEF CountersAgree, CompletedRows
<1>3. QED
    BY <1>1, <1>2 DEF CountersAgree, CompletedRows, CompletedItems
-----------------------------------------------------------------------------
(***************************************************************************)
(* That a backend implements Replica: what the service shows of a task is  *)
(* coherent, payloads under way are too, and a save of one whole snapshot  *)
(* is a Refresh.                                                           *)
(***************************************************************************)

(* Every state the service is in, and every payload under way, is coherent. *)
PayloadsCoherent ==
    /\ \A t \in Tasks : remote[t].status # Missing => Coherent(remote[t])
    /\ \A m \in pushes : Coherent(m)
    /\ \A p \in Procs : msg[p] # None => Coherent(msg[p])

LEMMA CoherentInit == RemoteInit /\ ProcsInit => PayloadsCoherent
BY DEF RemoteInit, ProcsInit, PayloadsCoherent, NewRemoteTask, Missing

LEMMA AbstractInit == RemoteInit /\ StoreInit => Abstract!Init
BY DEF RemoteInit, StoreInit, Abstract!Init, Real, Copy, HasRow, NewRemoteTask, NoTaskRow, Missing
-----------------------------------------------------------------------------
(* The service's own steps. *)

LEMMA NewCoherent == Coherent(NewRemoteTask)
BY DEF Coherent, NewRemoteTask

LEMMA StoppedCoherent ==
    ASSUME NEW r \in RemoteTask PROVE Coherent(Stopped(r))
BY DEF RemoteTask, Coherent, Stopped

LEMMA StartCoherent ==
    ASSUME NEW r \in RemoteTask, NEW s \in Subs
    PROVE  Coherent([status |-> "processing", sub |-> [r.sub EXCEPT ![s] = "processing"]])
BY DEF RemoteTask, Coherent, Settled

LEMMA FinishCoherent ==
    ASSUME NEW r \in RemoteTask, NEW s \in Subs, NEW outcome \in {"completed", "failed", "error"},
           r.status = "stopped" => Coherent(r),
           NEW sub, sub = [r.sub EXCEPT ![s] = outcome],
           NEW status, status = IF r.status = "stopped" THEN "stopped" ELSE Derived(sub)
    PROVE  Coherent([status |-> status, sub |-> sub])
<1>1. sub[s] = outcome /\ \A x \in Subs : x # s => sub[x] = r.sub[x]
    BY DEF RemoteTask
<1>2. CASE r.status = "stopped"
    <2>1. \A x \in Subs : r.sub[x] # "pending"
        BY <1>2 DEF Coherent, Terminal
    <2>2. QED
        BY <1>1, <1>2, <2>1 DEF Coherent
<1>3. CASE r.status # "stopped" /\ Settled(sub)
    <2>1. status = Derived(sub) /\ Derived(sub) \in {"completed", "partial_completed", "failed"}
        BY <1>3 DEF Derived
    <2>2. QED
        BY <2>1 DEF Coherent, Terminal
<1>4. CASE r.status # "stopped" /\ ~Settled(sub)
    <2>1. status = "processing"
        BY <1>4 DEF Derived
    <2>2. QED
        BY <1>1, <1>4, <2>1 DEF Coherent
<1>5. QED
    BY <1>2, <1>3, <1>4
-----------------------------------------------------------------------------
(* A step that gives one task of the service a coherent state, which the   *)
(* old one precedes, and leaves the rows alone, is an Advance.             *)
LEMMA AdvanceStep ==
    ASSUME RemoteTypeOK, RemoteForward, UNCHANGED <<geoTasks, geoSubtasks>>,
           NEW t \in Tasks, NEW r \in RemoteTask, Coherent(r), r.status # Missing,
           remote' = [remote EXCEPT ![t] = r]
    PROVE  Abstract!Next
<1>1. Copy' = Copy
    BY DEF Copy, HasRow
<1>2. remote'[t] = r /\ \A u \in Tasks : u # t => remote'[u] = remote[u]
    BY DEF RemoteTypeOK
<1>3. Real'[t] = r /\ \A u \in Tasks : u # t => Real'[u] = Real[u]
    BY <1>2 DEF Real
<1>4. Real' = [Real EXCEPT ![t] = Real'[t]]
    BY <1>3 DEF Real
<1>5. Real'[t] \in States
    BY <1>3 DEF States
<1>6. Real[t] = None \/ Earlier(Real[t], Real'[t])
    BY <1>2, <1>3 DEF Real, RemoteForward, Earlier
<1>7. Abstract!Advance(t)
    BY <1>1, <1>4, <1>5, <1>6 DEF Abstract!Advance
<1>8. QED
    BY <1>7 DEF Abstract!Next

(* A step that replaces the rows of one task by an observed, coherent      *)
(* snapshot of it, and leaves the service alone, is a Refresh.             *)
LEMMA RefreshStep ==
    ASSUME RemoteTypeOK, UNCHANGED remote,
           NEW m \in Snapshot, Observed(m), Coherent(m),
           geoTasks'[m.task].status = m.status,
           \A s \in Subs : geoSubtasks'[m.task][s].status = m.sub[s],
           \A t \in Tasks \ {m.task} : /\ geoTasks'[t] = geoTasks[t]
                                       /\ geoSubtasks'[t] = geoSubtasks[t]
    PROVE  Abstract!Next
<1> DEFINE t == m.task
<1>1. Real' = Real
    BY DEF Real
<1>2. t \in Tasks /\ m.status \in MasterStatus /\ m.sub \in [Subs -> SubStatus]
    BY DEF Snapshot
<1>3. Copy'[t] = [status |-> m.status, sub |-> m.sub]
    BY <1>2 DEF Copy, HasRow, MasterStatus, Terminal, Missing
<1>4. \A u \in Tasks : u # t => Copy'[u] = Copy[u]
    BY <1>2 DEF Copy, HasRow
<1>5. Copy' = [Copy EXCEPT ![t] = Copy'[t]]
    BY <1>4 DEF Copy
<1>6. Copy'[t] \in States
    BY <1>2, <1>3 DEF States, RemoteTask, Coherent
<1>7. Real[t] = remote[t]
    BY <1>2 DEF Real, Observed
<1>8. Earlier(Copy'[t], Real[t])
    BY <1>3, <1>7 DEF Earlier, Observed
<1>9. Real[t] # None
    BY <1>2, <1>7, NoneAssumption DEF RemoteTypeOK
<1>10. Abstract!Refresh(t)
    BY <1>1, <1>5, <1>6, <1>8, <1>9 DEF Abstract!Refresh
<1>11. QED
    BY <1>2, <1>10 DEF Abstract!Next
-----------------------------------------------------------------------------
(* What every step of a backend is shown to do. *)
Follows == PayloadsCoherent' /\ (Abstract!Next \/ UNCHANGED <<Real, Copy>>)

LEMMA RowsAlone ==
    ASSUME UNCHANGED <<remote, geoTasks, geoSubtasks>> PROVE UNCHANGED <<Real, Copy>>
BY DEF Real, Copy, HasRow

(* A step that leaves the service alone and moves one process on with      *)
(* nothing, or with a coherent payload.                                    *)
LEMMA CoherentGoTo ==
    ASSUME CoreInv, PayloadsCoherent, UNCHANGED remote, pushes' \subseteq pushes,
           NEW p \in Procs, NEW label, NEW t, NEW m, GoTo(p, label, t, m),
           m # None => Coherent(m)
    PROVE  PayloadsCoherent'
<1>1. msg'[p] = m /\ \A q \in Procs : q # p => msg'[q] = msg[q]
    BY DEF GoTo, CoreInv, TypeOK
<1>2. \A q \in Procs : msg'[q] # None => Coherent(msg'[q])
    BY <1>1 DEF PayloadsCoherent
<1>3. \A n \in pushes' : Coherent(n)
    BY DEF PayloadsCoherent
<1>4. \A u \in Tasks : remote'[u].status # Missing => Coherent(remote'[u])
    BY DEF PayloadsCoherent
<1>5. QED
    BY <1>2, <1>3, <1>4 DEF PayloadsCoherent, Coherent, Settled, Derived

(* A step that leaves processes and pushes alone, or forgets what they hold. *)
LEMMA CoherentKept ==
    ASSUME PayloadsCoherent, UNCHANGED remote, pushes' \subseteq pushes,
           \A q \in Procs : msg'[q] \in {msg[q], None}
    PROVE  PayloadsCoherent'
BY DEF PayloadsCoherent

(* The service gives task t the coherent state r, and the rows stay; one   *)
(* process may take up a coherent payload with it.                         *)
LEMMA AdvanceFollows ==
    ASSUME RemoteTypeOK, RemoteForward, PayloadsCoherent, UNCHANGED <<geoTasks, geoSubtasks>>,
           NEW t \in Tasks, NEW r \in RemoteTask, Coherent(r), r.status # Missing,
           remote' = [remote EXCEPT ![t] = r], UNCHANGED pushes,
           \A q \in Procs : msg'[q] \in {msg[q], None} \/ Coherent(msg'[q])
    PROVE  Follows
<1>1. \A u \in Tasks : remote'[u].status # Missing => Coherent(remote'[u])
    BY DEF PayloadsCoherent, RemoteTypeOK
<1>2. \A q \in Procs : msg'[q] # None => Coherent(msg'[q])
    BY DEF PayloadsCoherent
<1>3. PayloadsCoherent'
    BY <1>1, <1>2 DEF PayloadsCoherent
<1>4. QED
    BY <1>3, AdvanceStep DEF Follows

(* A process saves the snapshot it holds and goes on without it. *)
LEMMA SaveFollows ==
    ASSUME CoreInv, PayloadsCoherent, UNCHANGED remote, pushes' \subseteq pushes,
           NEW p \in Procs, pc[p] \in Saving, NEW label, NEW t, GoTo(p, label, t, None),
           geoTasks'[job[p]].status = msg[p].status,
           \A s \in Subs : geoSubtasks'[job[p]][s].status = msg[p].sub[s],
           \A u \in Tasks \ {job[p]} : /\ geoTasks'[u] = geoTasks[u]
                                       /\ geoSubtasks'[u] = geoSubtasks[u]
    PROVE  Follows
<1>1. /\ msg[p] \in Snapshot /\ Observed(msg[p]) /\ msg[p].task = job[p]
      /\ msg[p] # None
    BY SaverKnows, NoneAssumption
<1>2. Coherent(msg[p])
    BY <1>1 DEF PayloadsCoherent
<1>3. Abstract!Next
    BY <1>1, <1>2, RefreshStep DEF CoreInv, TypeOK
<1>4. PayloadsCoherent'
    BY CoherentGoTo
<1>5. QED
    BY <1>3, <1>4 DEF Follows
-----------------------------------------------------------------------------
(* The actions all backends share. *)

LEMMA FetchFollows ==
    ASSUME CoreInv, PayloadsCoherent, NEW p \in Procs, FetchStatus(p) \/ FetchResult(p)
    PROVE  Follows
<1>1. job[p] \in Tasks /\ Coherent(remote[job[p]])
    BY FetcherKnows DEF FetchStatus, FetchResult, Fetching, PayloadsCoherent
<1>2. /\ Coherent(StatusView(remote[job[p]], job[p]))
      /\ Coherent(ResultView(remote[job[p]], job[p]))
    BY <1>1 DEF Coherent, StatusView, ResultView
<1>3. UNCHANGED <<remote, pushes, geoTasks, geoSubtasks>>
    BY DEF FetchStatus, FetchResult, remoteVars, storeVars
<1>4. \/ GoTo(p, "saveStatus", job[p], StatusView(remote[job[p]], job[p]))
      \/ GoTo(p, "saveResult", job[p], ResultView(remote[job[p]], job[p]))
    BY DEF FetchStatus, FetchResult
<1>5. PayloadsCoherent'
    BY <1>2, <1>3, <1>4, CoherentGoTo
<1>6. QED
    BY <1>3, <1>5, RowsAlone DEF Follows

LEMMA GiveUpFollows ==
    ASSUME CoreInv, PayloadsCoherent, NEW p \in Procs, GiveUp(p) PROVE Follows
<1>1. UNCHANGED <<remote, pushes, geoTasks, geoSubtasks>> /\ GoTo(p, "idle", None, None)
    BY DEF GiveUp, Return, remoteVars, storeVars
<1>2. PayloadsCoherent'
    BY <1>1, CoherentGoTo
<1>3. QED
    BY <1>1, <1>2, RowsAlone DEF Follows

LEMMA ManualSyncFollows ==
    ASSUME CoreInv, PayloadsCoherent, NEW p \in Procs, NEW t \in Tasks, ManualSync(p, t)
    PROVE  Follows
<1>1. UNCHANGED <<remote, pushes, geoTasks, geoSubtasks>> /\ GoTo(p, "fetchStatus", t, None)
    BY DEF ManualSync, remoteVars, storeVars
<1>2. PayloadsCoherent'
    BY <1>1, CoherentGoTo
<1>3. QED
    BY <1>1, <1>2, RowsAlone DEF Follows

LEMMA ReceiveFollows ==
    ASSUME CoreInv, PayloadsCoherent, NEW p \in Procs, NEW m \in pushes, NEW label,
           TakeUp(p, m, label)
    PROVE  Follows
<1>1. UNCHANGED <<remote, pushes, geoTasks, geoSubtasks>> /\ GoTo(p, label, m.task, m)
    BY DEF TakeUp, remoteVars, storeVars
<1>2. Coherent(m)
    BY DEF PayloadsCoherent
<1>3. PayloadsCoherent'
    BY <1>1, <1>2, CoherentGoTo
<1>4. QED
    BY <1>1, <1>3, RowsAlone DEF Follows

LEMMA LoopFollows ==
    ASSUME CoreInv, PayloadsCoherent, StartPass \/ NextTask \/ Crash PROVE Follows
<1>1. UNCHANGED <<remote, pushes, geoTasks, geoSubtasks>>
    BY DEF StartPass, NextTask, Crash, remoteVars, storeVars
<1>2. CASE StartPass \/ Crash
    <2>1. \A q \in Procs : msg'[q] \in {msg[q], None}
        BY <1>2 DEF StartPass, Crash
    <2>2. QED
        BY <1>1, <2>1, CoherentKept, RowsAlone DEF Follows
<1>3. CASE NextTask
    <2>1. Loop \in Procs /\ GoTo(Loop, "fetchStatus", Head(queue), None)
        BY <1>3 DEF NextTask, Procs
    <2>2. PayloadsCoherent'
        BY <1>1, <2>1, CoherentGoTo
    <2>3. QED
        BY <1>1, <2>2, RowsAlone DEF Follows
<1>4. QED
    BY <1>2, <1>3

LEMMA CreateFollows ==
    ASSUME CoreInv, PayloadsCoherent, NEW p \in Procs, NEW t \in Tasks, CreateTask(p, t)
    PROVE  Follows
<1>1. RemoteTypeOK /\ RemoteForward
    BY NewTaskForward DEF CreateTask, CoreInv, TypeOK
<1>2. UNCHANGED <<pushes, geoTasks, geoSubtasks>>
    BY DEF CreateTask, storeVars
<1>3. /\ NewRemoteTask \in RemoteTask /\ Coherent(NewRemoteTask)
      /\ NewRemoteTask.status # Missing
    BY NewCoherent DEF NewRemoteTask, RemoteTask, MasterStatus, SubStatus, Missing
<1>4. Coherent(StatusView(NewRemoteTask, t))
    BY <1>3 DEF Coherent, StatusView
<1>5. \A q \in Procs : msg'[q] \in {msg[q], None} \/ Coherent(msg'[q])
    BY <1>4 DEF CreateTask, GoTo, CoreInv, TypeOK
<1>6. QED
    BY <1>1, <1>2, <1>3, <1>5, AdvanceFollows DEF CreateTask

LEMMA StopFollows ==
    ASSUME CoreInv, PayloadsCoherent, NEW t \in Tasks, Stoppable(remote[t]),
           remote' = [remote EXCEPT ![t] = Stopped(@)],
           UNCHANGED <<pushes, geoTasks, geoSubtasks>>,
           \A q \in Procs : msg'[q] \in {msg[q], None}
    PROVE  Follows
<1>1. RemoteTypeOK /\ RemoteForward
    BY StoppedForward DEF CoreInv, TypeOK
<1>2. /\ Stopped(remote[t]) \in RemoteTask /\ Coherent(Stopped(remote[t]))
      /\ Stopped(remote[t]).status # Missing
    BY <1>1, StoppedCoherent
    DEF RemoteTypeOK, Stopped, RemoteTask, MasterStatus, Terminal, SubStatus, Missing
<1>3. remote' = [remote EXCEPT ![t] = Stopped(remote[t])]
    OBVIOUS
<1>4. QED
    BY <1>1, <1>2, <1>3, AdvanceFollows

LEMMA ServiceFollows ==
    ASSUME CoreInv, PayloadsCoherent, NEW t \in Tasks, Service(t),
           UNCHANGED <<storeVars, procVars>>
    PROVE  Follows
<1>0. UNCHANGED <<geoTasks, geoSubtasks, msg>> /\ RemoteTypeOK /\ RemoteConsistent
    BY DEF storeVars, procVars, CoreInv, TypeOK
<1>1. ASSUME NEW s \in Subs, RemoteStart(t, s) PROVE Follows
    <2> DEFINE r == [status |-> "processing", sub |-> [remote[t].sub EXCEPT ![s] = "processing"]]
    <2>1. r \in RemoteTask /\ r.status # Missing
        BY <1>0 DEF RemoteTypeOK, RemoteTask, MasterStatus, SubStatus, Missing
    <2>2. Coherent(r)
        BY <1>0, StartCoherent DEF RemoteTypeOK
    <2>3. remote' = [remote EXCEPT ![t] = r] /\ UNCHANGED pushes
        BY <1>1 DEF RemoteStart
    <2>4. RemoteForward
        BY <1>0, <1>1, StartForward
    <2> HIDE DEF r
    <2>5. QED
        BY <1>0, <2>1, <2>2, <2>3, <2>4, AdvanceFollows
<1>2. ASSUME NEW s \in Subs, RemoteFinish(t, s) PROVE Follows
    <2>1. PICK outcome \in {"completed"} \cup FinalFailures :
            remote' = [remote EXCEPT ![t] =
                [status |-> IF remote[t].status = "stopped" THEN "stopped"
                            ELSE Derived([remote[t].sub EXCEPT ![s] = outcome]),
                 sub |-> [remote[t].sub EXCEPT ![s] = outcome]]]
        BY <1>2 DEF RemoteFinish
    <2> DEFINE sub == [remote[t].sub EXCEPT ![s] = outcome]
               status == IF remote[t].status = "stopped" THEN "stopped" ELSE Derived(sub)
               r == [status |-> status, sub |-> sub]
    <2>2. outcome \in {"completed", "failed", "error"}
        BY FailuresAssumption
    <2>3. sub \in [Subs -> SubStatus]
        BY <1>0, <2>2 DEF RemoteTypeOK, RemoteTask, SubStatus
    <2>4. Derived(sub) \in {"processing", "completed", "partial_completed", "failed"}
        BY DEF Derived
    <2>5. status \in MasterStatus /\ status # Missing
        BY <2>4 DEF MasterStatus, Terminal, Missing
    <2>6. r \in RemoteTask /\ r.status # Missing
        BY <2>3, <2>5 DEF RemoteTask
    <2>7. Coherent(r)
        <3>1. remote[t].status = "stopped" => Coherent(remote[t])
            BY DEF PayloadsCoherent, Missing
        <3>2. remote[t] \in RemoteTask
            BY <1>0 DEF RemoteTypeOK
        <3> HIDE DEF sub, status
        <3>3. sub = [remote[t].sub EXCEPT ![s] = outcome]
            BY DEF sub
        <3>4. status = IF remote[t].status = "stopped" THEN "stopped" ELSE Derived(sub)
            BY DEF status
        <3>5. QED
            BY <2>2, <3>1, <3>2, <3>3, <3>4, FinishCoherent
    <2>8. remote' = [remote EXCEPT ![t] = r] /\ UNCHANGED pushes
        BY <1>2, <2>1 DEF RemoteFinish
    <2>9. RemoteForward
        BY <1>0, <1>2, FinishForward
    <2> HIDE DEF r
    <2>10. QED
        BY <1>0, <2>6, <2>7, <2>8, <2>9, AdvanceFollows
<1>3. CASE RemotePush(t)
    <2>1. /\ UNCHANGED remote /\ pushes' = pushes \cup {ResultView(remote[t], t)}
          /\ Coherent(remote[t])
        BY <1>3 DEF RemotePush, Terminal, Missing, PayloadsCoherent
    <2>2. Coherent(ResultView(remote[t], t))
        BY <2>1 DEF Coherent, ResultView
    <2>3. PayloadsCoherent'
        BY <1>0, <2>1, <2>2 DEF PayloadsCoherent
    <2>4. QED
        BY <1>0, <2>1, <2>3, RowsAlone DEF Follows
<1>4. QED
    BY <1>1, <1>2, <1>3 DEF Service, RemoteWork

LEMMA StutterFollows ==
    ASSUME PayloadsCoherent, UNCHANGED vars PROVE Follows
BY RowsAlone DEF vars, remoteVars, storeVars, procVars, PayloadsCoherent, Follows
=============================================================================
