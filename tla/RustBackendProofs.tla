-------------------------- MODULE RustBackendProofs --------------------------
(***************************************************************************)
(* The properties of the Rust backend, for any tasks, subtasks, number of  *)
(* concurrent requests and batch limit.  Its saves are not transactions,   *)
(* so RustInv is not inductive: RustIInv adds what half-done saves leave   *)
(* true.  Every step either writes rows (WriteTaskRow, UpsertSubtask) or   *)
(* is Quiet: it leaves rows and saves under way alone.                     *)
(***************************************************************************)
EXTENDS RustBackend, ProcessProofs

(* A save under way has its task row, with every submit column if it is a  *)
(* submission's, and the subtask rows it has written (save_remote_result   *)
(* awaits one statement after the other, repository.rs:111-206).            *)
UnderWay(p) ==
    left[p] # {} =>
        /\ pc[p] \in Rows
        /\ HasRow(job[p])
        /\ pc[p] = "saveSubmitted" => geoTasks[job[p]].kept = SubmitColumns
        /\ \A s \in Subs \ left[p] : geoSubtasks[job[p]][s].status # Missing

(* The task row is written first: a subtask row is never without it. *)
RowsHaveTask ==
    \A t \in Tasks, s \in Subs : geoSubtasks[t][s].status # Missing => HasRow(t)

(* A submission answered with success has written all rows of its task. *)
AcceptedWhole ==
    \A t \in accepted : HasRow(t) /\ \A s \in Subs : geoSubtasks[t][s].status # Missing

RustIInv ==
    /\ CoreInv
    /\ RowsObserved
    /\ EventsTypeOK
    /\ LeftTypeOK
    /\ \A p \in Procs : UnderWay(p)
    /\ RowsHaveTask
    /\ AcceptedWhole
    /\ SubmissionsKept

LEMMA RustIInvImpliesRustInv == RustIInv => RustInv
BY DEF RustIInv, RustInv, CoreInv, UnderWay
-----------------------------------------------------------------------------
(* Rows are only ever added, and submit columns only ever filled in. *)
RowsStay ==
    \A t \in Tasks :
        /\ HasRow(t) => HasRow(t)'
        /\ geoTasks[t].kept = SubmitColumns => geoTasks'[t].kept = SubmitColumns
        /\ \A s \in Subs : geoSubtasks[t][s].status # Missing
                               => geoSubtasks'[t][s].status # Missing

(* A save that is under way after the step was so before it, at the same   *)
(* row of the same payload.                                                *)
Undisturbed(p) ==
    left'[p] # {} => left'[p] = left[p] /\ pc'[p] = pc[p] /\ job'[p] = job[p]

Quiet ==
    /\ UNCHANGED <<storeVars, accepted>>
    /\ LeftTypeOK'
    /\ \A p \in Procs : Undisturbed(p)

LEMMA UnderWayStays ==
    ASSUME CoreInv, RowsStay, NEW p \in Procs, UnderWay(p), Undisturbed(p)
    PROVE  UnderWay(p)'
<1> SUFFICES ASSUME left'[p] # {} PROVE UnderWay(p)'
    BY DEF UnderWay
<1>1. left'[p] = left[p] /\ pc'[p] = pc[p] /\ job'[p] = job[p]
    BY DEF Undisturbed
<1>2. job[p] \in Tasks
    BY <1>1, SaverKnows DEF UnderWay, Rows, Saving
<1>3. HasRow(job[p]) => HasRow(job[p])'
    BY <1>1, <1>2 DEF RowsStay, HasRow
<1>4. QED
    BY <1>1, <1>2, <1>3 DEF UnderWay, RowsStay, HasRow

LEMMA AcceptedStays ==
    ASSUME CoreInv, RowsStay, AcceptedWhole, SubmissionsKept, UNCHANGED accepted
    PROVE  AcceptedWhole' /\ SubmissionsKept'
<1>1. accepted \subseteq Tasks
    BY DEF CoreInv, TypeOK
<1>2. ASSUME NEW t \in accepted PROVE HasRow(t)'
    BY <1>1, <1>2 DEF RowsStay, AcceptedWhole
<1>3. QED
    BY <1>1, <1>2 DEF RowsStay, AcceptedWhole, SubmissionsKept

LEMMA UnchangedRowsStay == UNCHANGED storeVars => RowsStay
BY DEF RowsStay, storeVars, HasRow

LEMMA QuietKeeps ==
    ASSUME RustIInv, Quiet, CoreInv', RemoteForward, EventsTypeOK'
    PROVE  RustIInv'
<1>1. RowsStay
    BY UnchangedRowsStay DEF Quiet
<1>2. RowsObserved'
    BY RowsStayObserved DEF RustIInv, Quiet, storeVars, CoreInv, TypeOK
<1>3. RowsHaveTask'
    BY DEF RustIInv, Quiet, storeVars, RowsHaveTask, HasRow
<1>4. \A p \in Procs : UnderWay(p)'
    BY <1>1, UnderWayStays DEF RustIInv, Quiet
<1>5. QED
    BY <1>1, <1>2, <1>3, <1>4, AcceptedStays DEF RustIInv, Quiet
-----------------------------------------------------------------------------
(* The two statements of a save. *)

LEMMA RowsAreSaving == Rows \subseteq Saving
BY DEF Rows, Saving

(* Only a process that saves has rows left to write. *)
LEMMA Others ==
    ASSUME RustIInv, NEW p \in Procs, pc[p] \notin Rows PROVE left[p] = {}
BY DEF RustIInv, UnderWay

(* A statement in the middle of a save changes rows only. *)
LEMMA RowsOnlyCore ==
    ASSUME CoreInv, StoreTypeOK', UNCHANGED <<remote, pushes, pc, job, msg, queue, accepted>>
    PROVE  CoreInv'
<1>1. RemoteTypeOK' /\ RemoteConsistent'
    BY DEF CoreInv, TypeOK, RemoteTypeOK, RemoteConsistent
<1>2. QED
    BY <1>1 DEF CoreInv, TypeOK, SnapshotsObserved, ProcsConsistent, QueueKnown, Observed

LEMMA WriteTaskRowKeeps ==
    ASSUME RustIInv, NEW p \in Procs, WriteTaskRow(p) PROVE RustIInv'
<1> DEFINE t == job[p]
           m == msg[p]
<1>1. /\ m \in Snapshot /\ Observed(m) /\ m.task = t /\ t \in Tasks
      /\ remote[t].status # Missing /\ StoreTypeOK
    BY SaverKnows, RowsAreSaving DEF WriteTaskRow, RustIInv
<1>2. /\ UNCHANGED <<remoteVars, geoSubtasks, pc, job, msg, queue, accepted, processed>>
      /\ left[p] = {} /\ left' = [left EXCEPT ![p] = Subs] /\ pc[p] \in Rows
    BY DEF WriteTaskRow, procVars
<1>3. m.status \in MasterStatus /\ m.sub \in [Subs -> SubStatus]
    BY <1>1 DEF Snapshot
<1>4. /\ geoTasks'[t] = TaskRowAfter(pc[p], m)
      /\ \A u \in Tasks \ {t} : geoTasks'[u] = geoTasks[u]
    BY <1>1 DEF WriteTaskRow, StoreTypeOK
<1>5. /\ geoTasks'[t].status = m.status
      /\ geoTasks'[t].kept = IF pc[p] = "saveSubmitted" THEN SubmitColumns ELSE geoTasks[t].kept
    BY <1>1, <1>4 DEF TaskRowAfter
<1>6. StoreTypeOK'
    <2>1. TaskRowAfter(pc[p], m) \in TaskRow
        BY <1>1, <1>3, CompletedItemsType DEF TaskRowAfter, TaskRow, StoreTypeOK
    <2>2. clock' \in Nat
        BY <1>1 DEF WriteTaskRow, StoreTypeOK
    <2>3. QED
        BY <1>1, <1>2, <2>1, <2>2 DEF WriteTaskRow, StoreTypeOK
<1>7. HasRow(t)' /\ m.status # Missing
    BY <1>2, <1>3, <1>5 DEF HasRow, MasterStatus, Terminal, Missing
<1>8. RowsStay
    <2>1. ASSUME NEW u \in Tasks PROVE HasRow(u) => HasRow(u)'
        BY <1>2, <1>4, <1>7 DEF HasRow
    <2>2. QED
        BY <1>2, <1>4, <1>5, <2>1 DEF RowsStay
<1>9. CoreInv'
    BY <1>2, <1>6, RowsOnlyCore DEF remoteVars, RustIInv
<1>10. RowsObserved'
    <2> SUFFICES ASSUME NEW u \in Tasks, HasRow(u)'
                 PROVE  /\ remote'[u].status # Missing
                        /\ MasterPrecedes(geoTasks'[u].status, remote'[u].status)
                        /\ \A s \in Subs : geoSubtasks'[u][s].status # Missing =>
                              /\ SubPrecedes(geoSubtasks'[u][s].status, remote'[u].sub[s])
                              /\ geoSubtasks'[u][s].answer
                                    => geoSubtasks'[u][s].status = "completed"
        BY DEF RowsObserved
    <2>1. HasRow(u) => u = t \/ geoTasks'[u] = geoTasks[u]
        BY <1>4
    <2>2. CASE u # t
        BY <1>2, <1>4, <2>2 DEF remoteVars, HasRow, RustIInv, RowsObserved
    <2>3. CASE u = t
        <3>1. remote'[t].status # Missing /\ MasterPrecedes(m.status, remote'[t].status)
            BY <1>1, <1>2 DEF remoteVars, Observed
        <3>2. ASSUME NEW s \in Subs, geoSubtasks[t][s].status # Missing
              PROVE  /\ SubPrecedes(geoSubtasks[t][s].status, remote[t].sub[s])
                     /\ geoSubtasks[t][s].answer => geoSubtasks[t][s].status = "completed"
            BY <1>1, <3>2 DEF RustIInv, RowsHaveTask, RowsObserved
        <3>3. QED
            BY <1>2, <1>5, <2>3, <3>1, <3>2 DEF remoteVars
    <2>4. QED
        BY <2>2, <2>3
<1>11. RowsHaveTask'
    BY <1>2, <1>8 DEF RustIInv, RowsHaveTask, RowsStay
<1>12. ASSUME NEW q \in Procs PROVE UnderWay(q)'
    <2>1. CASE q # p
        BY <1>2, <1>8, <2>1, UnderWayStays DEF RustIInv, LeftTypeOK, Undisturbed
    <2>2. CASE q = p
        <3>1. left'[p] = Subs /\ job'[p] = t /\ pc'[p] = pc[p]
            BY <1>2 DEF RustIInv, LeftTypeOK
        <3>2. HasRow(job[p])'
            BY <1>7, <3>1 DEF HasRow
        <3>3. QED
            BY <1>2, <1>5, <2>2, <3>1, <3>2 DEF UnderWay
    <2>3. QED
        BY <2>1, <2>2
<1>13. LeftTypeOK' /\ EventsTypeOK'
    BY <1>2 DEF RustIInv, LeftTypeOK, EventsTypeOK
<1>14. QED
    BY <1>2, <1>8, <1>9, <1>10, <1>11, <1>12, <1>13, AcceptedStays DEF RustIInv

(* One subtask row is written: what that does to the rows. *)
LEMMA SubRowWritten ==
    ASSUME RustIInv, NEW p \in Procs, NEW s \in Subs, UpsertSubtask(p, s)
    PROVE  /\ StoreTypeOK' /\ RowsStay /\ RowsObserved' /\ RowsHaveTask'
           /\ \A x \in (Subs \ left[p]) \cup {s} : geoSubtasks'[job[p]][x].status # Missing
<1> DEFINE m == msg[p]
<1>1. /\ s \in left[p] /\ pc[p] \in Rows
      /\ UNCHANGED <<remote, geoTasks, clock>>
      /\ geoSubtasks' = [geoSubtasks EXCEPT ![job[p]][s] = SubRowOf(m, s)]
    BY DEF UpsertSubtask, RustIInv, UnderWay
<1>2. /\ m \in Snapshot /\ Observed(m) /\ m.task = job[p] /\ job[p] \in Tasks
      /\ StoreTypeOK /\ HasRow(job[p])
    BY <1>1, SaverKnows, RowsAreSaving DEF RustIInv, UnderWay
<1>3. PICK t \in Tasks : t = job[p]
    BY <1>2
<1>4. PICK row \in SubRow : row = SubRowOf(m, s)
    BY <1>2, SubRowsType DEF SubRowsOf
<1>5. /\ row.status = m.sub[s] /\ row.status \in SubStatus /\ row.status # Missing
      /\ row.answer <=> s \in m.answers
    BY <1>2, <1>4 DEF SubRowOf, Snapshot, SubStatus, Missing
<1>6. /\ geoSubtasks'[t][s] = row
      /\ \A x \in Subs \ {s} : geoSubtasks'[t][x] = geoSubtasks[t][x]
      /\ \A u \in Tasks \ {t} : geoSubtasks'[u] = geoSubtasks[u]
    BY <1>1, <1>2, <1>3, <1>4 DEF StoreTypeOK
<1>7. StoreTypeOK'
    BY <1>1, <1>2, <1>3, <1>4 DEF StoreTypeOK
<1>8. \A u \in Tasks : HasRow(u)' <=> HasRow(u)
    BY <1>1 DEF HasRow
<1>9. ASSUME NEW u \in Tasks, NEW x \in Subs, geoSubtasks[u][x].status # Missing
      PROVE  geoSubtasks'[u][x].status # Missing
    BY <1>5, <1>6, <1>9
<1>10. RowsStay
    BY <1>1, <1>8, <1>9 DEF RowsStay
<1>11. RowsObserved'
    <2> SUFFICES ASSUME NEW u \in Tasks, HasRow(u)'
                 PROVE  /\ remote'[u].status # Missing
                        /\ MasterPrecedes(geoTasks'[u].status, remote'[u].status)
                        /\ \A x \in Subs : geoSubtasks'[u][x].status # Missing =>
                              /\ SubPrecedes(geoSubtasks'[u][x].status, remote'[u].sub[x])
                              /\ geoSubtasks'[u][x].answer
                                    => geoSubtasks'[u][x].status = "completed"
        BY DEF RowsObserved
    <2>1. HasRow(u) /\ RowsObserved
        BY <1>8 DEF RustIInv
    <2>2. ASSUME NEW x \in Subs, geoSubtasks'[u][x].status # Missing
          PROVE  /\ SubPrecedes(geoSubtasks'[u][x].status, remote'[u].sub[x])
                 /\ geoSubtasks'[u][x].answer => geoSubtasks'[u][x].status = "completed"
        <3>1. CASE u = t /\ x = s
            BY <1>1, <1>2, <1>3, <1>5, <1>6, <3>1 DEF Observed
        <3>2. CASE u # t \/ x # s
            BY <1>1, <1>6, <2>1, <2>2, <3>2 DEF RowsObserved
        <3>3. QED
            BY <3>1, <3>2
    <2>3. QED
        BY <1>1, <2>1, <2>2 DEF RowsObserved
<1>12. RowsHaveTask'
    <2> SUFFICES ASSUME NEW u \in Tasks, NEW x \in Subs, geoSubtasks'[u][x].status # Missing
                 PROVE  HasRow(u)
        BY <1>8 DEF RowsHaveTask
    <2>1. QED
        BY <1>2, <1>3, <1>6 DEF RustIInv, RowsHaveTask
<1>13. \A x \in Subs \ left[p] : geoSubtasks[t][x].status # Missing
    BY <1>1, <1>3 DEF RustIInv, UnderWay
<1>14. QED
    BY <1>3, <1>5, <1>6, <1>7, <1>10, <1>11, <1>12, <1>13

(* The other saves under way do not notice; the own one has one row less   *)
(* to write.                                                               *)
LEMMA SubRowUnderWay ==
    ASSUME RustIInv, NEW p \in Procs, NEW s \in Subs, UpsertSubtask(p, s),
           \A q \in Procs \ {p} : pc'[q] = pc[q] /\ job'[q] = job[q],
           left[p] \ {s} # {} => pc'[p] = pc[p] /\ job'[p] = job[p]
    PROVE  LeftTypeOK' /\ \A q \in Procs : UnderWay(q)'
<1>1. RowsStay /\ \A x \in (Subs \ left[p]) \cup {s} : geoSubtasks'[job[p]][x].status # Missing
    BY SubRowWritten
<1>2. left' = [left EXCEPT ![p] = @ \ {s}] /\ left \in [Procs -> SUBSET Subs]
    BY DEF UpsertSubtask, RustIInv, LeftTypeOK
<1>3. LeftTypeOK'
    BY <1>2 DEF LeftTypeOK
<1>4. ASSUME NEW q \in Procs, q # p PROVE UnderWay(q)'
    BY <1>1, <1>2, <1>4, UnderWayStays DEF RustIInv, Undisturbed
<1>5. UnderWay(p)'
    <2> SUFFICES ASSUME left'[p] # {} PROVE UnderWay(p)'
        BY DEF UnderWay
    <2>1. left'[p] = left[p] \ {s} /\ pc'[p] = pc[p] /\ job'[p] = job[p] /\ left[p] # {}
        BY <1>2
    <2>2. UnderWay(p) /\ job[p] \in Tasks
        BY <2>1, SaverKnows, RowsAreSaving DEF RustIInv, UnderWay
    <2>3. HasRow(job[p])'
        BY <1>1, <2>1, <2>2 DEF RowsStay, UnderWay, HasRow
    <2>4. \A x \in Subs \ left'[p] : geoSubtasks'[job[p]][x].status # Missing
        BY <1>1, <2>1
    <2>5. QED
        BY <1>1, <2>1, <2>2, <2>3, <2>4 DEF UnderWay, RowsStay
<1>6. QED
    BY <1>3, <1>4, <1>5

(* Where the last row of a save leads: the label and the task of the       *)
(* process afterwards, and what is acknowledged and accepted.              *)
LEMMA SavedEnds ==
    ASSUME CoreInv, NEW p \in Procs, Saved(p)
    PROVE  /\ Return(p) \/ GoTo(p, "fetchResult", job[p], None)
           /\ pushes' \subseteq pushes
           /\ \/ UNCHANGED accepted
              \/ pc[p] = "saveSubmitted" /\ accepted' = accepted \cup {job[p]}
<1>1. \A m : Acknowledge(m) => pushes' \subseteq pushes
    BY AcknowledgeOnlyRemoves
<1>2. CASE pc[p] = "saveCallback" /\ Acknowledge(msg[p]) /\ Return(p) /\ UNCHANGED accepted
    BY <1>1, <1>2
<1>3. CASE pc[p] = "saveSubmitted" /\ accepted' = accepted \cup {job[p]} /\ Return(p)
           /\ UNCHANGED pushes
    BY <1>3
<1>4. CASE (Return(p) \/ GoTo(p, "fetchResult", job[p], None)) /\ UNCHANGED <<pushes, accepted>>
    BY <1>4
<1>5. QED
    BY <1>2, <1>3, <1>4 DEF Saved

LEMMA LastRowKeeps ==
    ASSUME RustIInv, NEW p \in Procs, NEW s \in Subs, UpsertSubtask(p, s), left[p] = {s}
    PROVE  RustIInv'
<1>1. /\ StoreTypeOK' /\ RowsStay /\ RowsObserved' /\ RowsHaveTask'
      /\ \A x \in Subs : geoSubtasks'[job[p]][x].status # Missing
    BY SubRowWritten
<1>2. left'[p] = {} /\ Saved(p) /\ UNCHANGED <<remote, queue, processed>>
    BY DEF UpsertSubtask, RustIInv, LeftTypeOK
<1>3. /\ pc[p] \in Rows /\ HasRow(job[p])
      /\ pc[p] = "saveSubmitted" => geoTasks[job[p]].kept = SubmitColumns
    BY DEF RustIInv, UnderWay
<1>4. job[p] \in Tasks /\ remote[job[p]].status # Missing
    BY <1>3, SaverKnows, RowsAreSaving DEF RustIInv
<1>5. /\ Return(p) \/ GoTo(p, "fetchResult", job[p], None)
      /\ pushes' \subseteq pushes
      /\ \/ UNCHANGED accepted
         \/ pc[p] = "saveSubmitted" /\ accepted' = accepted \cup {job[p]}
    BY <1>2, SavedEnds DEF RustIInv
<1>6. accepted \subseteq Tasks /\ accepted' \subseteq Tasks
    BY <1>4, <1>5 DEF RustIInv, CoreInv, TypeOK
<1>7. CoreInv'
    <2>1. "fetchResult" \in Fetching
        BY DEF Fetching
    <2>2. UNCHANGED <<remote, queue>>
        BY <1>2
    <2>3. QED
        BY <1>1, <1>4, <1>5, <1>6, <2>1, <2>2, SavingCore DEF RustIInv, Return
<1>8. LeftTypeOK' /\ \A q \in Procs : UnderWay(q)'
    <2>1. \A q \in Procs \ {p} : pc'[q] = pc[q] /\ job'[q] = job[q]
        BY <1>5 DEF Return, GoTo, RustIInv, CoreInv, TypeOK
    <2>2. QED
        BY <2>1, SubRowUnderWay
<1>9. ASSUME NEW t \in accepted'
      PROVE  /\ HasRow(t)' /\ geoTasks'[t].kept = SubmitColumns
             /\ \A x \in Subs : geoSubtasks'[t][x].status # Missing
    <2>1. CASE t \in accepted
        BY <1>1, <1>6, <2>1 DEF RustIInv, AcceptedWhole, SubmissionsKept, RowsStay
    <2>2. CASE t \notin accepted
        <3>1. t = job[p] /\ pc[p] = "saveSubmitted" /\ t \in Tasks
            BY <1>4, <1>5, <2>2
        <3>2. HasRow(t)
            BY <1>3, <3>1
        <3>3. QED
            BY <1>1, <1>3, <3>1, <3>2 DEF RowsStay
    <2>3. QED
        BY <2>1, <2>2
<1>10. AcceptedWhole' /\ SubmissionsKept' /\ EventsTypeOK'
    BY <1>2, <1>9 DEF AcceptedWhole, SubmissionsKept, RustIInv, EventsTypeOK
<1>11. QED
    BY <1>1, <1>7, <1>8, <1>10 DEF RustIInv

LEMMA UpsertSubtaskKeeps ==
    ASSUME RustIInv, NEW p \in Procs, NEW s \in Subs, UpsertSubtask(p, s) PROVE RustIInv'
<1>1. CASE left[p] = {s}
    BY <1>1, LastRowKeeps
<1>2. CASE left[p] # {s}
    <2>1. /\ left'[p] = left[p] \ {s} /\ left'[p] # {}
          /\ UNCHANGED <<remote, pushes, pc, job, msg, queue, accepted, processed>>
        BY <1>2 DEF UpsertSubtask, RustIInv, LeftTypeOK
    <2>2. StoreTypeOK' /\ RowsStay /\ RowsObserved' /\ RowsHaveTask'
        BY SubRowWritten
    <2>3. LeftTypeOK' /\ \A q \in Procs : UnderWay(q)'
        BY <2>1, SubRowUnderWay
    <2>4. CoreInv'
        BY <2>1, <2>2, RowsOnlyCore DEF RustIInv
    <2>5. QED
        BY <2>1, <2>2, <2>3, <2>4, AcceptedStays DEF RustIInv, EventsTypeOK
<1>3. QED
    BY <1>1, <1>2
-----------------------------------------------------------------------------
(* Every other step is quiet. *)

(* A process that saves nothing may go anywhere. *)
LEMMA MoveIsQuiet ==
    ASSUME RustIInv, UNCHANGED <<storeVars, accepted, left>>,
           NEW p \in Procs, NEW label, NEW t, NEW m,
           GoTo(p, label, t, m) \/ UNCHANGED <<pc, job, msg>>, pc[p] \notin Rows
    PROVE  Quiet
<1>1. left[p] = {}
    BY Others
<1>2. \A q \in Procs \ {p} : pc'[q] = pc[q] /\ job'[q] = job[q]
    BY DEF GoTo, RustIInv, CoreInv, TypeOK
<1>3. QED
    BY <1>1, <1>2 DEF Quiet, Undisturbed, RustIInv, LeftTypeOK

LEMMA RequestKeeps ==
    ASSUME RustIInv, NEW p \in Procs, UNCHANGED <<processed, left>>,
           \/ \E t \in Tasks : CreateTask(p, t) \/ ManualSync(p, t)
           \/ FetchStatus(p) \/ FetchResult(p)
    PROVE  RustIInv'
<1>1. CoreInv' /\ RemoteForward
    BY CreateCore, ManualSyncCore, FetchCore DEF RustIInv
<1>2. Quiet
    <2>1. pc[p] \notin Rows /\ UNCHANGED <<storeVars, accepted, left>>
        BY DEF CreateTask, ManualSync, FetchStatus, FetchResult, Rows
    <2>2. CASE \E t \in Tasks : CreateTask(p, t)
        BY <2>1, <2>2, MoveIsQuiet DEF CreateTask
    <2>3. CASE \E t \in Tasks : ManualSync(p, t)
        BY <2>1, <2>3, MoveIsQuiet DEF ManualSync
    <2>4. CASE FetchStatus(p) \/ FetchResult(p)
        BY <2>1, <2>4, MoveIsQuiet DEF FetchStatus, FetchResult
    <2>5. QED
        BY <2>2, <2>3, <2>4
<1>3. QED
    BY <1>1, <1>2, QuietKeeps DEF RustIInv, EventsTypeOK

LEMMA CallbackKeeps ==
    ASSUME RustIInv, NEW p \in Procs,
           ReceiveCallback(p) \/ StoreDuplicate(p) \/ StoreEvent(p)
    PROVE  RustIInv'
<1>1. CASE ReceiveCallback(p)
    <2>1. PICK m \in pushes, label \in {"saveDuplicate", "saveEvent"} : TakeUp(p, m, label)
        BY <1>1 DEF ReceiveCallback
    <2>2. UNCHANGED <<storeVars, accepted, left, processed>> /\ pc[p] \notin Rows
        BY <1>1 DEF ReceiveCallback, TakeUp, Rows
    <2>3. label \in Saving \ Fetching
        BY DEF Saving, Fetching
    <2>4. CoreInv' /\ RemoteForward
        BY <2>1, <2>3, ReceiveCore DEF RustIInv
    <2>5. Quiet
        BY <2>1, <2>2, MoveIsQuiet DEF TakeUp
    <2>6. QED
        BY <2>2, <2>4, <2>5, QuietKeeps DEF RustIInv, EventsTypeOK
<1>2. CASE StoreDuplicate(p)
    <2>1. /\ UNCHANGED <<remote, queue>> /\ UNCHANGED <<storeVars, accepted, left>>
          /\ UNCHANGED processed
          /\ pc[p] \notin Rows /\ GoTo(p, "idle", None, None) /\ pushes' \subseteq pushes
        BY <1>2, AcknowledgeOnlyRemoves DEF StoreDuplicate, Return, Rows
    <2>2. StoreTypeOK' /\ accepted' \subseteq Tasks
        BY <2>1 DEF RustIInv, CoreInv, TypeOK, storeVars, StoreTypeOK
    <2>3. CoreInv' /\ RemoteForward
        BY <2>1, <2>2, SavingCore DEF RustIInv
    <2>4. Quiet
        BY <2>1, MoveIsQuiet
    <2>5. QED
        BY <2>1, <2>3, <2>4, QuietKeeps DEF RustIInv, EventsTypeOK
<1>3. CASE StoreEvent(p)
    <2>1. /\ pc[p] = "saveEvent" /\ GoTo(p, "saveCallback", job[p], msg[p])
          /\ UNCHANGED <<storeVars, accepted, left>> /\ processed' = processed \cup {msg[p]}
          /\ UNCHANGED <<remoteVars, storeVars, queue, accepted>>
        BY <1>3 DEF StoreEvent
    <2>2. /\ pc[p] \in Saving /\ pc[p] \notin Rows
          /\ "saveCallback" \in Saving /\ "saveCallback" \notin Fetching
        BY <2>1 DEF Saving, Fetching, Rows
    <2>3. msg[p] \in Snapshot /\ Observed(msg[p]) /\ msg[p].task = job[p] /\ job[p] \in Tasks
        BY <2>2, SaverKnows DEF RustIInv
    <2>4. msg[p] # None
        BY <2>3, NoneAssumption
    <2>5. CoreInv' /\ RemoteForward
        BY <2>1, <2>2, <2>3, <2>4, PrivateCore DEF RustIInv
    <2>6. Quiet
        BY <2>1, <2>2, MoveIsQuiet
    <2>7. QED
        BY <2>1, <2>3, <2>5, <2>6, QuietKeeps DEF RustIInv, EventsTypeOK
<1>4. QED
    BY <1>1, <1>2, <1>3

(* A save that fails, or dies with the process, leaves its rows half done: *)
(* it is no longer under way, and what it wrote stays.                     *)
LEMMA FailKeeps ==
    ASSUME RustIInv, NEW p \in Procs, Fail(p) PROVE RustIInv'
<1>1. CoreInv' /\ RemoteForward
    BY GiveUpCore DEF Fail, RustIInv
<1>2. Quiet
    <2>1. UNCHANGED <<storeVars, accepted>> /\ left' = [left EXCEPT ![p] = {}]
        BY DEF Fail, GiveUp
    <2>2. \A q \in Procs \ {p} : pc'[q] = pc[q] /\ job'[q] = job[q]
        BY DEF Fail, GiveUp, Return, GoTo, RustIInv, CoreInv, TypeOK
    <2>3. QED
        BY <2>1, <2>2 DEF Quiet, Undisturbed, RustIInv, LeftTypeOK
<1>3. QED
    BY <1>1, <1>2, QuietKeeps DEF Fail, RustIInv, EventsTypeOK

LEMMA DieKeeps ==
    ASSUME RustIInv, Die PROVE RustIInv'
<1>1. CoreInv' /\ RemoteForward
    BY CrashCore DEF Die, RustIInv
<1>2. Quiet
    BY DEF Die, Crash, Quiet, Undisturbed, LeftTypeOK
<1>3. QED
    BY <1>1, <1>2, QuietKeeps DEF Die, RustIInv, EventsTypeOK

LEMMA SyncUnfinishedKeeps ==
    ASSUME RustIInv, SyncUnfinished PROVE RustIInv'
<1>1. RowsKnown
    BY DEF RustIInv, RowsObserved, RowsKnown
<1>2. CoreInv' /\ RemoteForward
    BY <1>1, StartPassCore, NextTaskCore DEF SyncUnfinished, RustIInv
<1>3. Quiet
    <2>1. Loop \in Procs
        BY DEF Procs
    <2>2. pc[Loop] \notin Rows /\ UNCHANGED <<storeVars, accepted, left>>
        BY DEF SyncUnfinished, StartPass, NextTask, Rows
    <2>3. \/ GoTo(Loop, "fetchStatus", Head(queue), None)
          \/ UNCHANGED <<pc, job, msg>>
        BY DEF SyncUnfinished, StartPass, NextTask
    <2>4. QED
        BY <2>1, <2>2, <2>3, MoveIsQuiet
<1>4. QED
    BY <1>2, <1>3, QuietKeeps DEF SyncUnfinished, RustIInv, EventsTypeOK

(* The service works on, or nothing happens at all. *)
LEMMA OutsideKeeps ==
    ASSUME RustIInv, UNCHANGED <<storeVars, procVars, processed, left>>,
           CoreInv', RemoteForward
    PROVE  RustIInv'
<1>1. UNCHANGED <<storeVars, accepted, pc, job, left>>
    BY DEF procVars
<1>2. Quiet
    BY <1>1 DEF Quiet, Undisturbed, RustIInv, LeftTypeOK
<1>3. QED
    BY <1>2, QuietKeeps DEF RustIInv, EventsTypeOK

LEMMA RustInit == Init => RustIInv
<1>1. Init => CoreInv /\ RowsObserved
    BY CoreInit DEF Init
<1>2. Init => LeftTypeOK /\ EventsTypeOK /\ \A p \in Procs : left[p] = {}
    BY DEF Init, LeftTypeOK, EventsTypeOK
<1>3. Init => RowsHaveTask
    BY DEF Init, StoreInit, NoSubRow, RowsHaveTask
<1>4. Init => AcceptedWhole /\ SubmissionsKept
    BY DEF Init, ProcsInit, AcceptedWhole, SubmissionsKept
<1>5. QED
    BY <1>1, <1>2, <1>3, <1>4 DEF RustIInv, UnderWay

LEMMA RustStep == RustIInv /\ [Next]_rustVars => RustIInv'
<1> SUFFICES ASSUME RustIInv, [Next]_rustVars PROVE RustIInv'
    OBVIOUS
<1>1. ASSUME NEW p \in Handlers, Handler(p) PROVE RustIInv'
    <2>1. p \in Procs
        BY DEF Procs
    <2>2. QED
        BY <1>1, <2>1, RequestKeeps, CallbackKeeps DEF Handler
<1>2. ASSUME NEW p \in Procs, FetchStatus(p) \/ FetchResult(p), UNCHANGED <<processed, left>>
      PROVE  RustIInv'
    BY <1>2, RequestKeeps
<1>3. ASSUME NEW p \in Procs, Save(p) PROVE RustIInv'
    BY <1>3, WriteTaskRowKeeps, UpsertSubtaskKeeps DEF Save
<1>4. ASSUME NEW p \in Procs, Fail(p) PROVE RustIInv'
    BY <1>4, FailKeeps
<1>5. CASE SyncUnfinished \/ Die
    BY <1>5, SyncUnfinishedKeeps, DieKeeps
<1>6. ASSUME NEW t \in Tasks, StopTask(t), UNCHANGED <<processed, left>> PROVE RustIInv'
    <2>1. CoreInv' /\ RemoteForward
        BY <1>6, StopCore DEF RustIInv
    <2>2. QED
        BY <1>6, <2>1, OutsideKeeps DEF StopTask
<1>7. ASSUME NEW t \in Tasks, Service(t), UNCHANGED <<storeVars, procVars, processed, left>>
      PROVE  RustIInv'
    <2>1. CoreInv' /\ RemoteForward
        BY <1>7, ServiceCore DEF RustIInv
    <2>2. QED
        BY <1>7, <2>1, OutsideKeeps
<1>8. CASE UNCHANGED rustVars
    <2>1. UNCHANGED <<vars, storeVars, procVars, processed, left>>
        BY <1>8 DEF rustVars, eventVars, vars
    <2>2. QED
        BY <2>1, StutterCore, OutsideKeeps DEF RustIInv
<1>9. QED
    BY <1>1, <1>2, <1>3, <1>4, <1>5, <1>6, <1>7, <1>8 DEF Next

LEMMA RustIInvInvariant == Spec => []RustIInv
BY RustInit, RustStep, PTL DEF Spec

(* Whatever saves interleave, fail or die half done, every row on its own  *)
(* shows what the service once said, and every save under way has its task *)
(* row (repository.rs:76-140, statements outside any transaction).         *)
THEOREM RustInvInvariant == Spec => []RustInv
BY RustIInvInvariant, RustIInvImpliesRustInv, PTL

(* A submission answered with success has left all its submit columns, and *)
(* no later save of the task removes one (repository.rs:76-140).           *)
THEOREM RustKeepsSubmissions == Spec => []SubmissionsKept
<1>1. RustIInv => SubmissionsKept
    BY DEF RustIInv
<1>2. QED
    BY <1>1, RustIInvInvariant, PTL

(* Half-done saves hide no gap of a task whose submission was answered     *)
(* with success: the scan (repository.rs:160-169) still selects it.  For   *)
(* tasks first heard of in a push the same is false: the scan cannot see a *)
(* row that was never written.                                             *)
THEOREM RustRescansAccepted == Spec => []AcceptedGapRescanned
<1>1. RustIInv => AcceptedGapRescanned
    <2> SUFFICES ASSUME RustIInv, NEW t \in accepted, Finished(t), t \notin Unfinished
                 PROVE  Mirrored(t)
        BY DEF AcceptedGapRescanned
    <2>1. StoreTypeOK /\ t \in Tasks /\ HasRow(t)
        BY DEF RustIInv, CoreInv, TypeOK, AcceptedWhole
    <2>2. /\ MasterPrecedes(geoTasks[t].status, remote[t].status)
          /\ \A s \in Subs : /\ geoSubtasks[t][s].status # Missing
                             /\ SubPrecedes(geoSubtasks[t][s].status, remote[t].sub[s])
                             /\ geoSubtasks[t][s].answer => remote[t].sub[s] = "completed"
        BY <2>1 DEF RustIInv, AcceptedWhole, RowsObserved, SubPrecedes
    <2>3. QED
        BY <2>1, <2>2, UnselectedShowsResult
<1>2. QED
    BY <1>1, RustIInvInvariant, PTL
-----------------------------------------------------------------------------
(* The event row of a push is written before the push is applied, or known *)
(* to be there (save_callback, repository.rs:142-158).                     *)
EventsKnown ==
    \A p \in Procs : pc[p] \in {"saveCallback", "saveDuplicate"} => msg[p] \in processed

(* It stays so when one process moves: at most to a save of a push with an *)
(* event row.                                                              *)
LEMMA MoveKnows ==
    ASSUME RustIInv, EventsKnown, processed \subseteq processed',
           NEW p \in Procs, NEW label, NEW t, NEW m, GoTo(p, label, t, m),
           label \in {"saveCallback", "saveDuplicate"} => m \in processed'
    PROVE  EventsKnown'
<1>1. /\ \A q \in Procs \ {p} : pc'[q] = pc[q] /\ msg'[q] = msg[q]
      /\ pc'[p] = label /\ msg'[p] = m
    BY DEF GoTo, RustIInv, CoreInv, TypeOK
<1>2. QED
    BY <1>1 DEF EventsKnown

LEMMA RestKnows ==
    ASSUME EventsKnown, UNCHANGED <<processed, pc, msg>> PROVE EventsKnown'
BY DEF EventsKnown

LEMMA HandlerKnows ==
    ASSUME RustIInv, EventsKnown, NEW p \in Procs, Handler(p)
    PROVE  EventsKnown' /\ pushes \ pushes' \subseteq processed'
<1>1. ASSUME NEW t \in Tasks, CreateTask(p, t), UNCHANGED processed
      PROVE  EventsKnown' /\ UNCHANGED pushes
    <2>1. CASE GoTo(p, "saveSubmitted", t, StatusView(NewRemoteTask, t))
        BY <1>1, <2>1, MoveKnows DEF CreateTask
    <2>2. CASE UNCHANGED <<pc, job, msg>>
        BY <1>1, <2>2, RestKnows DEF CreateTask
    <2>3. QED
        BY <1>1, <2>1, <2>2 DEF CreateTask
<1>2. ASSUME NEW t \in Tasks, ManualSync(p, t), UNCHANGED processed
      PROVE  EventsKnown' /\ UNCHANGED pushes
    BY <1>2, MoveKnows DEF ManualSync, remoteVars
<1>3. CASE ReceiveCallback(p)
    <2>1. PICK m \in pushes :
              /\ TakeUp(p, m, IF m \in processed THEN "saveDuplicate" ELSE "saveEvent")
              /\ UNCHANGED processed
        BY <1>3 DEF ReceiveCallback
    <2>2. CASE m \in processed
        BY <2>1, <2>2, MoveKnows DEF TakeUp, remoteVars
    <2>3. CASE m \notin processed
        BY <2>1, <2>3, MoveKnows DEF TakeUp, remoteVars
    <2>4. QED
        BY <2>2, <2>3
<1>4. CASE StoreDuplicate(p)
    <2>1. EventsKnown'
        BY <1>4, MoveKnows DEF StoreDuplicate, Return
    <2>2. msg[p] \in processed /\ processed' = processed /\ Acknowledge(msg[p])
        BY <1>4 DEF StoreDuplicate, EventsKnown
    <2>3. QED
        BY <2>1, <2>2 DEF Acknowledge
<1>5. CASE StoreEvent(p)
    BY <1>5, MoveKnows DEF StoreEvent, remoteVars
<1>6. QED
    BY <1>1, <1>2, <1>3, <1>4, <1>5 DEF Handler

LEMMA SaveKnows ==
    ASSUME RustIInv, EventsKnown, NEW p \in Procs, Save(p)
    PROVE  EventsKnown' /\ pushes \ pushes' \subseteq processed'
<1>1. CASE WriteTaskRow(p)
    BY <1>1, RestKnows DEF WriteTaskRow, procVars, remoteVars
<1>2. ASSUME NEW s \in Subs, UpsertSubtask(p, s), UNCHANGED <<pushes, pc, job, msg, accepted>>
      PROVE  EventsKnown' /\ UNCHANGED pushes
    BY <1>2, RestKnows DEF UpsertSubtask
<1>3. ASSUME NEW s \in Subs, UpsertSubtask(p, s), Saved(p)
      PROVE  EventsKnown' /\ pushes \ pushes' \subseteq processed'
    <2>1. UNCHANGED processed
        BY <1>3 DEF UpsertSubtask
    <2>2. Return(p) \/ GoTo(p, "fetchResult", job[p], None)
        BY <1>3, SavedEnds DEF RustIInv
    <2>3. EventsKnown'
        BY <2>1, <2>2, MoveKnows DEF Return
    <2>4. UNCHANGED pushes \/ (pc[p] = "saveCallback" /\ Acknowledge(msg[p]))
        BY <1>3 DEF Saved
    <2>5. QED
        BY <2>1, <2>3, <2>4 DEF Acknowledge, EventsKnown
<1>4. QED
    BY <1>1, <1>2, <1>3 DEF Save, UpsertSubtask

LEMMA EventsKnownStep ==
    ASSUME RustIInv, EventsKnown, [Next]_rustVars
    PROVE  EventsKnown' /\ pushes \ pushes' \subseteq processed'
<1>1. ASSUME NEW p \in Handlers, Handler(p)
      PROVE  EventsKnown' /\ pushes \ pushes' \subseteq processed'
    BY <1>1, HandlerKnows DEF Procs
<1>2. ASSUME NEW p \in Procs, FetchStatus(p) \/ FetchResult(p), UNCHANGED processed
      PROVE  EventsKnown' /\ UNCHANGED pushes
    BY <1>2, MoveKnows DEF FetchStatus, FetchResult, remoteVars
<1>3. ASSUME NEW p \in Procs, Fail(p)
      PROVE  EventsKnown' /\ UNCHANGED pushes
    BY <1>3, MoveKnows DEF Fail, GiveUp, Return, remoteVars
<1>4. CASE Die
    BY <1>4 DEF Die, Crash, EventsKnown, remoteVars
<1>5. CASE SyncUnfinished
    <2>1. Loop \in Procs /\ UNCHANGED pushes
        BY <1>5 DEF Procs, SyncUnfinished, StartPass, NextTask, remoteVars
    <2>2. CASE StartPass
        BY <1>5, <2>1, <2>2, RestKnows DEF SyncUnfinished, StartPass
    <2>3. CASE NextTask
        BY <1>5, <2>1, <2>3, MoveKnows DEF SyncUnfinished, NextTask
    <2>4. QED
        BY <1>5, <2>1, <2>2, <2>3 DEF SyncUnfinished
<1>6. ASSUME NEW t \in Tasks, StopTask(t), UNCHANGED processed
      PROVE  EventsKnown' /\ UNCHANGED pushes
    BY <1>6, RestKnows DEF StopTask, procVars
<1>7. ASSUME NEW t \in Tasks, Service(t), UNCHANGED <<procVars, processed>>
      PROVE  EventsKnown' /\ pushes \subseteq pushes'
    BY <1>7, RestKnows DEF Service, RemoteWork, RemoteStart, RemoteFinish, RemotePush, procVars
<1>8. CASE UNCHANGED rustVars
    BY <1>8, RestKnows DEF rustVars, eventVars, vars, remoteVars, procVars
<1>9. QED
    BY <1>1, <1>2, <1>3, <1>4, <1>5, <1>6, <1>7, <1>8, SaveKnows DEF Next

(* No push is acknowledged before its event row is written, although the   *)
(* event and the save of the push are statements apart (save_callback).    *)
THEOREM RustRecordsAckedPushes == Spec => AckedAreRecorded
<1>1. Init => EventsKnown
    BY DEF Init, ProcsInit, EventsKnown
<1>2. RustIInv /\ EventsKnown /\ [Next]_rustVars => EventsKnown'
    BY EventsKnownStep
<1>3. RustIInv /\ EventsKnown /\ [Next]_rustVars => [pushes \ pushes' \subseteq processed']_eventVars
    BY EventsKnownStep
<1>4. QED
    BY <1>1, <1>2, <1>3, RustIInvInvariant, PTL DEF Spec, AckedAreRecorded
=============================================================================
