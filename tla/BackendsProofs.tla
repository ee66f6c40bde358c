---------------------------- MODULE BackendsProofs ----------------------------
(***************************************************************************)
(* Theorems about Go, Node and PHP backends on one database, in whatever   *)
(* deployment: what each promises alone, and what they promise together.   *)
(* The backends' actions are first brought into one vocabulary (Saves and  *)
(* its neighbours), which the proofs of the properties then use.           *)
(***************************************************************************)
EXTENDS Backends, ProcessProofs

(* The operators of BackendProcesses mean the same in every instance of a  *)
(* backend's module.                                                       *)

LEMMA GoShares ==
    ASSUME NEW p, NEW t, NEW m, NEW label
    PROVE  /\ Go!GoTo(p, label, t, m) <=> GoTo(p, label, t, m)
           /\ Go!Return(p) <=> Return(p)
           /\ Go!Acknowledge(m) <=> Acknowledge(m)
           /\ Go!CompletedItems(m) = CompletedItems(m)
           /\ Go!HasRow(t) <=> HasRow(t)
           /\ Go!CreateTask(p, t) <=> CreateTask(p, t)
           /\ Go!ManualSync(p, t) <=> ManualSync(p, t)
           /\ Go!FetchStatus(p) <=> FetchStatus(p)
           /\ Go!FetchResult(p) <=> FetchResult(p)
           /\ Go!GiveUp(p) <=> GiveUp(p)
           /\ Go!TakeUp(p, m, label) <=> TakeUp(p, m, label)
           /\ Go!remoteVars = remoteVars /\ Go!storeVars = storeVars
<1>1. Go!GoTo(p, label, t, m) <=> GoTo(p, label, t, m)
    BY DEF Go!GoTo, GoTo
<1>2. Go!Return(p) <=> Return(p)
    BY DEF Go!Return, Go!GoTo, Return, GoTo
<1>3. \A S : Go!Cardinality(S) = Cardinality(S)
    BY DEF Go!Cardinality, Cardinality
<1>4. Go!CompletedItems(m) = CompletedItems(m)
    BY <1>3 DEF Go!CompletedItems, CompletedItems
<1>5. /\ Go!Acknowledge(m) <=> Acknowledge(m)
      /\ Go!HasRow(t) <=> HasRow(t)
      /\ Go!remoteVars = remoteVars /\ Go!storeVars = storeVars
    BY DEF Go!Acknowledge, Acknowledge, Go!HasRow, HasRow, Go!Missing, Missing, Go!remoteVars,
           remoteVars, Go!storeVars, storeVars
<1>6. Go!CreateTask(p, t) <=> CreateTask(p, t)
    BY DEF Go!CreateTask, CreateTask, Go!GoTo, GoTo, Go!StatusView, StatusView,
           Go!NewRemoteTask, NewRemoteTask, Go!Missing, Missing, Go!storeVars, storeVars
<1>7. Go!ManualSync(p, t) <=> ManualSync(p, t)
    BY DEF Go!ManualSync, ManualSync, Go!GoTo, GoTo, Go!Missing, Missing, Go!remoteVars,
           remoteVars, Go!storeVars, storeVars
<1>8. /\ Go!FetchStatus(p) <=> FetchStatus(p)
      /\ Go!FetchResult(p) <=> FetchResult(p)
    BY DEF Go!FetchStatus, FetchStatus, Go!FetchResult, FetchResult, Go!GoTo, GoTo,
           Go!StatusView, StatusView, Go!ResultView, ResultView, Go!remoteVars, remoteVars,
           Go!storeVars, storeVars
<1>9. /\ Go!GiveUp(p) <=> GiveUp(p)
      /\ Go!TakeUp(p, m, label) <=> TakeUp(p, m, label)
    BY <1>2 DEF Go!GiveUp, GiveUp, Go!TakeUp, TakeUp, Go!GoTo, GoTo, Go!remoteVars, remoteVars,
           Go!storeVars, storeVars
<1>10. QED
    BY <1>1, <1>2, <1>4, <1>5, <1>6, <1>7, <1>8, <1>9

LEMMA NodeShares ==
    ASSUME NEW p, NEW t, NEW m, NEW label
    PROVE  /\ Node!GoTo(p, label, t, m) <=> GoTo(p, label, t, m)
           /\ Node!Return(p) <=> Return(p)
           /\ Node!Acknowledge(m) <=> Acknowledge(m)
           /\ Node!CompletedItems(m) = CompletedItems(m)
           /\ Node!HasRow(t) <=> HasRow(t)
           /\ Node!CreateTask(p, t) <=> CreateTask(p, t)
           /\ Node!ManualSync(p, t) <=> ManualSync(p, t)
           /\ Node!FetchStatus(p) <=> FetchStatus(p)
           /\ Node!FetchResult(p) <=> FetchResult(p)
           /\ Node!GiveUp(p) <=> GiveUp(p)
           /\ Node!TakeUp(p, m, label) <=> TakeUp(p, m, label)
           /\ Node!remoteVars = remoteVars /\ Node!storeVars = storeVars
<1>1. Node!GoTo(p, label, t, m) <=> GoTo(p, label, t, m)
    BY DEF Node!GoTo, GoTo
<1>2. Node!Return(p) <=> Return(p)
    BY DEF Node!Return, Node!GoTo, Return, GoTo
<1>3. \A S : Node!Cardinality(S) = Cardinality(S)
    BY DEF Node!Cardinality, Cardinality
<1>4. Node!CompletedItems(m) = CompletedItems(m)
    BY <1>3 DEF Node!CompletedItems, CompletedItems
<1>5. /\ Node!Acknowledge(m) <=> Acknowledge(m)
      /\ Node!HasRow(t) <=> HasRow(t)
      /\ Node!remoteVars = remoteVars /\ Node!storeVars = storeVars
    BY DEF Node!Acknowledge, Acknowledge, Node!HasRow, HasRow, Node!Missing, Missing,
           Node!remoteVars, remoteVars, Node!storeVars, storeVars
<1>6. Node!CreateTask(p, t) <=> CreateTask(p, t)
    BY DEF Node!CreateTask, CreateTask, Node!GoTo, GoTo, Node!StatusView, StatusView,
           Node!NewRemoteTask, NewRemoteTask, Node!Missing, Missing, Node!storeVars, storeVars
<1>7. Node!ManualSync(p, t) <=> ManualSync(p, t)
    BY DEF Node!ManualSync, ManualSync, Node!GoTo, GoTo, Node!Missing, Missing,
           Node!remoteVars, remoteVars, Node!storeVars, storeVars
<1>8. /\ Node!FetchStatus(p) <=> FetchStatus(p)
      /\ Node!FetchResult(p) <=> FetchResult(p)
    BY DEF Node!FetchStatus, FetchStatus, Node!FetchResult, FetchResult, Node!GoTo, GoTo,
           Node!StatusView, StatusView, Node!ResultView, ResultView, Node!remoteVars,
           remoteVars, Node!storeVars, storeVars
<1>9. /\ Node!GiveUp(p) <=> GiveUp(p)
      /\ Node!TakeUp(p, m, label) <=> TakeUp(p, m, label)
    BY <1>2
    DEF Node!GiveUp, GiveUp, Node!TakeUp, TakeUp, Node!GoTo, GoTo, Node!remoteVars,
        remoteVars, Node!storeVars, storeVars
<1>10. QED
    BY <1>1, <1>2, <1>4, <1>5, <1>6, <1>7, <1>8, <1>9

LEMMA PhpShares ==
    ASSUME NEW p, NEW t, NEW m, NEW label
    PROVE  /\ Php!GoTo(p, label, t, m) <=> GoTo(p, label, t, m)
           /\ Php!Return(p) <=> Return(p)
           /\ Php!Acknowledge(m) <=> Acknowledge(m)
           /\ Php!CompletedItems(m) = CompletedItems(m)
           /\ Php!HasRow(t) <=> HasRow(t)
           /\ Php!CreateTask(p, t) <=> CreateTask(p, t)
           /\ Php!ManualSync(p, t) <=> ManualSync(p, t)
           /\ Php!FetchStatus(p) <=> FetchStatus(p)
           /\ Php!FetchResult(p) <=> FetchResult(p)
           /\ Php!GiveUp(p) <=> GiveUp(p)
           /\ Php!TakeUp(p, m, label) <=> TakeUp(p, m, label)
           /\ Php!remoteVars = remoteVars /\ Php!storeVars = storeVars
<1>1. Php!GoTo(p, label, t, m) <=> GoTo(p, label, t, m)
    BY DEF Php!GoTo, GoTo
<1>2. Php!Return(p) <=> Return(p)
    BY DEF Php!Return, Php!GoTo, Return, GoTo
<1>3. \A S : Php!Cardinality(S) = Cardinality(S)
    BY DEF Php!Cardinality, Cardinality
<1>4. Php!CompletedItems(m) = CompletedItems(m)
    BY <1>3 DEF Php!CompletedItems, CompletedItems
<1>5. /\ Php!Acknowledge(m) <=> Acknowledge(m)
      /\ Php!HasRow(t) <=> HasRow(t)
      /\ Php!remoteVars = remoteVars /\ Php!storeVars = storeVars
    BY DEF Php!Acknowledge, Acknowledge, Php!HasRow, HasRow, Php!Missing, Missing,
           Php!remoteVars, remoteVars, Php!storeVars, storeVars
<1>6. Php!CreateTask(p, t) <=> CreateTask(p, t)
    BY DEF Php!CreateTask, CreateTask, Php!GoTo, GoTo, Php!StatusView, StatusView,
           Php!NewRemoteTask, NewRemoteTask, Php!Missing, Missing, Php!storeVars, storeVars
<1>7. Php!ManualSync(p, t) <=> ManualSync(p, t)
    BY DEF Php!ManualSync, ManualSync, Php!GoTo, GoTo, Php!Missing, Missing, Php!remoteVars,
           remoteVars, Php!storeVars, storeVars
<1>8. /\ Php!FetchStatus(p) <=> FetchStatus(p)
      /\ Php!FetchResult(p) <=> FetchResult(p)
    BY DEF Php!FetchStatus, FetchStatus, Php!FetchResult, FetchResult, Php!GoTo, GoTo,
           Php!StatusView, StatusView, Php!ResultView, ResultView, Php!remoteVars, remoteVars,
           Php!storeVars, storeVars
<1>9. /\ Php!GiveUp(p) <=> GiveUp(p)
      /\ Php!TakeUp(p, m, label) <=> TakeUp(p, m, label)
    BY <1>2
    DEF Php!GiveUp, GiveUp, Php!TakeUp, TakeUp, Php!GoTo, GoTo, Php!remoteVars, remoteVars,
        Php!storeVars, storeVars
<1>10. QED
    BY <1>1, <1>2, <1>4, <1>5, <1>6, <1>7, <1>8, <1>9

LEMMA PhpNullsShares ==
    ASSUME NEW p, NEW t, NEW m, NEW label
    PROVE  /\ PhpNulls!GoTo(p, label, t, m) <=> GoTo(p, label, t, m)
           /\ PhpNulls!Return(p) <=> Return(p)
           /\ PhpNulls!Acknowledge(m) <=> Acknowledge(m)
           /\ PhpNulls!CompletedItems(m) = CompletedItems(m)
           /\ PhpNulls!HasRow(t) <=> HasRow(t)
           /\ PhpNulls!CreateTask(p, t) <=> CreateTask(p, t)
           /\ PhpNulls!ManualSync(p, t) <=> ManualSync(p, t)
           /\ PhpNulls!FetchStatus(p) <=> FetchStatus(p)
           /\ PhpNulls!FetchResult(p) <=> FetchResult(p)
           /\ PhpNulls!GiveUp(p) <=> GiveUp(p)
           /\ PhpNulls!TakeUp(p, m, label) <=> TakeUp(p, m, label)
           /\ PhpNulls!remoteVars = remoteVars /\ PhpNulls!storeVars = storeVars
<1>1. PhpNulls!GoTo(p, label, t, m) <=> GoTo(p, label, t, m)
    BY DEF PhpNulls!GoTo, GoTo
<1>2. PhpNulls!Return(p) <=> Return(p)
    BY DEF PhpNulls!Return, PhpNulls!GoTo, Return, GoTo
<1>3. \A S : PhpNulls!Cardinality(S) = Cardinality(S)
    BY DEF PhpNulls!Cardinality, Cardinality
<1>4. PhpNulls!CompletedItems(m) = CompletedItems(m)
    BY <1>3 DEF PhpNulls!CompletedItems, CompletedItems
<1>5. /\ PhpNulls!Acknowledge(m) <=> Acknowledge(m)
      /\ PhpNulls!HasRow(t) <=> HasRow(t)
      /\ PhpNulls!remoteVars = remoteVars /\ PhpNulls!storeVars = storeVars
    BY DEF PhpNulls!Acknowledge, Acknowledge, PhpNulls!HasRow, HasRow, PhpNulls!Missing,
           Missing, PhpNulls!remoteVars, remoteVars, PhpNulls!storeVars, storeVars
<1>6. PhpNulls!CreateTask(p, t) <=> CreateTask(p, t)
    BY DEF PhpNulls!CreateTask, CreateTask, PhpNulls!GoTo, GoTo, PhpNulls!StatusView,
           StatusView, PhpNulls!NewRemoteTask, NewRemoteTask, PhpNulls!Missing, Missing,
           PhpNulls!storeVars, storeVars
<1>7. PhpNulls!ManualSync(p, t) <=> ManualSync(p, t)
    BY DEF PhpNulls!ManualSync, ManualSync, PhpNulls!GoTo, GoTo, PhpNulls!Missing, Missing,
           PhpNulls!remoteVars, remoteVars, PhpNulls!storeVars, storeVars
<1>8. /\ PhpNulls!FetchStatus(p) <=> FetchStatus(p)
      /\ PhpNulls!FetchResult(p) <=> FetchResult(p)
    BY DEF PhpNulls!FetchStatus, FetchStatus, PhpNulls!FetchResult, FetchResult,
           PhpNulls!GoTo, GoTo, PhpNulls!StatusView, StatusView, PhpNulls!ResultView,
           ResultView, PhpNulls!remoteVars, remoteVars, PhpNulls!storeVars, storeVars
<1>9. /\ PhpNulls!GiveUp(p) <=> GiveUp(p)
      /\ PhpNulls!TakeUp(p, m, label) <=> TakeUp(p, m, label)
    BY <1>2
    DEF PhpNulls!GiveUp, GiveUp, PhpNulls!TakeUp, TakeUp, PhpNulls!GoTo, GoTo,
        PhpNulls!remoteVars, remoteVars, PhpNulls!storeVars, storeVars
<1>10. QED
    BY <1>1, <1>2, <1>4, <1>5, <1>6, <1>7, <1>8, <1>9
-----------------------------------------------------------------------------
(* One vocabulary for what a process of any backend does in a step. *)

Requests(p) ==
    /\ \/ \E t \in Tasks : CreateTask(p, t) \/ ManualSync(p, t)
       \/ FetchStatus(p) \/ FetchResult(p) \/ GiveUp(p)
    /\ UNCHANGED processed

(* PHP's stop request. *)
StopsTask(p) ==
    \E t \in Tasks :
        /\ Stoppable(remote[t])
        /\ remote' = [remote EXCEPT ![t] = Stopped(@)]
        /\ GoTo(p, "fetchStatus", t, None) \/ UNCHANGED <<pc, job, msg>>
        /\ UNCHANGED <<pushes, storeVars, queue, accepted, processed>>

TakesUpPush(p) ==
    \E m \in pushes :
        /\ \/ TakeUp(p, m, "saveDuplicate") /\ m \in processed
           \/ TakeUp(p, m, "saveEvent")
           \/ TakeUp(p, m, "saveCallback") /\ language[p] \in PhpKinds
        /\ UNCHANGED processed

(* What happens to a push before, or instead of, its save. *)
RecordsEvent(p) ==
    /\ p \in Handlers
    /\ pc[p] \in {"saveEvent", "saveDuplicate"}
    /\ \/ /\ language[p] \notin PhpKinds
          /\ GoTo(p, "saveCallback", job[p], msg[p])
          /\ UNCHANGED pushes
          /\ processed' = processed \/ processed' = processed \cup {msg[p]}
          /\ language[p] # "go" => msg[p] \in processed'
       \/ /\ Acknowledge(msg[p])
          /\ Return(p)
          /\ UNCHANGED processed
          /\ pc[p] = "saveDuplicate" \/ language[p] = "go"
    /\ UNCHANGED <<remote, storeVars, queue, accepted>>

Writing == {"saveSubmitted", "saveCallback", "saveStatus", "saveResult"}

(* completed_items, and whether a subtask shows an answer, after a save.   *)
CountAfter(p) ==
    IF pc[p] # "saveSubmitted" THEN CompletedItems(msg[p])
    ELSE IF language[p] = "node" THEN geoTasks[job[p]].done ELSE 0

AnswerAfter(p, s) ==
    \/ s \in msg[p].answers
    \/ /\ geoSubtasks[job[p]][s].answer
       /\ \/ language[p] = "php"
          \/ language[p] = "phpNulls" /\ pc[p] \in {"saveSubmitted", "saveStatus"}

(* The transaction of any backend that saves the snapshot p holds. *)
SavesRows(p) ==
    /\ StoreTypeOK'
    /\ geoTasks'[job[p]].status = msg[p].status
    /\ geoTasks'[job[p]].done = CountAfter(p)
    /\ geoTasks'[job[p]].kept =
          IF pc[p] = "saveSubmitted" THEN SubmitColumns ELSE geoTasks[job[p]].kept
    /\ \A s \in Subs : /\ geoSubtasks'[job[p]][s].status = msg[p].sub[s]
                       /\ geoSubtasks'[job[p]][s].answer <=> AnswerAfter(p, s)
    /\ \A t \in Tasks \ {job[p]} : /\ geoTasks'[t] = geoTasks[t]
                                   /\ geoSubtasks'[t] = geoSubtasks[t]

Saves(p) ==
    /\ pc[p] \in Writing
    /\ pc[p] \in {"saveSubmitted", "saveCallback"} => p \in Handlers
    /\ SavesRows(p)
    /\ Return(p) \/ GoTo(p, "fetchResult", job[p], None)
    /\ IF pc[p] = "saveCallback" THEN Acknowledge(msg[p]) ELSE UNCHANGED pushes
    /\ accepted' = IF pc[p] = "saveSubmitted" THEN accepted \cup {job[p]} ELSE accepted
    /\ processed' = IF pc[p] = "saveCallback" /\ language[p] \in PhpKinds
                    THEN processed \cup {msg[p]} ELSE processed
    /\ UNCHANGED <<remote, queue>>

ProcessStep(p) ==
    \/ Requests(p)
    \/ StopsTask(p)
    \/ TakesUpPush(p)
    \/ RecordsEvent(p)
    \/ Saves(p)
-----------------------------------------------------------------------------
(* The backends' own actions, one backend at a time. *)

LEMMA GoSaves ==
    ASSUME CoreInv, NEW p \in Procs, language[p] = "go",
           \/ Go!StoreSubmitted(p) /\ p \in Handlers
           \/ Go!StoreCallback(p) /\ p \in Handlers
           \/ Go!StoreStatus(p) \/ Go!StoreResult(p),
           UNCHANGED processed
    PROVE  Saves(p)
<1>1. pc[p] \in Writing /\ (pc[p] \in {"saveSubmitted", "saveCallback"} => p \in Handlers)
    BY DEF Go!StoreSubmitted, Go!StoreCallback, Go!StoreStatus, Go!StoreResult, Writing
<1>2. /\ msg[p] \in Snapshot /\ msg[p].task = job[p] /\ job[p] \in Tasks
      /\ StoreTypeOK
    BY <1>1, SaverKnows DEF Writing, Saving
<1>3. SavesRows(p)
    <2>1. \A s \in Subs : AnswerAfter(p, s) <=> s \in msg[p].answers
        BY DEF AnswerAfter
    <2>2. /\ Go!SubRowsOf(msg[p]) \in [Subs -> SubRow]
          /\ \A s \in Subs : /\ Go!SubRowsOf(msg[p])[s].status = msg[p].sub[s]
                             /\ Go!SubRowsOf(msg[p])[s].answer <=> AnswerAfter(p, s)
        <3>1. Go!SubRowsOf(msg[p]) \in [Subs -> SubRow]
            BY <1>2 DEF Go!SubRowsOf, Go!SubRowOf, SubRow, Snapshot
        <3>2. QED
            BY <2>1, <3>1 DEF Go!SubRowsOf, Go!SubRowOf
    <2>3. CompletedItems(msg[p]) \in Nat /\ msg[p].status \in MasterStatus
        BY <1>2, CompletedItemsType DEF Snapshot
    <2>4. CASE Go!StoreSubmitted(p)
        BY <1>2, <2>2, <2>3, <2>4
        DEF Go!StoreSubmitted, Go!SaveSubmitted, SavesRows, CountAfter, Go!SubmitColumns,
            SubmitColumns, StoreTypeOK, TaskRow
    <2>5. CASE Go!StoreCallback(p) \/ Go!StoreStatus(p) \/ Go!StoreResult(p)
        <3>1. Go!WriteSnapshot(msg[p]) /\ pc[p] # "saveSubmitted"
            BY <2>5 DEF Go!StoreCallback, Go!StoreStatus, Go!StoreResult, Go!SaveRemoteResult
        <3>2. /\ Go!HasRow(job[p]) <=> HasRow(job[p])
              /\ Go!CompletedItems(msg[p]) = CompletedItems(msg[p])
            BY GoShares
        <3>3. QED
            BY <1>2, <2>2, <2>3, <3>1, <3>2
            DEF Go!WriteSnapshot, SavesRows, CountAfter, StoreTypeOK, TaskRow
    <2>6. QED
        BY <2>4, <2>5
<1>4. UNCHANGED <<remote, queue>> /\ (Return(p) \/ GoTo(p, "fetchResult", job[p], None))
    BY GoShares
    DEF Go!StoreSubmitted, Go!StoreCallback, Go!StoreStatus, Go!StoreResult, Go!remoteVars
<1>5. IF pc[p] = "saveCallback" THEN Acknowledge(msg[p]) ELSE UNCHANGED pushes
    BY GoShares
    DEF Go!StoreSubmitted, Go!StoreCallback, Go!StoreStatus, Go!StoreResult, Go!remoteVars
<1>6. accepted' = IF pc[p] = "saveSubmitted" THEN accepted \cup {job[p]} ELSE accepted
    BY DEF Go!StoreSubmitted, Go!StoreCallback, Go!StoreStatus, Go!StoreResult
<1>7. QED
    BY <1>1, <1>3, <1>4, <1>5, <1>6 DEF Saves, PhpKinds

LEMMA NodeSaves ==
    ASSUME CoreInv, NEW p \in Procs, language[p] = "node",
           \/ Node!StoreSubmitted(p) /\ p \in Handlers
           \/ Node!StoreCallback(p) /\ p \in Handlers
           \/ Node!StoreStatus(p) \/ Node!StoreResult(p)
    PROVE  Saves(p)
<1>1. pc[p] \in Writing /\ (pc[p] \in {"saveSubmitted", "saveCallback"} => p \in Handlers)
    BY DEF Node!StoreSubmitted, Node!StoreCallback, Node!StoreStatus, Node!StoreResult, Writing
<1>2. /\ msg[p] \in Snapshot /\ msg[p].task = job[p] /\ job[p] \in Tasks
      /\ StoreTypeOK
    BY <1>1, SaverKnows DEF Writing, Saving
<1>3. SavesRows(p)
    <2>1. \A s \in Subs : AnswerAfter(p, s) <=> s \in msg[p].answers
        BY DEF AnswerAfter
    <2>2. /\ Node!SubRowsOf(msg[p]) \in [Subs -> SubRow]
          /\ \A s \in Subs : /\ Node!SubRowsOf(msg[p])[s].status = msg[p].sub[s]
                             /\ Node!SubRowsOf(msg[p])[s].answer <=> AnswerAfter(p, s)
        <3>1. Node!SubRowsOf(msg[p]) \in [Subs -> SubRow]
            BY <1>2 DEF Node!SubRowsOf, Node!SubRowOf, SubRow, Snapshot
        <3>2. QED
            BY <2>1, <3>1 DEF Node!SubRowsOf, Node!SubRowOf
    <2>3. CompletedItems(msg[p]) \in Nat /\ msg[p].status \in MasterStatus
        BY <1>2, CompletedItemsType DEF Snapshot
    <2>4. /\ Node!HasRow(job[p]) <=> HasRow(job[p])
          /\ Node!CompletedItems(msg[p]) = CompletedItems(msg[p])
        BY NodeShares
    <2>5. CASE Node!StoreSubmitted(p)
        BY <1>2, <2>2, <2>3, <2>4, <2>5
        DEF Node!StoreSubmitted, Node!SaveSubmitted, SavesRows, CountAfter,
            Node!SubmitColumns, SubmitColumns, StoreTypeOK, TaskRow
    <2>6. CASE Node!StoreCallback(p) \/ Node!StoreStatus(p) \/ Node!StoreResult(p)
        <3>1. Node!WriteSnapshot(msg[p]) /\ pc[p] # "saveSubmitted"
            BY <2>6
            DEF Node!StoreCallback, Node!StoreStatus, Node!StoreResult, Node!SaveRemoteResult
        <3>2. QED
            BY <1>2, <2>2, <2>3, <2>4, <3>1
            DEF Node!WriteSnapshot, SavesRows, CountAfter, StoreTypeOK, TaskRow
    <2>7. QED
        BY <2>5, <2>6
<1>4. /\ UNCHANGED <<remote, queue, processed>>
      /\ Return(p) \/ GoTo(p, "fetchResult", job[p], None)
    BY NodeShares
    DEF Node!StoreSubmitted, Node!StoreCallback, Node!StoreStatus, Node!StoreResult,
        Node!remoteVars
<1>5. IF pc[p] = "saveCallback" THEN Acknowledge(msg[p]) ELSE UNCHANGED pushes
    BY NodeShares
    DEF Node!StoreSubmitted, Node!StoreCallback, Node!StoreStatus, Node!StoreResult,
        Node!remoteVars
<1>6. accepted' = IF pc[p] = "saveSubmitted" THEN accepted \cup {job[p]} ELSE accepted
    BY DEF Node!StoreSubmitted, Node!StoreCallback, Node!StoreStatus, Node!StoreResult
<1>7. QED
    BY <1>1, <1>3, <1>4, <1>5, <1>6 DEF Saves, PhpKinds

LEMMA PhpSaves ==
    ASSUME CoreInv, NEW p \in Procs, language[p] = "php",
           \/ Php!StoreSubmitted(p) /\ p \in Handlers
           \/ Php!StoreCallback(p) /\ p \in Handlers
           \/ Php!StoreStatus(p) \/ Php!StoreResult(p)
    PROVE  Saves(p)
<1>1. pc[p] \in Writing /\ (pc[p] \in {"saveSubmitted", "saveCallback"} => p \in Handlers)
    BY DEF Php!StoreSubmitted, Php!StoreCallback, Php!StoreStatus, Php!StoreResult, Writing
<1>2. /\ msg[p] \in Snapshot /\ msg[p].task = job[p] /\ job[p] \in Tasks
      /\ StoreTypeOK
    BY <1>1, SaverKnows DEF Writing, Saving
<1>3. SavesRows(p)
    <2> DEFINE done == IF pc[p] = "saveSubmitted" THEN 0 ELSE CompletedItems(msg[p])
               kept == IF pc[p] = "saveSubmitted" THEN SubmitColumns ELSE geoTasks[job[p]].kept
    <2>1. PICK rows \in [Subs -> SubRow] :
            /\ geoSubtasks' = [geoSubtasks EXCEPT ![job[p]] = rows]
            /\ \A s \in Subs : /\ rows[s].status = msg[p].sub[s]
                               /\ rows[s].answer <=> AnswerAfter(p, s)
        <3>1. ASSUME pc[p] \in {"saveCallback", "saveResult"}
              PROVE  LET rows == [s \in Subs |-> Php!UpsertSubtask(msg[p], s, TRUE)]
                     IN  /\ rows \in [Subs -> SubRow]
                         /\ geoSubtasks' = [geoSubtasks EXCEPT ![job[p]] = rows]
                         /\ \A s \in Subs : /\ rows[s].status = msg[p].sub[s]
                                            /\ rows[s].answer <=> AnswerAfter(p, s)
            <4>1. Php!UpsertSubtasks(msg[p], TRUE)
                BY <3>1
                DEF Php!StoreSubmitted, Php!StoreCallback, Php!StoreStatus, Php!StoreResult,
                    Php!ApplyRemote
            <4>2. QED
                BY <1>2, <3>1, <4>1
                DEF Php!UpsertSubtasks, Php!UpsertSubtask, AnswerAfter, SubRow, Snapshot
        <3>2. ASSUME pc[p] \in {"saveSubmitted", "saveStatus"}
              PROVE  LET rows == [s \in Subs |-> Php!UpsertSubtask(msg[p], s, FALSE)]
                     IN  /\ rows \in [Subs -> SubRow]
                         /\ geoSubtasks' = [geoSubtasks EXCEPT ![job[p]] = rows]
                         /\ \A s \in Subs : /\ rows[s].status = msg[p].sub[s]
                                            /\ rows[s].answer <=> AnswerAfter(p, s)
            <4>1. Php!UpsertSubtasks(msg[p], FALSE)
                BY <3>2 DEF Php!StoreSubmitted, Php!SaveSubmittedTask, Php!StoreCallback,
                            Php!StoreStatus, Php!StoreResult, Php!ApplyRemote
            <4>2. QED
                BY <1>2, <3>2, <4>1
                DEF Php!UpsertSubtasks, Php!UpsertSubtask, AnswerAfter, SubRow, Snapshot
        <3>3. QED
            BY <1>1, <3>1, <3>2 DEF Writing
    <2>2. done \in Nat /\ kept \in SUBSET SubmitColumns /\ msg[p].status \in MasterStatus
        BY <1>2, CompletedItemsType DEF Snapshot, StoreTypeOK, TaskRow
    <2>3. /\ Php!HasRow(job[p]) <=> HasRow(job[p])
          /\ Php!CompletedItems(msg[p]) = CompletedItems(msg[p])
          /\ Php!SubmitColumns = SubmitColumns
        BY PhpShares DEF Php!SubmitColumns, SubmitColumns
    <2>4. Php!WriteTask(job[p], msg[p].status, done, kept)
        <3>1. CASE Php!StoreSubmitted(p)
            BY <2>3, <3>1 DEF Php!StoreSubmitted, Php!SaveSubmittedTask
        <3>2. CASE Php!StoreCallback(p) \/ Php!StoreStatus(p) \/ Php!StoreResult(p)
            BY <1>2, <2>3, <3>2
            DEF Php!StoreCallback, Php!StoreStatus, Php!StoreResult, Php!ApplyRemote
        <3>3. QED
            BY <3>1, <3>2
    <2>5. done = CountAfter(p)
        BY DEF CountAfter, PhpKinds
    <2>6. /\ geoTasks'[job[p]].status = msg[p].status
          /\ geoTasks'[job[p]].done = done /\ geoTasks'[job[p]].kept = kept
          /\ \A t \in Tasks \ {job[p]} : geoTasks'[t] = geoTasks[t]
        BY <1>2, <2>4 DEF Php!WriteTask, StoreTypeOK
    <2>7. geoTasks' \in [Tasks -> TaskRow] /\ clock' \in Nat
        <3> HIDE DEF done, kept
        <3>1. clock \in Nat /\ geoTasks[job[p]] \in TaskRow
            BY <1>2 DEF StoreTypeOK
        <3>2. \/ clock' = clock
              \/ clock' = clock + 1
            BY <2>4 DEF Php!WriteTask
        <3>3. \E born \in {geoTasks[job[p]].born, clock + 1} :
                  geoTasks' = [geoTasks EXCEPT ![job[p]] =
                      [status |-> msg[p].status, done |-> done, kept |-> kept, born |-> born]]
            BY <2>4 DEF Php!WriteTask
        <3>4. geoTasks[job[p]].born \in Nat /\ clock' \in Nat /\ clock + 1 \in Nat
            BY <3>1, <3>2 DEF TaskRow
        <3>5. QED
            BY <1>2, <2>2, <3>3, <3>4 DEF StoreTypeOK, TaskRow
    <2>8. geoSubtasks' \in [Tasks -> [Subs -> SubRow]]
        BY <1>2, <2>1 DEF StoreTypeOK
    <2>9. QED
        <3> HIDE DEF done, kept
        <3>1. kept = IF pc[p] = "saveSubmitted" THEN SubmitColumns ELSE geoTasks[job[p]].kept
            BY DEF kept
        <3>2. QED
            BY <1>2, <2>1, <2>5, <2>6, <2>7, <2>8, <3>1 DEF SavesRows, StoreTypeOK
<1>4. /\ UNCHANGED <<remote, queue>>
      /\ Return(p) \/ GoTo(p, "fetchResult", job[p], None)
    BY PhpShares
    DEF Php!StoreSubmitted, Php!StoreCallback, Php!StoreStatus, Php!StoreResult, Php!remoteVars
<1>5. /\ IF pc[p] = "saveCallback" THEN Acknowledge(msg[p]) ELSE UNCHANGED pushes
      /\ processed' = IF pc[p] = "saveCallback" THEN processed \cup {msg[p]} ELSE processed
    BY PhpShares
    DEF Php!StoreSubmitted, Php!StoreCallback, Php!StoreStatus, Php!StoreResult, Php!remoteVars
<1>6. accepted' = IF pc[p] = "saveSubmitted" THEN accepted \cup {job[p]} ELSE accepted
    BY DEF Php!StoreSubmitted, Php!StoreCallback, Php!StoreStatus, Php!StoreResult
<1>7. QED
    BY <1>1, <1>3, <1>4, <1>5, <1>6 DEF Saves, PhpKinds

LEMMA PhpNullsSaves ==
    ASSUME CoreInv, NEW p \in Procs, language[p] = "phpNulls",
           \/ PhpNulls!StoreSubmitted(p) /\ p \in Handlers
           \/ PhpNulls!StoreCallback(p) /\ p \in Handlers
           \/ PhpNulls!StoreStatus(p) \/ PhpNulls!StoreResult(p)
    PROVE  Saves(p)
<1>1. pc[p] \in Writing /\ (pc[p] \in {"saveSubmitted", "saveCallback"} => p \in Handlers)
    BY DEF PhpNulls!StoreSubmitted, PhpNulls!StoreCallback, PhpNulls!StoreStatus,
           PhpNulls!StoreResult, Writing
<1>2. /\ msg[p] \in Snapshot /\ msg[p].task = job[p] /\ job[p] \in Tasks
      /\ StoreTypeOK
    BY <1>1, SaverKnows DEF Writing, Saving
<1>3. SavesRows(p)
    <2> DEFINE done == IF pc[p] = "saveSubmitted" THEN 0 ELSE CompletedItems(msg[p])
               kept == IF pc[p] = "saveSubmitted" THEN SubmitColumns ELSE geoTasks[job[p]].kept
    <2>1. PICK rows \in [Subs -> SubRow] :
            /\ geoSubtasks' = [geoSubtasks EXCEPT ![job[p]] = rows]
            /\ \A s \in Subs : /\ rows[s].status = msg[p].sub[s]
                               /\ rows[s].answer <=> AnswerAfter(p, s)
        <3>1. ASSUME pc[p] \in {"saveCallback", "saveResult"}
              PROVE  LET rows == [s \in Subs |-> PhpNulls!UpsertSubtask(msg[p], s, TRUE)]
                     IN  /\ rows \in [Subs -> SubRow]
                         /\ geoSubtasks' = [geoSubtasks EXCEPT ![job[p]] = rows]
                         /\ \A s \in Subs : /\ rows[s].status = msg[p].sub[s]
                                            /\ rows[s].answer <=> AnswerAfter(p, s)
            <4>1. PhpNulls!UpsertSubtasks(msg[p], TRUE)
                BY <3>1
                DEF PhpNulls!StoreSubmitted, PhpNulls!StoreCallback, PhpNulls!StoreStatus,
                    PhpNulls!StoreResult, PhpNulls!ApplyRemote
            <4>2. QED
                BY <1>2, <3>1, <4>1
                DEF PhpNulls!UpsertSubtasks, PhpNulls!UpsertSubtask, AnswerAfter, SubRow,
                    Snapshot
        <3>2. ASSUME pc[p] \in {"saveSubmitted", "saveStatus"}
              PROVE  LET rows == [s \in Subs |-> PhpNulls!UpsertSubtask(msg[p], s, FALSE)]
                     IN  /\ rows \in [Subs -> SubRow]
                         /\ geoSubtasks' = [geoSubtasks EXCEPT ![job[p]] = rows]
                         /\ \A s \in Subs : /\ rows[s].status = msg[p].sub[s]
                                            /\ rows[s].answer <=> AnswerAfter(p, s)
            <4>1. PhpNulls!UpsertSubtasks(msg[p], FALSE)
                BY <3>2
                DEF PhpNulls!StoreSubmitted, PhpNulls!SaveSubmittedTask,
                    PhpNulls!StoreCallback, PhpNulls!StoreStatus, PhpNulls!StoreResult,
                    PhpNulls!ApplyRemote
            <4>2. QED
                BY <1>2, <3>2, <4>1
                DEF PhpNulls!UpsertSubtasks, PhpNulls!UpsertSubtask, AnswerAfter, SubRow,
                    Snapshot
        <3>3. QED
            BY <1>1, <3>1, <3>2 DEF Writing
    <2>2. done \in Nat /\ kept \in SUBSET SubmitColumns /\ msg[p].status \in MasterStatus
        BY <1>2, CompletedItemsType DEF Snapshot, StoreTypeOK, TaskRow
    <2>3. /\ PhpNulls!HasRow(job[p]) <=> HasRow(job[p])
          /\ PhpNulls!CompletedItems(msg[p]) = CompletedItems(msg[p])
          /\ PhpNulls!SubmitColumns = SubmitColumns
        BY PhpNullsShares DEF PhpNulls!SubmitColumns, SubmitColumns
    <2>4. PhpNulls!WriteTask(job[p], msg[p].status, done, kept)
        <3>1. CASE PhpNulls!StoreSubmitted(p)
            BY <2>3, <3>1 DEF PhpNulls!StoreSubmitted, PhpNulls!SaveSubmittedTask
        <3>2. CASE PhpNulls!StoreCallback(p) \/ PhpNulls!StoreStatus(p) \/ PhpNulls!StoreResult(p)
            BY <1>2, <2>3, <3>2
            DEF PhpNulls!StoreCallback, PhpNulls!StoreStatus, PhpNulls!StoreResult,
                PhpNulls!ApplyRemote
        <3>3. QED
            BY <3>1, <3>2
    <2>5. done = CountAfter(p)
        BY DEF CountAfter, PhpKinds
    <2>6. /\ geoTasks'[job[p]].status = msg[p].status
          /\ geoTasks'[job[p]].done = done /\ geoTasks'[job[p]].kept = kept
          /\ \A t \in Tasks \ {job[p]} : geoTasks'[t] = geoTasks[t]
        BY <1>2, <2>4 DEF PhpNulls!WriteTask, StoreTypeOK
    <2>7. geoTasks' \in [Tasks -> TaskRow] /\ clock' \in Nat
        <3> HIDE DEF done, kept
        <3>1. clock \in Nat /\ geoTasks[job[p]] \in TaskRow
            BY <1>2 DEF StoreTypeOK
        <3>2. \/ clock' = clock
              \/ clock' = clock + 1
            BY <2>4 DEF PhpNulls!WriteTask
        <3>3. \E born \in {geoTasks[job[p]].born, clock + 1} :
                  geoTasks' = [geoTasks EXCEPT ![job[p]] =
                      [status |-> msg[p].status, done |-> done, kept |-> kept, born |-> born]]
            BY <2>4 DEF PhpNulls!WriteTask
        <3>4. geoTasks[job[p]].born \in Nat /\ clock' \in Nat /\ clock + 1 \in Nat
            BY <3>1, <3>2 DEF TaskRow
        <3>5. QED
            BY <1>2, <2>2, <3>3, <3>4 DEF StoreTypeOK, TaskRow
    <2>8. geoSubtasks' \in [Tasks -> [Subs -> SubRow]]
        BY <1>2, <2>1 DEF StoreTypeOK
    <2>9. QED
        <3> HIDE DEF done, kept
        <3>1. kept = IF pc[p] = "saveSubmitted" THEN SubmitColumns ELSE geoTasks[job[p]].kept
            BY DEF kept
        <3>2. QED
            BY <1>2, <2>1, <2>5, <2>6, <2>7, <2>8, <3>1 DEF SavesRows, StoreTypeOK
<1>4. /\ UNCHANGED <<remote, queue>>
      /\ Return(p) \/ GoTo(p, "fetchResult", job[p], None)
    BY PhpNullsShares
    DEF PhpNulls!StoreSubmitted, PhpNulls!StoreCallback, PhpNulls!StoreStatus,
        PhpNulls!StoreResult, PhpNulls!remoteVars
<1>5. /\ IF pc[p] = "saveCallback" THEN Acknowledge(msg[p]) ELSE UNCHANGED pushes
      /\ processed' = IF pc[p] = "saveCallback" THEN processed \cup {msg[p]} ELSE processed
    BY PhpNullsShares
    DEF PhpNulls!StoreSubmitted, PhpNulls!StoreCallback, PhpNulls!StoreStatus,
        PhpNulls!StoreResult, PhpNulls!remoteVars
<1>6. accepted' = IF pc[p] = "saveSubmitted" THEN accepted \cup {job[p]} ELSE accepted
    BY DEF PhpNulls!StoreSubmitted, PhpNulls!StoreCallback, PhpNulls!StoreStatus,
           PhpNulls!StoreResult
<1>7. QED
    BY <1>1, <1>3, <1>4, <1>5, <1>6 DEF Saves, PhpKinds

LEMMA GoSteps ==
    ASSUME CoreInv, NEW p \in Procs, GoProcess(p) PROVE ProcessStep(p)
<1>1. language[p] = "go" /\ UNCHANGED processed
    BY DEF GoProcess
<1>2. ASSUME \/ \E t \in Tasks : Go!CreateTask(p, t) \/ Go!ManualSync(p, t)
             \/ Go!FetchStatus(p) \/ Go!FetchResult(p) \/ Go!CallFails(p)
      PROVE  Requests(p)
    BY <1>1, <1>2, GoShares DEF Go!CallFails, Requests
<1>3. ASSUME Go!ReceiveCallback(p) PROVE TakesUpPush(p)
    BY <1>1, <1>3, GoShares DEF Go!ReceiveCallback, TakesUpPush
<1>4. ASSUME p \in Handlers, Go!StoreEvent(p) PROVE RecordsEvent(p)
    BY <1>1, <1>4, GoShares DEF Go!StoreEvent, Go!storeVars, storeVars, RecordsEvent, PhpKinds
<1>5. QED
    BY <1>1, <1>2, <1>3, <1>4, GoSaves DEF GoProcess, Go!Handler, Go!Sync, ProcessStep

LEMMA NodeSteps ==
    ASSUME CoreInv, NEW p \in Procs, NodeProcess(p) PROVE ProcessStep(p)
<1>1. language[p] = "node"
    BY DEF NodeProcess
<1>2. ASSUME \/ \E t \in Tasks : Node!CreateTask(p, t) \/ Node!ManualSync(p, t)
             \/ Node!FetchStatus(p) \/ Node!FetchResult(p) \/ GiveUp(p),
             UNCHANGED processed
      PROVE  Requests(p)
    BY <1>2, NodeShares DEF Requests
<1>3. ASSUME Node!ReceiveCallback(p) PROVE TakesUpPush(p)
    <2>1. PICK m \in pushes :
            /\ Node!TakeUp(p, m, IF m \in processed THEN "saveDuplicate" ELSE "saveEvent")
            /\ UNCHANGED processed
        BY <1>3 DEF Node!ReceiveCallback
    <2>2. TakeUp(p, m, IF m \in processed THEN "saveDuplicate" ELSE "saveEvent")
        BY <2>1, NodeShares
    <2>3. QED
        BY <2>1, <2>2 DEF TakesUpPush
<1>4. ASSUME p \in Handlers, Node!StoreEvent(p) \/ Node!StoreDuplicate(p) PROVE RecordsEvent(p)
    BY <1>1, <1>4, NodeShares
    DEF Node!StoreEvent, Node!StoreDuplicate, Node!storeVars, Node!remoteVars, storeVars,
        RecordsEvent, PhpKinds
<1>5. QED
    BY <1>1, <1>2, <1>3, <1>4, NodeSaves
    DEF NodeProcess, Node!Handler, Node!SyncOne, ProcessStep

LEMMA PhpSteps ==
    ASSUME CoreInv, NEW p \in Procs, language[p] = "php",
           (p \in Handlers /\ Php!Handler(p)) \/ Php!SyncOne(p)
    PROVE  ProcessStep(p)
<1>1. language[p] \in PhpKinds
    BY DEF PhpKinds
<1>2. ASSUME \/ \E t \in Tasks : Php!CreateTask(p, t) \/ Php!ManualSync(p, t)
             \/ Php!FetchStatus(p) \/ Php!FetchResult(p),
             UNCHANGED processed
      PROVE  Requests(p)
    BY <1>2, PhpShares DEF Requests
<1>3. ASSUME NEW t \in Tasks, Php!Stop(p, t) PROVE StopsTask(p)
    BY <1>3, PhpShares
    DEF Php!Stop, Php!Stoppable, Stoppable, Php!Stopped, Stopped, Php!storeVars, storeVars,
        StopsTask
<1>4. ASSUME Php!ReceiveCallback(p) PROVE TakesUpPush(p)
    <2>1. PICK m \in pushes :
            /\ Php!TakeUp(p, m, IF m \in processed THEN "saveDuplicate" ELSE "saveCallback")
            /\ UNCHANGED processed
        BY <1>4 DEF Php!ReceiveCallback
    <2>2. TakeUp(p, m, IF m \in processed THEN "saveDuplicate" ELSE "saveCallback")
        BY <2>1, PhpShares
    <2>3. QED
        BY <1>1, <2>1, <2>2 DEF TakesUpPush
<1>5. ASSUME p \in Handlers, Php!StoreDuplicate(p) PROVE RecordsEvent(p)
    BY <1>5, PhpShares DEF Php!StoreDuplicate, Php!storeVars, storeVars, RecordsEvent
<1>6. QED
    BY <1>2, <1>3, <1>4, <1>5, PhpSaves DEF Php!Handler, Php!SyncOne, ProcessStep

LEMMA PhpNullsSteps ==
    ASSUME CoreInv, NEW p \in Procs, language[p] = "phpNulls",
           (p \in Handlers /\ PhpNulls!Handler(p)) \/ PhpNulls!SyncOne(p)
    PROVE  ProcessStep(p)
<1>1. language[p] \in PhpKinds
    BY DEF PhpKinds
<1>2. ASSUME \/ \E t \in Tasks : PhpNulls!CreateTask(p, t) \/ PhpNulls!ManualSync(p, t)
             \/ PhpNulls!FetchStatus(p) \/ PhpNulls!FetchResult(p),
             UNCHANGED processed
      PROVE  Requests(p)
    BY <1>2, PhpNullsShares DEF Requests
<1>3. ASSUME NEW t \in Tasks, PhpNulls!Stop(p, t) PROVE StopsTask(p)
    BY <1>3, PhpNullsShares
    DEF PhpNulls!Stop, PhpNulls!Stoppable, Stoppable, PhpNulls!Stopped, Stopped,
        PhpNulls!storeVars, storeVars, StopsTask
<1>4. ASSUME PhpNulls!ReceiveCallback(p) PROVE TakesUpPush(p)
    <2>1. PICK m \in pushes :
            /\ PhpNulls!TakeUp(p, m, IF m \in processed THEN "saveDuplicate" ELSE "saveCallback")
            /\ UNCHANGED processed
        BY <1>4 DEF PhpNulls!ReceiveCallback
    <2>2. TakeUp(p, m, IF m \in processed THEN "saveDuplicate" ELSE "saveCallback")
        BY <2>1, PhpNullsShares
    <2>3. QED
        BY <1>1, <2>1, <2>2 DEF TakesUpPush
<1>5. ASSUME p \in Handlers, PhpNulls!StoreDuplicate(p) PROVE RecordsEvent(p)
    BY <1>5, PhpNullsShares
    DEF PhpNulls!StoreDuplicate, PhpNulls!storeVars, storeVars, RecordsEvent
<1>6. QED
    BY <1>2, <1>3, <1>4, <1>5, PhpNullsSaves DEF PhpNulls!Handler, PhpNulls!SyncOne, ProcessStep

LEMMA ProcessSteps ==
    ASSUME CoreInv, NEW p \in Procs, GoProcess(p) \/ NodeProcess(p) \/ PhpProcess(p)
    PROVE  ProcessStep(p)
<1>1. ASSUME GiveUp(p), UNCHANGED processed PROVE ProcessStep(p)
    BY <1>1 DEF ProcessStep, Requests
<1>2. QED
    BY <1>1, GoSteps, NodeSteps, PhpSteps, PhpNullsSteps DEF PhpProcess
-----------------------------------------------------------------------------
(* Every step keeps CoreInv. *)

LEMMA SaveCore ==
    ASSUME CoreInv, NEW p \in Procs, Saves(p) PROVE CoreInv' /\ RemoteForward
<1>1. pc[p] \in Saving
    BY DEF Saves, Writing, Saving
<1>2. /\ job[p] \in Tasks /\ remote[job[p]].status # Missing
      /\ accepted' \subseteq Tasks
    BY <1>1, SaverKnows DEF Saves, CoreInv, TypeOK
<1>3. pushes' \subseteq pushes
    BY AcknowledgeOnlyRemoves DEF Saves
<1>4. StoreTypeOK' /\ UNCHANGED <<remote, queue>>
    BY DEF Saves, SavesRows
<1>5. GoTo(p, "idle", None, None) \/ GoTo(p, "fetchResult", job[p], None)
    BY DEF Saves, Return
<1>6. "fetchResult" \in Fetching
    BY DEF Fetching
<1>7. QED
    BY <1>2, <1>3, <1>4, <1>5, <1>6, SavingCore

LEMMA EventCore ==
    ASSUME CoreInv, NEW p \in Procs, RecordsEvent(p) PROVE CoreInv' /\ RemoteForward
<1>1. pc[p] \in Saving
    BY DEF RecordsEvent, Saving
<1>2. CASE GoTo(p, "saveCallback", job[p], msg[p]) /\ UNCHANGED pushes
    <2>1. "saveCallback" \in Saving /\ "saveCallback" \notin Fetching /\ msg[p] # None
        BY <1>1, SaverKnows, NoneAssumption DEF Saving, Fetching
    <2>2. UNCHANGED <<remoteVars, storeVars, queue, accepted>>
        BY <1>2 DEF RecordsEvent, remoteVars
    <2>3. QED
        BY <1>1, <1>2, <2>1, <2>2, SaverKnows, PrivateCore
<1>3. CASE Acknowledge(msg[p]) /\ Return(p)
    <2>1. /\ GoTo(p, "idle", None, None) /\ pushes' \subseteq pushes
          /\ UNCHANGED <<remote, queue>>
        BY <1>3, AcknowledgeOnlyRemoves DEF RecordsEvent, Return
    <2>2. StoreTypeOK' /\ accepted' \subseteq Tasks
        BY DEF RecordsEvent, storeVars, CoreInv, TypeOK, StoreTypeOK
    <2>3. QED
        BY <2>1, <2>2, SavingCore
<1>4. QED
    BY <1>2, <1>3 DEF RecordsEvent

LEMMA StopsCore ==
    ASSUME CoreInv, NEW p \in Procs, StopsTask(p) PROVE CoreInv' /\ RemoteForward
<1>1. PICK t \in Tasks :
        /\ Stoppable(remote[t]) /\ remote' = [remote EXCEPT ![t] = Stopped(@)]
        /\ GoTo(p, "fetchStatus", t, None) \/ UNCHANGED <<pc, job, msg>>
        /\ UNCHANGED <<pushes, storeVars, queue, accepted>>
    BY DEF StopsTask
<1>2. RemoteTypeOK' /\ RemoteConsistent' /\ RemoteForward
    BY <1>1, StoppedForward DEF CoreInv, TypeOK
<1>3. "fetchStatus" \in Fetching \ Saving /\ remote'[t].status # Missing
    BY <1>1, <1>2 DEF Fetching, Saving, RemoteForward, Stoppable, Missing
<1>4. QED
    BY <1>1, <1>2, <1>3, RequestCore

LEMMA ProcessCore ==
    ASSUME CoreInv, NEW p \in Procs, ProcessStep(p) PROVE CoreInv' /\ RemoteForward
<1>1. CASE Requests(p)
    BY <1>1, CreateCore, ManualSyncCore, FetchCore, GiveUpCore DEF Requests
<1>2. CASE TakesUpPush(p)
    <2>1. {"saveDuplicate", "saveEvent", "saveCallback"} \subseteq Saving \ Fetching
        BY DEF Saving, Fetching
    <2>2. QED
        BY <1>2, <2>1, ReceiveCore DEF TakesUpPush
<1>3. QED
    BY <1>1, <1>2, SaveCore, EventCore, StopsCore DEF ProcessStep

LEMMA DeathCore ==
    ASSUME CoreInv, NEW p \in Procs, ProcessDies(p) PROVE CoreInv' /\ RemoteForward
<1>1. DieWith(p) \in SUBSET Procs
    BY DEF DieWith
<1>2. queue' = queue \/ queue' = <<>>
    BY DEF ProcessDies
<1>3. QED
    BY <1>1, <1>2, ForgetStep DEF ProcessDies
-----------------------------------------------------------------------------
(* What a step does: a process works, and perhaps saves; processes end;    *)
(* the loop moves on; or the service does, by itself or stopped.           *)
StepKind ==
    \/ \E p \in Procs : ProcessStep(p)
    \/ \E p \in Procs : ProcessDies(p)
    \/ (StartPass \/ NextTask) /\ UNCHANGED processed
    \/ \E t \in Tasks : StopTask(t) /\ UNCHANGED processed
    \/ \E t \in Tasks : Service(t) /\ UNCHANGED <<storeVars, procVars, processed>>
    \/ UNCHANGED <<vars, processed>>

LEMMA StepKinds ==
    ASSUME CoreInv, [Next]_allVars PROVE StepKind /\ UNCHANGED language
BY ProcessSteps DEF Next, StepKind, StopForwarded, allVars, eventVars

LEMMA StepCore ==
    ASSUME CoreInv, RowsKnown, StepKind PROVE CoreInv' /\ RemoteForward
BY ProcessCore, DeathCore, StartPassCore, NextTaskCore, StopCore, ServiceCore, StutterCore
DEF StepKind

(* Only saves write rows. *)
LEMMA RowsWritten ==
    ASSUME StepKind, \A p \in Procs : ~Saves(p) PROVE UNCHANGED <<storeVars, accepted>>
<1>1. ASSUME NEW p \in Procs, ProcessStep(p) PROVE UNCHANGED <<storeVars, accepted>>
    BY <1>1 DEF ProcessStep, Requests, CreateTask, ManualSync, FetchStatus, FetchResult, GiveUp,
                StopsTask, TakesUpPush, TakeUp, RecordsEvent
<1>2. QED
    BY <1>1 DEF StepKind, ProcessDies, StartPass, NextTask, StopTask, procVars, vars
-----------------------------------------------------------------------------
(* BackendInv is CoreInv with what the tables show. *)

LEMMA BackendInvParts ==
    BackendInv <=> /\ CoreInv /\ EventsTypeOK /\ RowsWhole /\ AnswersObserved
                   /\ NoPhp => RowsObserved
BY DEF BackendInv, CoreInv

(* A save leaves behind what its snapshot shows; an answer PHP keeps was   *)
(* one of a subtask the service has completed.                             *)
LEMMA SaveShows ==
    ASSUME CoreInv, RowsWhole, AnswersObserved, NEW p \in Procs, Saves(p)
    PROVE  RowsWhole' /\ AnswersObserved'
<1>1. /\ msg[p] \in Snapshot /\ Observed(msg[p]) /\ msg[p].task = job[p] /\ job[p] \in Tasks
    BY SaverKnows DEF Saves, Writing, Saving
<1>2. SavesRows(p) /\ UNCHANGED remote
    BY DEF Saves
<1>3. ASSUME NEW s \in Subs, geoSubtasks'[job[p]][s].answer
      PROVE  remote[job[p]].sub[s] = "completed"
    <2>1. CASE s \in msg[p].answers
        BY <1>1, <2>1 DEF Observed, SubPrecedes
    <2>2. CASE geoSubtasks[job[p]][s].answer
        BY <1>1, <2>2 DEF AnswersObserved
    <2>3. QED
        BY <1>2, <1>3, <2>1, <2>2 DEF SavesRows, AnswerAfter
<1>4. AnswersObserved'
    BY <1>1, <1>2, <1>3 DEF AnswersObserved, SavesRows, Observed, HasRow
<1>5. RowsWhole'
    BY <1>1, <1>2 DEF RowsWhole, SavesRows, Snapshot, SubStatus, Missing, HasRow
<1>6. QED
    BY <1>4, <1>5

(* Without PHP an answer always stands beside the status of its snapshot.  *)
LEMMA SaveShowsSnapshot ==
    ASSUME CoreInv, RowsObserved, NEW p \in Procs, Saves(p), language[p] \notin PhpKinds
    PROVE  RowsObserved'
<1>1. /\ msg[p] \in Snapshot /\ Observed(msg[p]) /\ msg[p].task = job[p] /\ job[p] \in Tasks
    BY SaverKnows DEF Saves, Writing, Saving
<1>2. SavesRows(p) /\ UNCHANGED remote
    BY DEF Saves
<1>3. \A s \in Subs : geoSubtasks'[job[p]][s].answer => s \in msg[p].answers
    BY <1>2 DEF SavesRows, AnswerAfter, PhpKinds
<1>4. QED
    BY <1>1, <1>2, <1>3 DEF RowsObserved, SavesRows, Observed, HasRow

LEMMA RowsStay ==
    ASSUME CoreInv, CoreInv', RemoteForward, UNCHANGED storeVars, RowsWhole, AnswersObserved
    PROVE  RowsWhole' /\ AnswersObserved' /\ (RowsObserved => RowsObserved')
<1>1. UNCHANGED <<geoTasks, geoSubtasks>>
    BY DEF storeVars
<1>2. RowsWhole'
    BY <1>1 DEF RowsWhole, HasRow
<1>3. RowsObserved => RowsObserved'
    BY <1>1, RowsStayObserved DEF CoreInv, TypeOK
<1>4. ASSUME NEW t \in Tasks, HasRow(t)
      PROVE  /\ remote'[t].status # Missing
             /\ MasterPrecedes(geoTasks'[t].status, remote'[t].status)
             /\ \A s \in Subs : SubPrecedes(geoSubtasks'[t][s].status, remote'[t].sub[s])
    <2>1. /\ geoTasks[t].status \in MasterStatus
          /\ \A s \in Subs : geoSubtasks[t][s].status \in SubStatus
        BY <1>4 DEF CoreInv, TypeOK, StoreTypeOK, TaskRow, SubRow, RowsWhole, HasRow
    <2>2. /\ remote[t].status \in MasterStatus /\ remote'[t].status \in MasterStatus
          /\ remote[t].sub \in [Subs -> SubStatus] /\ remote'[t].sub \in [Subs -> SubStatus]
        BY <1>4 DEF CoreInv, TypeOK, RemoteTypeOK, RemoteTask, AnswersObserved, RemoteForward
    <2>3. QED
        BY <1>1, <1>4, <2>1, <2>2, MasterPrecedesTransitive, SubPrecedesTransitive
        DEF AnswersObserved, RemoteForward
<1>5. ASSUME NEW t \in Tasks, NEW s \in Subs, geoSubtasks[t][s].answer
      PROVE  remote'[t].status # Missing /\ remote'[t].sub[s] = "completed"
    BY <1>5 DEF AnswersObserved, RemoteForward, SubPrecedes
<1>6. AnswersObserved'
    BY <1>1, <1>4, <1>5 DEF AnswersObserved, HasRow
<1>7. QED
    BY <1>2, <1>3, <1>6

(* Event rows hold payloads the service has pushed. *)
LEMMA EventsTyped ==
    ASSUME CoreInv, EventsTypeOK, StepKind PROVE EventsTypeOK'
<1>1. ASSUME NEW p \in Procs, RecordsEvent(p) \/ Saves(p) PROVE EventsTypeOK'
    <2>1. msg[p] \in Snapshot
        BY <1>1, SaverKnows DEF RecordsEvent, Saves, Writing, Saving
    <2>2. QED
        BY <1>1, <2>1 DEF RecordsEvent, Saves, EventsTypeOK
<1>2. QED
    BY <1>1
    DEF StepKind, ProcessStep, Requests, StopsTask, TakesUpPush, ProcessDies, EventsTypeOK

LEMMA BackendInvStep ==
    ASSUME BackendInv, [Next]_allVars PROVE BackendInv'
<1>1. CoreInv /\ EventsTypeOK /\ RowsWhole /\ AnswersObserved /\ (NoPhp => RowsObserved)
    BY BackendInvParts
<1>2. RowsKnown
    BY <1>1 DEF AnswersObserved, RowsKnown
<1>3. StepKind /\ UNCHANGED language
    BY <1>1, StepKinds
<1>4. CoreInv' /\ RemoteForward /\ EventsTypeOK'
    BY <1>1, <1>2, <1>3, StepCore, EventsTyped
<1>5. RowsWhole' /\ AnswersObserved' /\ (NoPhp => RowsObserved')
    <2>1. CASE \E p \in Procs : Saves(p)
        BY <1>1, <2>1, SaveShows, SaveShowsSnapshot DEF NoPhp
    <2>2. CASE \A p \in Procs : ~Saves(p)
        BY <1>1, <1>3, <1>4, <2>2, RowsWritten, RowsStay
    <2>3. QED
        BY <2>1, <2>2
<1>6. NoPhp' => NoPhp
    BY <1>3 DEF NoPhp
<1>7. QED
    BY <1>4, <1>5, <1>6 DEF BackendInv, CoreInv

LEMMA BackendInvInit == Init => BackendInv
<1> SUFFICES ASSUME Init PROVE BackendInv
    OBVIOUS
<1>1. CoreInv /\ RowsWhole /\ RowsObserved
    BY CoreInit DEF Init
<1>2. EventsTypeOK
    BY DEF Init, EventsTypeOK
<1>3. AnswersObserved
    BY DEF Init, StoreInit, NoTaskRow, NoSubRow, AnswersObserved, HasRow
<1>4. QED
    BY <1>1, <1>2, <1>3, BackendInvParts

(* Whichever backends share the database, rows stay whole and show only    *)
(* what the service has said, and no payload under way says anything else  *)
(* (the tables are one schema for all, database/schema.sql).               *)
THEOREM BackendInvInvariant == Spec => []BackendInv
<1>1. BackendInv /\ [Next]_allVars => BackendInv'
    BY BackendInvStep
<1>2. QED
    BY <1>1, BackendInvInit, PTL DEF Spec

(* No mixture of backends hides a gap of a finished task from the scan,    *)
(* which is the same SQL in every language (TaskRepository.php:216-241).   *)
THEOREM BackendsRescanGaps == Spec => []GapRescanned
<1>1. BackendInv => GapRescanned
    <2> SUFFICES ASSUME BackendInv, NEW t \in Tasks, HasRow(t), Finished(t), t \notin Unfinished
                 PROVE  Mirrored(t)
        BY DEF GapRescanned
    <2>1. StoreTypeOK /\ RowsWhole /\ AnswersObserved
        BY DEF BackendInv, TypeOK
    <2>2. QED
        BY <2>1, UnselectedShowsResult DEF RowsWhole, AnswersObserved
<1>2. QED
    BY <1>1, BackendInvInvariant, PTL
-----------------------------------------------------------------------------
(* Where a step may take a process: on with GoTo, or to its end.           *)
LEMMA ProcessesMove ==
    ASSUME StepKind
    PROVE  \/ UNCHANGED <<pc, job, msg>>
           \/ \E p \in Procs : \E label, t, m :
                 /\ GoTo(p, label, t, m)
                 /\ label = "saveSubmitted" => \E u \in Tasks : m = StatusView(NewRemoteTask, u)
           \/ /\ \A q \in Procs : \/ pc'[q] = pc[q] /\ msg'[q] = msg[q]
                                  \/ pc'[q] = "idle" /\ msg'[q] = None
              /\ pc' \in [Procs -> {pc[q] : q \in Procs} \cup {"idle"}]
<1>1. ASSUME NEW p \in Procs, ProcessStep(p)
      PROVE  \/ UNCHANGED <<pc, job, msg>>
             \/ \E label, t, m :
                   /\ GoTo(p, label, t, m)
                   /\ label = "saveSubmitted" => \E u \in Tasks : m = StatusView(NewRemoteTask, u)
    BY <1>1 DEF ProcessStep, Requests, CreateTask, ManualSync, FetchStatus, FetchResult, GiveUp,
                StopsTask, TakesUpPush, TakeUp, RecordsEvent, Saves, Return
<1>2. ASSUME NEW p \in Procs, ProcessDies(p)
      PROVE  /\ \A q \in Procs : \/ pc'[q] = pc[q] /\ msg'[q] = msg[q]
                                 \/ pc'[q] = "idle" /\ msg'[q] = None
             /\ pc' \in [Procs -> {pc[q] : q \in Procs} \cup {"idle"}]
    BY <1>2 DEF ProcessDies
<1>3. ASSUME NextTask PROVE \E label, t, m : GoTo(Loop, label, t, m) /\ label # "saveSubmitted"
    BY <1>3 DEF NextTask
<1>4. Loop \in Procs
    BY DEF Procs
<1>5. QED
    BY <1>1, <1>2, <1>3, <1>4 DEF StepKind, StartPass, StopTask, procVars, vars

(* A process about to save a submission holds one the service has only     *)
(* just accepted.                                                          *)
LEMMA FreshStep ==
    ASSUME CoreInv, SubmissionsFresh, StepKind PROVE SubmissionsFresh'
<1>1. ASSUME NEW u PROVE CompletedItems(StatusView(NewRemoteTask, u)) = 0
    <2>1. {s \in Subs : StatusView(NewRemoteTask, u).sub[s] = "completed"} = {}
        BY DEF StatusView, NewRemoteTask
    <2>2. QED
        BY <2>1, FS_EmptySet DEF CompletedItems
<1>2. ASSUME NEW p \in Procs, NEW label, NEW t, NEW m, GoTo(p, label, t, m),
             label = "saveSubmitted" => CompletedItems(m) = 0
      PROVE  SubmissionsFresh'
    BY <1>2 DEF CoreInv, TypeOK, GoTo, SubmissionsFresh, CompletedItems
<1>3. ASSUME \A q \in Procs : (pc'[q] = pc[q] /\ msg'[q] = msg[q]) \/ pc'[q] = "idle"
      PROVE  SubmissionsFresh'
    BY <1>3 DEF SubmissionsFresh, CompletedItems
<1>4. QED
    BY <1>1, <1>2, <1>3, ProcessesMove

(* A submission answered with success keeps its submit columns, whichever  *)
(* backends save the same task before or after it.                         *)
THEOREM BackendsKeepSubmissions == Spec => []SubmissionsKept
<1>1. Init => SubmissionsKept
    BY DEF Init, ProcsInit, SubmissionsKept
<1>2. BackendInv /\ SubmissionsKept /\ [Next]_allVars => SubmissionsKept'
    <2> SUFFICES ASSUME BackendInv, SubmissionsKept, [Next]_allVars PROVE SubmissionsKept'
        OBVIOUS
    <2>1. CoreInv /\ StepKind
        BY BackendInvParts, StepKinds
    <2>2. ASSUME NEW p \in Procs, Saves(p) PROVE SubmissionsKept'
        <3>1. job[p] \in Tasks /\ accepted \subseteq Tasks
            BY <2>1, <2>2, SaverKnows DEF Saves, Writing, Saving, CoreInv, TypeOK
        <3>2. QED
            BY <2>2, <3>1 DEF Saves, SavesRows, SubmissionsKept
    <2>3. CASE \A p \in Procs : ~Saves(p)
        BY <2>1, <2>3, RowsWritten DEF storeVars, SubmissionsKept
    <2>4. QED
        BY <2>2, <2>3
<1>3. QED
    BY <1>1, <1>2, BackendInvInvariant, PTL DEF Spec

(* Whether none of the requests is served by Node. *)
NoNodeHandler == \A p \in Handlers : language[p] # "node"

(* completed_items is the number of rows shown as completed, where no      *)
(* request is served by Node, whose upsert leaves the counter alone.       *)
THEOREM BackendsCountersMatch == Spec => []CountersMatch
<1> DEFINE Inv == CountersMatch /\ SubmissionsFresh
<1>1. Init => Inv
    <2> SUFFICES ASSUME Init PROVE CountersMatch /\ SubmissionsFresh
        OBVIOUS
    <2>1. ASSUME NEW t \in Tasks PROVE CompletedRows(t) = {} /\ geoTasks[t].done = 0
        BY DEF Init, StoreInit, NoTaskRow, NoSubRow, CompletedRows, Missing
    <2>2. Cardinality({}) = 0
        BY FS_EmptySet
    <2>3. CountersAgree
        BY <2>1, <2>2 DEF CountersAgree
    <2>4. QED
        BY <2>3 DEF Init, ProcsInit, SubmissionsFresh, CountersMatch
<1>2. BackendInv /\ Inv /\ [Next]_allVars => Inv'
    <2> SUFFICES ASSUME BackendInv, CountersMatch, SubmissionsFresh, [Next]_allVars
                 PROVE  CountersMatch' /\ SubmissionsFresh'
        OBVIOUS
    <2>1. CoreInv /\ StepKind /\ UNCHANGED language
        BY BackendInvParts, StepKinds
    <2>2. SubmissionsFresh'
        BY <2>1, FreshStep
    <2>3. ASSUME NEW p \in Procs, Saves(p), CountersAgree, NoNodeHandler PROVE CountersAgree'
        <3>1. /\ msg[p] \in Snapshot /\ msg[p].task = job[p] /\ job[p] \in Tasks /\ StoreTypeOK
              /\ SavesRows(p)
            BY <2>1, <2>3, SaverKnows DEF Saves, Writing, Saving
        <3>2. CountAfter(p) = CompletedItems(msg[p])
            <4>1. CASE pc[p] # "saveSubmitted"
                BY <4>1 DEF CountAfter
            <4>2. CASE pc[p] = "saveSubmitted"
                BY <2>3, <4>2 DEF CountAfter, Saves, NoNodeHandler, SubmissionsFresh
            <4>3. QED
                BY <4>1, <4>2
        <3>3. QED
            BY <2>3, <3>1, <3>2, SavedCounter DEF SavesRows
    <2>4. ASSUME \A p \in Procs : ~Saves(p), CountersAgree PROVE CountersAgree'
        BY <2>1, <2>4, RowsWritten DEF storeVars, CountersAgree, CompletedRows
    <2>5. CountersMatch'
        BY <2>1, <2>3, <2>4 DEF CountersMatch, NoNodeHandler
    <2>6. QED
        BY <2>2, <2>5
<1>3. Inv => CountersMatch
    OBVIOUS
<1>4. QED
    BY <1>1, <1>2, <1>3, BackendInvInvariant, PTL DEF Spec
-----------------------------------------------------------------------------
(* Every step is one of Replica's: a save is of one coherent snapshot.     *)

LEMMA ProcessFollows ==
    ASSUME CoreInv, PayloadsCoherent, NEW p \in Procs, ProcessStep(p) PROVE Follows
<1>1. CASE Requests(p)
    BY <1>1, CreateFollows, ManualSyncFollows, FetchFollows, GiveUpFollows DEF Requests
<1>2. CASE StopsTask(p)
    <2>1. PICK t \in Tasks :
            /\ Stoppable(remote[t]) /\ remote' = [remote EXCEPT ![t] = Stopped(@)]
            /\ GoTo(p, "fetchStatus", t, None) \/ UNCHANGED <<pc, job, msg>>
            /\ UNCHANGED <<pushes, storeVars>>
        BY <1>2 DEF StopsTask
    <2>2. \A q \in Procs : msg'[q] \in {msg[q], None}
        BY <2>1 DEF GoTo, CoreInv, TypeOK
    <2>3. UNCHANGED <<pushes, geoTasks, geoSubtasks>>
        BY <2>1 DEF storeVars
    <2>4. QED
        BY <2>1, <2>2, <2>3, StopFollows
<1>3. CASE TakesUpPush(p)
    BY <1>3, ReceiveFollows DEF TakesUpPush
<1>4. CASE RecordsEvent(p)
    <2>1. /\ pc[p] \in Saving /\ UNCHANGED <<remote, geoTasks, geoSubtasks>>
          /\ GoTo(p, "idle", None, None) \/ GoTo(p, "saveCallback", job[p], msg[p])
          /\ pushes' \subseteq pushes
        BY <1>4, AcknowledgeOnlyRemoves DEF RecordsEvent, Return, Saving, storeVars
    <2>2. Coherent(msg[p])
        BY <2>1, SaverKnows, NoneAssumption DEF PayloadsCoherent
    <2>3. PayloadsCoherent'
        BY <2>1, <2>2, CoherentGoTo
    <2>4. QED
        BY <2>1, <2>3, RowsAlone DEF Follows
<1>5. CASE Saves(p)
    <2>1. /\ pc[p] \in Saving /\ UNCHANGED remote /\ pushes' \subseteq pushes
          /\ GoTo(p, "idle", None, None) \/ GoTo(p, "fetchResult", job[p], None)
        BY <1>5, AcknowledgeOnlyRemoves DEF Saves, Return, Writing, Saving
    <2>2. SavesRows(p)
        BY <1>5 DEF Saves
    <2>3. QED
        BY <2>1, <2>2, SaveFollows DEF SavesRows
<1>6. QED
    BY <1>1, <1>2, <1>3, <1>4, <1>5 DEF ProcessStep

LEMMA StepFollows ==
    ASSUME CoreInv, PayloadsCoherent, StepKind PROVE Follows
<1>1. ASSUME NEW p \in Procs, ProcessDies(p) PROVE Follows
    <2>1. /\ UNCHANGED <<remote, geoTasks, geoSubtasks>> /\ pushes' \subseteq pushes
          /\ \A q \in Procs : msg'[q] \in {msg[q], None}
        BY <1>1 DEF ProcessDies, remoteVars, storeVars
    <2>2. QED
        BY <2>1, CoherentKept, RowsAlone DEF Follows
<1>2. ASSUME NEW t \in Tasks, StopTask(t) PROVE Follows
    <2>1. /\ Stoppable(remote[t]) /\ remote' = [remote EXCEPT ![t] = Stopped(@)]
          /\ UNCHANGED <<pushes, geoTasks, geoSubtasks, msg>>
        BY <1>2 DEF StopTask, storeVars, procVars
    <2>2. QED
        BY <2>1, StopFollows
<1>3. QED
    BY <1>1, <1>2, ProcessFollows, LoopFollows, ServiceFollows, StutterFollows DEF StepKind

(* Several backends on one database implement Replica: the rows of a task  *)
(* never mix statuses of two snapshots, whoever wrote them.                *)
THEOREM BackendsFollowService == Spec => RowsFollowService
<1>1. Init => PayloadsCoherent /\ Abstract!Init
    BY CoherentInit, AbstractInit DEF Init
<1>2. BackendInv /\ PayloadsCoherent /\ [Next]_allVars
        => PayloadsCoherent' /\ [Abstract!Next]_<<Real, Copy>>
    <2> SUFFICES ASSUME BackendInv, PayloadsCoherent, [Next]_allVars PROVE Follows
        BY DEF Follows
    <2>1. CoreInv /\ StepKind
        BY BackendInvParts, StepKinds
    <2>2. QED
        BY <2>1, StepFollows
<1>3. QED
    BY <1>1, <1>2, BackendInvInvariant, PTL DEF Spec, RowsFollowService, Abstract!Spec
-----------------------------------------------------------------------------
(* PHP's save keeps the answers its payload leaves out. *)
LEMMA AnswersStay ==
    ASSUME CoreInv, StepKind, Alone("php"),
           NEW t \in Tasks, NEW s \in Subs, geoSubtasks[t][s].answer
    PROVE  geoSubtasks'[t][s].answer
<1>1. ASSUME NEW p \in Procs, Saves(p) PROVE geoSubtasks'[t][s].answer
    BY <1>1 DEF Saves, SavesRows, AnswerAfter, Alone
<1>2. CASE \A p \in Procs : ~Saves(p)
    BY <1>2, RowsWritten DEF storeVars
<1>3. QED
    BY <1>1, <1>2

(* Where PHP runs alone, no step takes an answer out of the tables again   *)
(* (SubtaskRepository.php:18-70 updates the columns a payload mentions).   *)
THEOREM PhpAnswersSurvive == Spec => AnswersSurvive
<1>1. BackendInv /\ [Next]_allVars
        => [Alone("php") => \A t \in Tasks, s \in Subs :
                geoSubtasks[t][s].answer => geoSubtasks'[t][s].answer]_allVars
    BY BackendInvParts, StepKinds, AnswersStay
<1>2. QED
    BY <1>1, BackendInvInvariant, PTL DEF Spec, AnswersSurvive

(* There, an event row marked "processed" means that the answers of its    *)
(* payload are in the tables, and stay: the event and the save are one     *)
(* transaction (TaskRepository.php:62) and no later save removes an answer.*)
THEOREM PhpProcessedMeansStored == Spec => []ProcessedMeansStored
<1>1. Init => ProcessedMeansStored
    BY DEF Init, ProcessedMeansStored, ProcessedAnswersStored
<1>2. BackendInv /\ ProcessedMeansStored /\ [Next]_allVars => ProcessedMeansStored'
    <2> SUFFICES ASSUME BackendInv, ProcessedMeansStored, [Next]_allVars, Alone("php")'
                 PROVE  ProcessedAnswersStored'
        BY DEF ProcessedMeansStored
    <2>1. CoreInv /\ EventsTypeOK /\ StepKind /\ Alone("php") /\ ProcessedAnswersStored
        BY BackendInvParts, StepKinds DEF Alone, ProcessedMeansStored
    <2>2. \A m \in processed, s \in Subs : s \in m.answers => geoSubtasks'[m.task][s].answer
        BY <2>1, AnswersStay DEF ProcessedAnswersStored, EventsTypeOK, Snapshot
    <2>3. ASSUME NEW p \in Procs, Saves(p)
          PROVE  /\ processed' \subseteq processed \cup {msg[p]}
                 /\ \A s \in Subs : s \in msg[p].answers => geoSubtasks'[msg[p].task][s].answer
        <3>1. msg[p].task = job[p]
            BY <2>1, <2>3, SaverKnows DEF Saves, Writing, Saving
        <3>2. QED
            BY <2>3, <3>1 DEF Saves, SavesRows, AnswerAfter
    <2>4. CASE \A p \in Procs : ~Saves(p)
        <3>1. processed' = processed
            BY <2>1, <2>4
            DEF StepKind, ProcessStep, Requests, StopsTask, TakesUpPush, RecordsEvent, Alone,
                PhpKinds, ProcessDies
        <3>2. QED
            BY <2>2, <3>1 DEF ProcessedAnswersStored
    <2>5. CASE \E p \in Procs : Saves(p)
        BY <2>2, <2>3, <2>5 DEF ProcessedAnswersStored
    <2>6. QED
        BY <2>4, <2>5
<1>3. QED
    BY <1>1, <1>2, BackendInvInvariant, PTL DEF Spec
-----------------------------------------------------------------------------
(* A process that found the event row, or has written it, relies on it;    *)
(* Go and PHP take a push to its save without one.                         *)
ReliesOnEvent(label, p) ==
    \/ label = "saveDuplicate"
    \/ label = "saveCallback" /\ language[p] \notin PhpKinds \cup {"go"}

EventsKnown ==
    \A p \in Procs : ReliesOnEvent(pc[p], p) => msg[p] \in processed

LEMMA EventsGoTo ==
    ASSUME CoreInv, EventsKnown, processed \subseteq processed', UNCHANGED language,
           NEW p \in Procs, NEW label, NEW t, NEW m, GoTo(p, label, t, m),
           ReliesOnEvent(label, p) => m \in processed'
    PROVE  EventsKnown'
BY DEF EventsKnown, ReliesOnEvent, GoTo, CoreInv, TypeOK

LEMMA EventsStep ==
    ASSUME CoreInv, EventsKnown, StepKind, UNCHANGED language
    PROVE  /\ EventsKnown'
           /\ (\A p \in Handlers : language[p] # "go") => pushes \ pushes' \subseteq processed'
<1>1. ASSUME NEW p \in Procs, Requests(p) \/ StopsTask(p)
      PROVE  EventsKnown' /\ UNCHANGED pushes
    <2>1. UNCHANGED <<pushes, processed>>
        BY <1>1
        DEF Requests, CreateTask, ManualSync, FetchStatus, FetchResult, GiveUp, StopsTask,
            remoteVars
    <2>2. \/ UNCHANGED <<pc, job, msg>>
          \/ \E label \in {"idle", "saveSubmitted", "fetchStatus", "saveStatus", "saveResult"} :
                \E t, m : GoTo(p, label, t, m)
        BY <1>1 DEF Requests, CreateTask, ManualSync, FetchStatus, FetchResult, GiveUp, Return,
                    StopsTask
    <2>3. QED
        BY <2>1, <2>2, EventsGoTo DEF EventsKnown, ReliesOnEvent
<1>2. ASSUME NEW p \in Procs, TakesUpPush(p) PROVE EventsKnown' /\ UNCHANGED pushes
    <2>1. PICK m \in pushes, label \in {"saveDuplicate", "saveEvent", "saveCallback"} :
            /\ GoTo(p, label, m.task, m) /\ UNCHANGED <<pushes, processed>>
            /\ label = "saveDuplicate" => m \in processed
            /\ label = "saveCallback" => language[p] \in PhpKinds
        BY <1>2 DEF TakesUpPush, TakeUp, remoteVars
    <2>2. QED
        BY <2>1, EventsGoTo DEF ReliesOnEvent
<1>3. ASSUME NEW p \in Procs, RecordsEvent(p)
      PROVE  EventsKnown' /\ (language[p] # "go" => pushes \ pushes' \subseteq processed')
    <2>1. CASE GoTo(p, "saveCallback", job[p], msg[p]) /\ UNCHANGED pushes
        <3>1. pc'[p] = "saveCallback"
            BY <2>1 DEF GoTo, CoreInv, TypeOK
        <3>2. /\ processed \subseteq processed'
              /\ language[p] # "go" => msg[p] \in processed'
            BY <1>3, <2>1, <3>1 DEF RecordsEvent, Return, GoTo, CoreInv, TypeOK
        <3>3. EventsKnown'
            BY <2>1, <3>2, EventsGoTo DEF ReliesOnEvent
        <3>4. QED
            BY <2>1, <3>3
    <2>2. CASE /\ Acknowledge(msg[p]) /\ Return(p) /\ UNCHANGED processed
               /\ pc[p] = "saveDuplicate" \/ language[p] = "go"
        <3>1. EventsKnown' /\ UNCHANGED processed
            BY <2>2, EventsGoTo DEF Return, ReliesOnEvent
        <3>2. language[p] # "go" => msg[p] \in processed
            BY <2>2 DEF EventsKnown, ReliesOnEvent
        <3>3. pushes \ pushes' \subseteq {msg[p]}
            BY <2>2 DEF Acknowledge
        <3>4. QED
            BY <3>1, <3>2, <3>3
    <2>3. QED
        BY <1>3, <2>1, <2>2 DEF RecordsEvent
<1>4. ASSUME NEW p \in Procs, Saves(p)
      PROVE  /\ EventsKnown'
             /\ (\A q \in Handlers : language[q] # "go") => pushes \ pushes' \subseteq processed'
    <2>1. processed \subseteq processed'
        BY <1>4 DEF Saves
    <2>2. \E label \in {"idle", "fetchResult"} : \E t, m : GoTo(p, label, t, m)
        BY <1>4 DEF Saves, Return
    <2>3. EventsKnown'
        BY <2>1, <2>2, EventsGoTo DEF ReliesOnEvent
    <2>4. CASE pc[p] # "saveCallback"
        BY <1>4, <2>3, <2>4 DEF Saves
    <2>5. CASE pc[p] = "saveCallback" /\ \A q \in Handlers : language[q] # "go"
        <3>1. p \in Handlers /\ pushes \ pushes' \subseteq {msg[p]}
            BY <1>4, <2>5 DEF Saves, Acknowledge
        <3>2. msg[p] \in processed'
            BY <1>4, <2>1, <2>5, <3>1 DEF Saves, EventsKnown, ReliesOnEvent
        <3>3. QED
            BY <2>3, <3>1, <3>2
    <2>6. QED
        BY <2>3, <2>4, <2>5
<1>5. ASSUME NEW p \in Procs, ProcessDies(p) PROVE EventsKnown' /\ UNCHANGED pushes
    BY <1>5 DEF ProcessDies, remoteVars, EventsKnown, ReliesOnEvent
<1>6. ASSUME UNCHANGED processed, NextTask PROVE EventsKnown' /\ UNCHANGED pushes
    <2>1. Loop \in Procs
        BY DEF Procs
    <2>2. QED
        BY <1>6, <2>1, EventsGoTo DEF NextTask, remoteVars, ReliesOnEvent
<1>7. ASSUME UNCHANGED <<pc, msg, processed>>, pushes \subseteq pushes'
      PROVE  EventsKnown' /\ pushes \ pushes' \subseteq processed'
    BY <1>7 DEF EventsKnown, ReliesOnEvent
<1>8. ASSUME UNCHANGED processed,
             \/ StartPass
             \/ \E t \in Tasks : StopTask(t)
             \/ \E t \in Tasks : Service(t) /\ UNCHANGED <<storeVars, procVars>>
             \/ UNCHANGED vars
      PROVE  UNCHANGED <<pc, msg, processed>> /\ pushes \subseteq pushes'
    BY <1>8
    DEF StartPass, StopTask, procVars, vars, remoteVars, Service, RemoteWork, RemoteStart,
        RemoteFinish, RemotePush
<1>9. ASSUME NEW p \in Procs, ProcessStep(p)
      PROVE  /\ EventsKnown'
             /\ (\A q \in Handlers : language[q] # "go") => pushes \ pushes' \subseteq processed'
    BY <1>1, <1>2, <1>3, <1>4, <1>9 DEF ProcessStep, RecordsEvent
<1>10. QED
    BY <1>5, <1>6, <1>7, <1>8, <1>9 DEF StepKind

(* No push is acknowledged without an event row that remembers it, unless  *)
(* Go handles requests: it answers a failed insert as a duplicate.         *)
THEOREM BackendsRecordAckedPushes == Spec => AckedPushesRecorded
<1>1. Init => EventsKnown
    BY DEF Init, ProcsInit, EventsKnown, ReliesOnEvent
<1>2. BackendInv /\ EventsKnown /\ [Next]_allVars
        => /\ EventsKnown'
           /\ [(\A p \in Handlers : language[p] # "go")
                  => pushes \ pushes' \subseteq processed']_allVars
    BY BackendInvParts, StepKinds, EventsStep
<1>3. QED
    BY <1>1, <1>2, BackendInvInvariant, PTL DEF Spec, AckedPushesRecorded
==============================================================================
