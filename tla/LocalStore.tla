----------------------------- MODULE LocalStore -----------------------------
(***************************************************************************)
(* The local MySQL tables all backends share (database/schema.sql is the   *)
(* same file in every language) and the scan for unfinished tasks, whose   *)
(* SQL is the same in every language too.  How rows are written differs    *)
(* from backend to backend and is left to the module of each.              *)
(***************************************************************************)
EXTENDS MonitorApi, Sequences

CONSTANT BatchLimit     \* MOLIZHISHU_SYNC_LIMIT: tasks per background pass
ASSUME BatchAssumption == BatchLimit \in Nat \ {0}

VARIABLES
    geoTasks,       \* geo_tasks, by task_id
    geoSubtasks,    \* geo_subtasks, by task_id and subtask_id
    clock           \* what created_local_at is stamped with; rows never tie

storeVars == <<geoTasks, geoSubtasks, clock>>

(* Columns only a submission fills in: "prompts" stands for prompts_json,  *)
(* platforms_json, region_code_json and raw_request_json.                  *)
SubmitColumns == {"prompts", "callback_url", "poll_url"}

(* kept: the submit columns that hold what the submission said;            *)
(* done: completed_items; born: created_local_at.                          *)
TaskRow == [status : MasterStatus \cup {Missing}, done : Nat,
            kept : SUBSET SubmitColumns, born : Nat]
SubRow == [status : SubStatus \cup {Missing}, answer : BOOLEAN]

NoTaskRow == [status |-> Missing, done |-> 0, kept |-> {}, born |-> 0]
NoSubRow == [status |-> Missing, answer |-> FALSE]

StoreTypeOK ==
    /\ geoTasks \in [Tasks -> TaskRow]
    /\ geoSubtasks \in [Tasks -> [Subs -> SubRow]]
    /\ clock \in Nat

StoreInit ==
    /\ geoTasks = [t \in Tasks |-> NoTaskRow]
    /\ geoSubtasks = [t \in Tasks |-> [s \in Subs |-> NoSubRow]]
    /\ clock = 0

HasRow(t) == geoTasks[t].status # Missing

(* Mutant of Unfinished: completed subtasks without an answer are not missed. *)
UnfinishedIgnoresAnswers ==
    {t \in Tasks :
        /\ HasRow(t)
        /\ \/ geoTasks[t].status \notin Terminal
           \/ \E s \in Subs : geoSubtasks[t][s].status \notin Terminal}

(* The WHERE clause of the scan: the LEFT JOIN gives a task without        *)
(* subtasks one row of NULLs.                                              *)
Unfinished ==
    {t \in Tasks :
        /\ HasRow(t)
        /\ \/ geoTasks[t].status \notin Terminal
           \/ \A s \in Subs : geoSubtasks[t][s].status = Missing
           \/ \E s \in Subs :
                 /\ geoSubtasks[t][s].status # Missing
                 /\ \/ geoSubtasks[t][s].status \notin Terminal
                    \/ /\ geoTasks[t].status \in {"completed", "partial_completed"}
                       /\ geoSubtasks[t][s].status = "completed"
                       /\ ~geoSubtasks[t][s].answer}

(* ORDER BY MIN(created_local_at) ASC LIMIT n: the rows a scan returns. *)
IsBatch(ids) ==
    LET n == Len(ids)
        chosen == {ids[i] : i \in 1..n}
    IN  /\ chosen \subseteq Unfinished
        /\ n < BatchLimit => chosen = Unfinished
        /\ \A i, j \in 1..n : i < j => geoTasks[ids[i]].born < geoTasks[ids[j]].born
        /\ \A t \in Unfinished \ chosen, i \in 1..n :
              geoTasks[ids[i]].born < geoTasks[t].born

Batches == {ids \in UNION {[1..n -> Tasks] : n \in 0..BatchLimit} : IsBatch(ids)}
-----------------------------------------------------------------------------
(* Mutant of SubRowOf: every subtask gets the master task's status. *)
SubRowOfMaster(m, s) == [status |-> m.status, answer |-> s \in m.answers]

(* A row that mirrors what snapshot m says about subtask s, and the whole  *)
(* set of them: what an INSERT ... ON DUPLICATE KEY UPDATE of every column *)
(* leaves behind.                                                          *)
SubRowOf(m, s) == [status |-> m.sub[s], answer |-> s \in m.answers]
SubRowsOf(m) == [s \in Subs |-> SubRowOf(m, s)]

(* Most backends apply a snapshot in one transaction of upserts that      *)
(* inserts a task row without submit columns when there is none, otherwise *)
(* updates its status and progress columns, and overwrites the subtasks.   *)
WriteSnapshot(m) ==
    LET t == m.task
    IN  /\ geoTasks' = [geoTasks EXCEPT ![t] =
              [status |-> m.status,
               done |-> CompletedItems(m),
               kept |-> geoTasks[t].kept,
               born |-> IF HasRow(t) THEN geoTasks[t].born ELSE clock + 1]]
        /\ geoSubtasks' = [geoSubtasks EXCEPT ![t] = SubRowsOf(m)]
        /\ clock' = IF HasRow(t) THEN clock ELSE clock + 1

CompletedRows(t) == {s \in Subs : geoSubtasks[t][s].status = "completed"}
-----------------------------------------------------------------------------
(* Properties of the store that do not depend on the language.             *)

(* Local rows never run ahead of the service: whatever mix of submissions, *)
(* syncs and pushes wrote them, each shows a status the service had.       *)
RowsObserved ==
    \A t \in Tasks : HasRow(t) =>
        /\ remote[t].status # Missing
        /\ MasterPrecedes(geoTasks[t].status, remote[t].status)
        /\ \A s \in Subs : geoSubtasks[t][s].status # Missing =>
              /\ SubPrecedes(geoSubtasks[t][s].status, remote[t].sub[s])
              /\ geoSubtasks[t][s].answer => geoSubtasks[t][s].status = "completed"

(* A task row is never without one of its subtask rows: the scan sees a    *)
(* missing row only when all of them are missing.                          *)
RowsWhole ==
    \A t \in Tasks, s \in Subs : HasRow(t) => geoSubtasks[t][s].status # Missing

Finished(t) == remote[t].status \in {"completed", "partial_completed"}

(* The rows of a finished task say exactly what its result says. *)
Mirrored(t) ==
    /\ geoTasks[t].status = remote[t].status
    /\ geoSubtasks[t] = SubRowsOf(ResultView(remote[t], t))

(* The scan is complete: a finished task whose rows are stale, partial or  *)
(* without their answers is found by the next background pass.             *)
GapRescanned ==
    \A t \in Tasks : HasRow(t) /\ Finished(t) /\ ~Mirrored(t) => t \in Unfinished
=============================================================================
