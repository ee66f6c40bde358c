----------------------------- MODULE MonitorApi -----------------------------
(***************************************************************************)
(* The remote monitoring service as the backends see it: the status and   *)
(* result endpoints, task submission, stopping, and callback pushes.  The  *)
(* service is not part of the repository; its behaviour is taken from the  *)
(* calls the backends make and from docs/api.  Submission, stopping and    *)
(* reading happen inside backend actions; this module owns the state they  *)
(* touch and the steps the service takes by itself.                        *)
(***************************************************************************)
EXTENDS Naturals, FiniteSets

CONSTANTS
    Tasks,          \* master task identifiers the service can hand out
    Subs,           \* the subtasks of every task (one per prompt x platform)
    CallbackTasks,  \* tasks with an effective callback URL (own or account-wide)
    FinalFailures   \* how a subtask may finally fail: "failed" and/or "error"

ASSUME SubsAssumption == IsFiniteSet(Subs)
ASSUME CallbackAssumption == CallbackTasks \subseteq Tasks
ASSUME FailuresAssumption == FinalFailures \subseteq {"failed", "error"}

VARIABLES
    remote,         \* remote[t]: the service's own record of task t
    pushes          \* callback payloads the service will (re)deliver

remoteVars == <<remote, pushes>>
-----------------------------------------------------------------------------
(* Statuses of docs/implementation-contract.md.  "processing" also stands  *)
(* for the subtask status "assigned": no backend tells the two apart.      *)

Terminal == {"completed", "partial_completed", "failed", "stopped"}
MasterStatus == {"pending", "processing"} \cup Terminal
SubStatus == {"pending", "processing", "completed", "failed", "error", "stopped"}
Missing == "none"       \* no such record (remote or local)

RemoteTask == [status : MasterStatus \cup {Missing}, sub : [Subs -> SubStatus]]

(* What an endpoint or a push returns about one task.  `answers' are the   *)
(* subtasks whose answerContent the payload carries.                       *)
Snapshot == [task : Tasks, status : MasterStatus, sub : [Subs -> SubStatus],
             answers : SUBSET Subs]

(* GET /task/status/{id}: subtask summaries, never an answerContent. *)
StatusView(r, t) ==
    [task |-> t, status |-> r.status, sub |-> r.sub, answers |-> {}]

(* GET /task/result/{id}, and the body of a callback push. *)
ResultView(r, t) ==
    [task |-> t, status |-> r.status, sub |-> r.sub,
     answers |-> {s \in Subs : r.sub[s] = "completed"}]

CompletedItems(m) == Cardinality({s \in Subs : m.sub[s] = "completed"})

NewRemoteTask == [status |-> "pending", sub |-> [s \in Subs |-> "pending"]]

Settled(sub) == \A s \in Subs : sub[s] \notin {"pending", "processing"}

(* The master status the service derives from its subtasks. *)
Derived(sub) ==
    IF ~Settled(sub) THEN "processing"
    ELSE IF \A s \in Subs : sub[s] = "completed" THEN "completed"
    ELSE IF \E s \in Subs : sub[s] = "completed" THEN "partial_completed"
    ELSE "failed"

(* Stopping only takes subtasks that no node has picked up (stop-task.md). *)
Stopped(r) ==
    [status |-> "stopped",
     sub |-> [s \in Subs |-> IF r.sub[s] = "pending" THEN "stopped" ELSE r.sub[s]]]

Stoppable(r) == r.status \in {"pending", "processing"}
-----------------------------------------------------------------------------
RemoteTypeOK ==
    /\ remote \in [Tasks -> RemoteTask]
    /\ pushes \subseteq Snapshot

RemoteInit ==
    /\ remote = [t \in Tasks |-> [NewRemoteTask EXCEPT !.status = Missing]]
    /\ pushes = {}

RemoteStart(t, s) ==
    /\ remote[t].status \in {"pending", "processing"}
    /\ remote[t].sub[s] = "pending"
    /\ remote' = [remote EXCEPT ![t] = [status |-> "processing",
                                        sub |-> [@.sub EXCEPT ![s] = "processing"]]]
    /\ UNCHANGED pushes

RemoteFinish(t, s) ==
    /\ remote[t].status # Missing
    /\ remote[t].sub[s] = "processing"
    /\ \E outcome \in {"completed"} \cup FinalFailures :
          LET sub == [remote[t].sub EXCEPT ![s] = outcome]
          IN  remote' = [remote EXCEPT ![t] =
                 [status |-> IF @.status = "stopped" THEN "stopped" ELSE Derived(sub),
                  sub |-> sub]]
    /\ UNCHANGED pushes

(* Once a task is terminal, the service pushes its result; a push is sent   *)
(* again after a non-2xx answer or a timeout (callback-config.md), so it   *)
(* stays in `pushes' until its delivery is acknowledged, and the same      *)
(* payload may be pushed anew.                                             *)
RemotePush(t) ==
    /\ t \in CallbackTasks
    /\ remote[t].status \in Terminal
    /\ pushes' = pushes \cup {ResultView(remote[t], t)}
    /\ UNCHANGED remote

RemoteWork(t) == \E s \in Subs : RemoteStart(t, s) \/ RemoteFinish(t, s)
-----------------------------------------------------------------------------
(* The service only moves forward.  Precedes compares two statuses of the  *)
(* same subtask (or master task): the first may be an earlier observation. *)

SubPrecedes(a, b) ==
    \/ a = b
    \/ a = "pending"
    \/ a = "processing" /\ b \in {"completed", "failed", "error"}

MasterPrecedes(a, b) ==
    \/ a = b
    \/ a = "pending"
    \/ a = "processing" /\ b \in Terminal

(* A task is not over while one of its subtasks runs, unless it was stopped. *)
RemoteConsistent ==
    \A t \in Tasks :
        remote[t].status \in {"completed", "partial_completed", "failed"}
            => Settled(remote[t].sub)

(* A snapshot shows a state the service has been in or has moved past, and *)
(* carries answers of completed subtasks only.                             *)
Observed(m) ==
    /\ remote[m.task].status # Missing
    /\ MasterPrecedes(m.status, remote[m.task].status)
    /\ \A s \in Subs : SubPrecedes(m.sub[s], remote[m.task].sub[s])
    /\ \A s \in m.answers : m.sub[s] = "completed"
=============================================================================
