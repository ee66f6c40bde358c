---------------------------- MODULE MCGoBackend -----------------------------
(* PollingOnlySpec is FairSpec where no task has a callback URL: no push,  *)
(* hence no callback handler.  The starvation run also leaves out manual   *)
(* syncs, stops, crashes and failing calls, which it does not need (a      *)
(* behaviour of PollingSpec is a behaviour of FairSpec).                   *)
EXTENDS GoBackend

PollingNext ==
    \/ \E p \in Handlers, t \in Tasks : CreateTask(p, t)
    \/ \E p \in Handlers : StoreSubmitted(p)
    \/ Sync(Loop)
    \/ StartPass
    \/ NextTask
    \/ \E t \in Tasks : RemoteWork(t) /\ UNCHANGED <<storeVars, procVars>>

PollingSpec == Init /\ [][PollingNext]_vars /\ Fairness

PollingOnlyNext ==
    \/ \E p \in Handlers, t \in Tasks : CreateTask(p, t) \/ ManualSync(p, t)
    \/ \E p \in Handlers : StoreSubmitted(p)
    \/ \E p \in Procs : Sync(p) \/ CallFails(p)
    \/ StartPass
    \/ NextTask
    \/ Crash
    \/ \E t \in Tasks : StopTask(t)
    \/ \E t \in Tasks : Service(t) /\ UNCHANGED <<storeVars, procVars>>

PollingOnlySpec == Init /\ [][PollingOnlyNext]_vars /\ Fairness
=============================================================================
