--------------------------- MODULE MCRustBackend ----------------------------
(* Handlers are interchangeable, and so are subtasks: a save writes their  *)
(* rows in any order.  The last run leaves out manual syncs, stops and     *)
(* crashes (a behaviour of PushingSpec is a behaviour of FairSpec).        *)
EXTENDS RustBackend, TLC

Symmetry == Permutations(Handlers) \cup Permutations(Subs)

PushingNext ==
    \/ \E p \in Handlers :
          \/ \E t \in Tasks : CreateTask(p, t) /\ UNCHANGED <<processed, left>>
          \/ ReceiveCallback(p)
          \/ StoreDuplicate(p)
          \/ StoreEvent(p)
    \/ \E p \in Procs :
          \/ (FetchStatus(p) \/ FetchResult(p)) /\ UNCHANGED <<processed, left>>
          \/ Save(p)
          \/ Fail(p)
    \/ SyncUnfinished
    \/ \E t \in Tasks : Service(t) /\ UNCHANGED <<storeVars, procVars, processed, left>>

PushingSpec == Init /\ [][PushingNext]_rustVars /\ Fairness
=============================================================================
