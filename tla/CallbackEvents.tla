--------------------------- MODULE CallbackEvents ---------------------------
(***************************************************************************)
(* geo_callback_events, for the backends that look a push up in it by      *)
(* task_id and payload_hash before they apply it.  Equal payloads have     *)
(* equal hashes, and a `duplicate' row changes no later decision.          *)
(***************************************************************************)
EXTENDS BackendProcesses

VARIABLE processed      \* payloads with an event row marked "processed"

eventVars == <<vars, processed>>

EventsTypeOK == processed \subseteq Snapshot

(* A push the service considers delivered has left an event row: whatever  *)
(* was lost later, the payload itself is still on record.                  *)
AckedAreRecorded == [][pushes \ pushes' \subseteq processed']_eventVars

(* An event row marked "processed" means that the answers of its payload   *)
(* are in the database, now and ever after.                                *)
ProcessedAnswersStored ==
    \A m \in processed, s \in Subs : s \in m.answers => geoSubtasks[m.task][s].answer

(* No acknowledged push has its answers missing from the database.         *)
AckedAnswersStored ==
    [][\A m \in pushes \ pushes', s \in Subs :
          s \in m.answers => geoSubtasks'[m.task][s].answer]_eventVars
=============================================================================
