------------------------------ MODULE Console -------------------------------
(***************************************************************************)
(* The routes of the React frontend around its tasks, one mounted at a     *)
(* time: the list, a task's page, the settings, and the form for a new     *)
(* task, whose answer leads to the page of the new task wherever the       *)
(* reader is by then.  A page that is left loses its state; what happens   *)
(* outside meanwhile is what the next visit finds.                         *)
(***************************************************************************)
EXTENDS TaskDetailPage, TaskListPage, NewTaskPage, SettingsPage

VARIABLE route      \* "list", "new", "detail", "settings"

vars == <<detailVars, tasks, listVars, formVars, creating, settingsVars, route>>

Init ==
    /\ Unmounted /\ ListAbsent /\ FormBlank /\ SettingsAbsent
    /\ route = "new" /\ creating = FALSE
-----------------------------------------------------------------------------
(* Links of the layout and of the list's rows. *)

ToList ==
    /\ route # "list" /\ route' = "list"
    /\ ListMount /\ Unmount /\ FormCleared /\ SettingsUnmount
    /\ UNCHANGED creating

ToNew ==
    /\ route # "new" /\ route' = "new"
    /\ ListUnmount /\ Unmount /\ FormCleared /\ SettingsUnmount
    /\ UNCHANGED creating

ToSettings ==
    /\ route # "settings" /\ route' = "settings"
    /\ ListUnmount /\ Unmount /\ FormCleared /\ UNCHANGED creating
    /\ SettingsMount

OpenTask ==
    /\ route = "list" /\ list # Nothing /\ list.rows
    /\ route' = "detail"
    /\ ListUnmount /\ FormCleared /\ SettingsUnmount /\ Mount
    /\ UNCHANGED creating

(* onSuccess: navigate, also after the form was left. *)
NavigateToCreated ==
    /\ creating /\ creating' = FALSE
    /\ route' = "detail"
    /\ ListUnmount /\ FormCleared /\ SettingsUnmount
    /\ IF route = "detail" THEN SwitchTask ELSE Mount
-----------------------------------------------------------------------------
Next ==
    \/ ToList \/ ToNew \/ ToSettings \/ OpenTask \/ NavigateToCreated
    \/ CreateFails /\ UNCHANGED <<detailVars, tasks, listVars, settingsVars, route>>
    \/ /\ route = "list" /\ (ListNext \/ TasksChange)
       /\ UNCHANGED <<detailVars, formVars, creating, settingsVars, route>>
    \/ /\ route = "detail" /\ DetailNext
       /\ UNCHANGED <<tasks, listVars, formVars, creating, settingsVars, route>>
    \/ /\ route = "new" /\ FormNext
       /\ UNCHANGED <<detailVars, tasks, listVars, settingsVars, route>>
    \/ /\ route = "settings" /\ SettingsNext
       /\ UNCHANGED <<detailVars, tasks, listVars, formVars, creating, route>>

Spec == Init /\ [][Next]_vars
-----------------------------------------------------------------------------
ConsoleTypeOK ==
    /\ DetailTypeOK /\ ListTypeOK /\ FormTypeOK /\ SettingsTypeOK
    /\ route \in {"list", "new", "detail", "settings"}
=============================================================================
