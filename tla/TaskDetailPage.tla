--------------------------- MODULE TaskDetailPage ---------------------------
(***************************************************************************)
(* The page of one task in the React frontend: a query that is refetched   *)
(* every 15 seconds and after a manual sync, and filters, paging and       *)
(* expansion computed in the browser over whatever rows came last.  State  *)
(* setters batch into one render; the effects of a render run before the   *)
(* next event and may cause another.  The order of the rows is left out.   *)
(***************************************************************************)
EXTENDS Naturals, FiniteSetsExt

CONSTANTS
    Subs,           \* the subtasks of the task
    PromptOf,
    PlatformOf,
    Statuses,       \* subtask statuses; the filter offers all but "stopped", "error"
    Listings,       \* bound: the sets of subtasks that may have rows at one time
    PageSize,       \* SUBTASK_PAGE_SIZE
    All,
    None

ASSUME SubsAssumption == Subs # {} /\ IsFiniteSet(Subs) /\ PageSize \in Nat \ {0}
ASSUME ListingsAssumption == Listings \subseteq SUBSET Subs
ASSUME OptionsAssumption == All \notin Statuses \cup {PromptOf[s] : s \in Subs}

VARIABLES
    fetch,          \* the query: "none" or "asked", or answered "before" or "after" the
                    \* rows were saved by the sync the reader asked for last
    data,           \* the statuses of the subtasks the query has returned, None before the
                    \* first answer
    sync,           \* the mutation behind the button; "elsewhere" and "settling" are
                    \* "sent" and "refetching" of a task shown before, "detached" waits
                    \* for a refetch of such a task
    expandedInitial,    \* expandedInitialTaskId is the task shown
    expanded,
    subtaskStatus,
    platformFilters,
    subtaskFilter,
    subtaskPage,
    effects         \* of the last render: "none" to run, "run", or "reset" among them

queryVars == <<fetch, data, sync>>
filterVars == <<subtaskStatus, platformFilters, subtaskFilter>>
viewVars == <<expandedInitial, expanded, filterVars, subtaskPage, effects>>
detailVars == <<queryVars, viewVars>>

(* A subtask has a row once a save has brought it. *)
Rows == UNION {[listed -> Statuses] : listed \in Listings}
ASSUME NoneAssumption == None \notin Rows

Pills == {All} \cup (Statuses \ {"stopped", "error"})
Prompts == {PromptOf[s] : s \in Subs}
Platforms == {PlatformOf[s] : s \in Subs}
-----------------------------------------------------------------------------
(* What a render computes. *)

Subtasks == IF data = None THEN {} ELSE DOMAIN data

StatusMatched(s) == subtaskStatus \in {All, data[s]}
PlatformMatched(s) == platformFilters = {} \/ PlatformOf[s] \in platformFilters

PromptOptions == {PromptOf[s] : s \in {q \in Subtasks : StatusMatched(q) /\ PlatformMatched(q)}}

Filtered ==
    {s \in Subtasks :
        StatusMatched(s) /\ PlatformMatched(s) /\ subtaskFilter \in {All, PromptOf[s]}}

(* Mutant of TotalPages: an empty list has no page. *)
TotalPagesOrNone == (Cardinality(Filtered) + PageSize - 1) \div PageSize

TotalPages == Max({1, (Cardinality(Filtered) + PageSize - 1) \div PageSize})

(* Mutant of NormalizedPage: the page as it was selected. *)
SelectedPage == subtaskPage

NormalizedPage == Min({subtaskPage, TotalPages})

(* The length of the slice. *)
VisibleCount ==
    LET before == (NormalizedPage - 1) * PageSize
    IN  Min({PageSize, IF Cardinality(Filtered) < before THEN 0 ELSE Cardinality(Filtered) - before})

(* The first completed subtask, or the first. *)
FirstSubtasks ==
    LET done == {s \in Subtasks : data[s] = "completed"}
    IN  IF done # {} THEN done ELSE Subtasks

FilterOffered == subtaskFilter \in {All} \cup PromptOptions
-----------------------------------------------------------------------------
(* The effects of one render, in their order: each sees the values of that *)
(* render, and of two calls of one setter the later wins.  What they set   *)
(* is rendered, and that render has effects again.                         *)

ResetPage == IF effects = "reset" THEN 1 ELSE subtaskPage
ClampedPage == IF subtaskPage > TotalPages THEN TotalPages ELSE ResetPage

(* Mutant of ExpandFirst: at every render. *)
ExpandFirstAlways ==
    IF Subtasks # {}
      THEN expandedInitial' = TRUE /\ \E s \in FirstSubtasks : expanded' = {s}
      ELSE UNCHANGED <<expandedInitial, expanded>>

ExpandFirst ==
    IF ~expandedInitial /\ Subtasks # {}
      THEN expandedInitial' = TRUE /\ \E s \in FirstSubtasks : expanded' = {s}
      ELSE UNCHANGED <<expandedInitial, expanded>>

(* Mutant of Effects: no clamp. *)
EffectsNoClamp ==
    /\ effects # "none"
    /\ subtaskPage' = ResetPage
    /\ subtaskFilter' = IF FilterOffered THEN subtaskFilter ELSE All
    /\ ExpandFirst
    /\ effects' = IF ~FilterOffered THEN "reset"
                  ELSE IF subtaskPage' # subtaskPage \/ expanded' # expanded THEN "run" ELSE "none"
    /\ UNCHANGED <<queryVars, subtaskStatus, platformFilters>>

(* Mutant of Effects: the prompt filter stays. *)
EffectsKeepFilter ==
    /\ effects # "none"
    /\ subtaskPage' = ClampedPage
    /\ ExpandFirst
    /\ effects' = IF subtaskPage' # subtaskPage \/ expanded' # expanded THEN "run" ELSE "none"
    /\ UNCHANGED <<queryVars, filterVars>>

Effects ==
    /\ effects # "none"
    /\ subtaskPage' = ClampedPage
    /\ subtaskFilter' = IF FilterOffered THEN subtaskFilter ELSE All
    /\ ExpandFirst
    /\ effects' = IF ~FilterOffered THEN "reset"
                  ELSE IF subtaskPage' # subtaskPage \/ expanded' # expanded THEN "run" ELSE "none"
    /\ UNCHANGED <<queryVars, subtaskStatus, platformFilters>>
-----------------------------------------------------------------------------
(* The reader. *)

Ready == effects = "none" /\ data # None

Filter(status, platforms, prompt) ==
    /\ Ready
    /\ subtaskStatus' = status /\ platformFilters' = platforms /\ subtaskFilter' = prompt
    /\ effects' = IF UNCHANGED filterVars THEN "none" ELSE "reset"
    /\ UNCHANGED <<queryVars, expandedInitial, expanded, subtaskPage>>

SelectStatus(v) == Filter(v, platformFilters, subtaskFilter)

TogglePlatformFilter(p) ==
    Filter(subtaskStatus,
           IF p \in platformFilters THEN platformFilters \ {p} ELSE platformFilters \cup {p},
           subtaskFilter)

SelectPrompt(v) ==
    /\ v \in {All} \cup PromptOptions
    /\ Filter(subtaskStatus, platformFilters, v)

ToggleExpanded(s) ==
    /\ Ready /\ s \in Filtered
    /\ expanded' = IF s \in expanded THEN expanded \ {s} ELSE expanded \cup {s}
    /\ effects' = "run"
    /\ UNCHANGED <<queryVars, expandedInitial, filterVars, subtaskPage>>

Turn(page) ==
    /\ Ready /\ Filtered # {}
    /\ subtaskPage' = page
    /\ effects' = "run"
    /\ UNCHANGED <<queryVars, expandedInitial, expanded, filterVars>>

FirstPage == NormalizedPage # 1 /\ Turn(1)
PreviousPage == NormalizedPage # 1 /\ Turn(Max({1, subtaskPage - 1}))
NextPage == NormalizedPage < TotalPages /\ Turn(Min({TotalPages, subtaskPage + 1}))
LastPage == NormalizedPage < TotalPages /\ Turn(TotalPages)
-----------------------------------------------------------------------------
(* The query.  Saves by pollers, pushes and other readers come at any      *)
(* moment and may store an older snapshot (BackendProcesses), so an answer *)
(* may show any statuses; but rows are never deleted.                      *)

(* Mutant of Invalidated: a fetch under way will do. *)
InvalidatedGently == IF fetch = "none" THEN "asked" ELSE fetch

(* invalidateQueries: a fetch under way is cancelled and another started,  *)
(* unless it is the first: nothing cancels that.                           *)
Invalidated == IF data = None /\ fetch # "none" THEN fetch ELSE "asked"

(* On mount, on reconnect, on focus, every 15 seconds; or a sync of an     *)
(* earlier visit has ended.                                                *)
Refetch ==
    /\ fetch' = Invalidated
    /\ UNCHANGED <<data, sync, viewVars>>

TaskDetail ==
    /\ fetch = "asked"
    /\ fetch' = IF sync \in {"saved", "refetching"} THEN "after" ELSE "before"
    /\ UNCHANGED <<data, sync, viewVars>>

(* A sync waits for the refetch it has caused. *)
EndRefetch ==
    /\ fetch' = "none"
    /\ sync' = IF sync \in {"refetching", "settling"} THEN "idle" ELSE sync

Deliver ==
    /\ fetch \in {"before", "after"}
    /\ data' \in Rows /\ (data # None => DOMAIN data \subseteq DOMAIN data')
    /\ EndRefetch
    /\ effects' = IF effects = "none" THEN "run" ELSE effects
    /\ UNCHANGED <<expandedInitial, expanded, filterVars, subtaskPage>>

FetchFails ==
    /\ fetch # "none"
    /\ EndRefetch
    /\ UNCHANGED <<data, viewVars>>

ClickSync ==
    /\ Ready /\ sync = "idle"
    /\ sync' = "sent"
    /\ fetch' = IF fetch = "after" THEN "before" ELSE fetch
    /\ UNCHANGED <<data, viewVars>>

(* syncOne in the backend. *)
SyncSaves ==
    /\ sync = "sent"
    /\ sync' = "saved"
    /\ UNCHANGED <<fetch, data, viewVars>>

SyncAnswered ==
    /\ sync = "saved"
    /\ sync' = "refetching"
    /\ fetch' = Invalidated
    /\ UNCHANGED <<data, viewVars>>

SyncFails ==
    /\ sync \in {"sent", "saved"}
    /\ sync' = "idle"
    /\ UNCHANGED <<fetch, data, viewVars>>
-----------------------------------------------------------------------------
(* A page that is absent, left, and entered: what an earlier visit left in *)
(* the cache is shown at once.                                             *)
Unmounted ==
    /\ fetch = "none" /\ data = None /\ sync = "idle"
    /\ expandedInitial = FALSE /\ expanded = {}
    /\ subtaskStatus = All /\ platformFilters = {} /\ subtaskFilter = All
    /\ subtaskPage = 1 /\ effects = "none"

Fresh ==
    /\ sync' = "idle"
    /\ expandedInitial' = FALSE /\ expanded' = {}
    /\ subtaskStatus' = All /\ platformFilters' = {} /\ subtaskFilter' = All
    /\ subtaskPage' = 1

Unmount == Fresh /\ fetch' = "none" /\ data' = None /\ effects' = "none"

Opened == fetch' = "asked" /\ data' \in Rows \cup {None}

Mount == Fresh /\ Opened /\ effects' = "reset"

(* Another task on the same route: the component keeps its state (of the   *)
(* expanded subtasks none is one of the new task), and the mutation of the *)
(* other task, which invalidates the query of the task now shown.          *)
SwitchTask ==
    /\ Opened
    /\ sync' = CASE sync = "idle" -> "idle"
                 [] sync \in {"sent", "saved", "elsewhere"} -> "elsewhere"
                 [] OTHER -> "detached"
    /\ expandedInitial' = FALSE /\ expanded' = {}
    /\ effects' = "reset"
    /\ UNCHANGED <<filterVars, subtaskPage>>

SyncEndsElsewhere ==
    /\ \/ sync = "elsewhere" /\ sync' = "settling" /\ fetch' = Invalidated
       \/ sync \in {"elsewhere", "detached"} /\ sync' = "idle" /\ UNCHANGED fetch
    /\ UNCHANGED <<data, viewVars>>

DetailNext ==
    \/ Effects
    \/ \E v \in Pills : SelectStatus(v)
    \/ \E p \in Platforms : TogglePlatformFilter(p)
    \/ \E v \in {All} \cup Prompts : SelectPrompt(v)
    \/ \E s \in Subs : ToggleExpanded(s)
    \/ FirstPage \/ PreviousPage \/ NextPage \/ LastPage
    \/ Refetch \/ TaskDetail \/ Deliver \/ FetchFails
    \/ ClickSync \/ SyncSaves \/ SyncAnswered \/ SyncFails \/ SyncEndsElsewhere
-----------------------------------------------------------------------------
DetailTypeOK ==
    /\ fetch \in {"none", "asked", "before", "after"}
    /\ data \in Rows \cup {None}
    /\ sync \in {"idle", "sent", "saved", "refetching", "elsewhere", "settling",
                "detached"}
    /\ expandedInitial \in BOOLEAN /\ expanded \subseteq Subs
    /\ subtaskStatus \in Pills /\ platformFilters \subseteq Platforms
    /\ subtaskFilter \in {All} \cup Prompts
    /\ subtaskPage \in Nat \ {0} /\ effects \in {"none", "run", "reset"}

(* Whatever a refetch changed under the selected page, a render that has   *)
(* matching subtasks shows some of them, the one before the effects too.   *)
MatchesVisible == Filtered # {} => VisibleCount > 0

(* The prompt selected in the filter is one the filter offers, whatever    *)
(* the other filters or a refetch have left of the list.                   *)
FilterSatisfiable == Ready => subtaskFilter \in {All} \cup PromptOptions

(* The "previous page" button shows the page before the one on screen,     *)
(* also when the list has become shorter since the page was selected.      *)
PagingMoves == [][PreviousPage => NormalizedPage' = NormalizedPage - 1]_detailVars

(* A refetch never opens again what the reader has closed: once a task's   *)
(* first subtask was expanded, only a click expands another.               *)
CollapseSticks ==
    [][expandedInitial /\ expandedInitial'
          => \A s \in expanded' \ expanded : ToggleExpanded(s)]_detailVars

(* "Syncing" ends with rows read after the sync has saved them, although a *)
(* refetch that was answered before that may be under way.                 *)
SyncedIsShown == [][Deliver /\ sync = "refetching" => fetch = "after"]_detailVars
=============================================================================
