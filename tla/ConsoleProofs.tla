---------------------------- MODULE ConsoleProofs ---------------------------
(***************************************************************************)
(* The properties of the React frontend's pages, for any subtasks, page    *)
(* sizes, accounts and number of tasks.  Each page has an invariant of its *)
(* own and is shown to keep it, the routes of Console to enter and leave   *)
(* it; at the end the theorems put them together.                          *)
(***************************************************************************)
EXTENDS Console, FiniteSetTheorems, SequenceTheorems, TLAPS

-----------------------------------------------------------------------------
(* Pages of a list (Math.ceil, Math.max, Math.min). *)

LEMMA MaxOfTwo ==
    ASSUME NEW a \in Int, NEW b \in Int
    PROVE  Max({a, b}) = IF a >= b THEN a ELSE b
<1> DEFINE Largest(x) == x \in {a, b} /\ \A y \in {a, b} : x >= y
<1>1. \E x : Largest(x)
    <2>1. CASE a >= b
        BY <2>1, Largest(a)
    <2>2. CASE ~(a >= b)
        BY <2>2, Largest(b)
    <2>3. QED
        BY <2>1, <2>2
<1>2. Largest(CHOOSE x : Largest(x))
    BY <1>1
<1>3. Max({a, b}) = CHOOSE x \in {a, b} : \A y \in {a, b} : x >= y
    BY DEF Max
<1>4. QED
    BY <1>1, <1>3

LEMMA MinOfTwo ==
    ASSUME NEW a \in Int, NEW b \in Int
    PROVE  Min({a, b}) = IF a <= b THEN a ELSE b
<1>1. \E x \in {a, b} : \A y \in {a, b} : x <= y
    OBVIOUS
<1>2. QED
    BY <1>1 DEF Min

LEMMA Monotone ==
    ASSUME NEW a \in Int, NEW b \in Int, NEW k \in Nat, a <= b
    PROVE  a * k <= b * k
<1>1. (b - a) * k = b * k - a * k
    OBVIOUS
<1>2. QED
    BY <1>1

(* Rounding up: the pages hold every row, and without the last one they    *)
(* would not.                                                              *)
LEMMA PagesCover ==
    ASSUME NEW n \in Nat, NEW size \in Nat \ {0}
    PROVE  /\ (n + size - 1) \div size \in Nat
           /\ n <= ((n + size - 1) \div size) * size
           /\ n > 0 => /\ (n + size - 1) \div size >= 1
                       /\ ((n + size - 1) \div size - 1) * size < n
           /\ (n + size - 1) \div size <= Max({1, n})
<1> DEFINE q == (n + size - 1) \div size
<1>1. q \in Int /\ q * size <= n + size - 1 /\ n + size - 1 < (q + 1) * size
    OBVIOUS
<1>2. (q + 1) * size = q * size + size /\ (q - 1) * size = q * size - size
    BY <1>1
<1>3. n <= q * size /\ (q - 1) * size < n
    BY <1>1, <1>2
<1>4. q >= 0
    <2>1. q <= -1 => q * size <= (-1) * size
        BY <1>1, Monotone
    <2>2. QED
        BY <1>1, <1>3, <2>1
<1>5. n > 0 => q >= 1
    <2>1. q <= 0 => q * size <= 0 * size
        BY <1>1, Monotone
    <2>2. QED
        BY <1>1, <1>3, <2>1
<1>6. n > 0 => q <= n
    <2>1. 1 * n <= size * n /\ (n + 1) * size = n * size + size /\ n * size = size * n
        BY Monotone
    <2>2. q >= n + 1 => (n + 1) * size <= q * size
        BY <1>1, Monotone
    <2>3. QED
        BY <1>1, <2>1, <2>2
<1>7. n = 0 => q <= 1
    <2>1. q >= 2 => 2 * size <= q * size
        BY <1>1, Monotone
    <2>2. QED
        BY <1>1, <2>1
<1>8. q <= Max({1, n})
    BY <1>1, <1>6, <1>7, MaxOfTwo
<1>9. QED
    BY <1>1, <1>3, <1>4, <1>5, <1>8
-----------------------------------------------------------------------------
(* The page of a task.                                                     *)

(* Once its effects have run, a render shows a page there is and a filter  *)
(* that is offered; a sync is asked for over data, so that its end cancels *)
(* what is under way; and the refetch it waits for reads rows that the     *)
(* sync has saved.                                                         *)
DetailInv ==
    /\ DetailTypeOK
    /\ effects = "none" => FilterOffered /\ subtaskPage <= TotalPages
    /\ sync \in {"sent", "saved"} => data # None
    /\ sync = "refetching" => fetch # "before"

SyncStates == {"idle", "sent", "saved", "refetching", "elsewhere", "settling", "detached"}

LEMMA PageCount ==
    ASSUME NEW S \in SUBSET Subs
    PROVE  /\ IsFiniteSet(S) /\ Cardinality(S) \in Nat
           /\ Max({1, (Cardinality(S) + PageSize - 1) \div PageSize}) \in Nat \ {0}
<1>1. IsFiniteSet(S) /\ Cardinality(S) \in Nat
    BY SubsAssumption, FS_Subset, FS_CardinalityType
<1>2. (Cardinality(S) + PageSize - 1) \div PageSize \in Nat
    BY <1>1, PagesCover, SubsAssumption
<1>3. QED
    BY <1>1, <1>2, MaxOfTwo

LEMMA ListedSubtasks ==
    ASSUME data \in Rows \cup {None}
    PROVE  Subtasks \subseteq Subs /\ Filtered \subseteq Subs
BY ListingsAssumption DEF Filtered, Subtasks, Rows

LEMMA TotalPagesBound ==
    ASSUME data \in Rows \cup {None}
    PROVE  /\ IsFiniteSet(Filtered) /\ Cardinality(Filtered) \in Nat
           /\ TotalPages \in Nat \ {0}
           /\ Filtered # {} => /\ Cardinality(Filtered) > 0
                               /\ (TotalPages - 1) * PageSize < Cardinality(Filtered)
<1>1. Filtered \subseteq Subs
    BY ListedSubtasks
<1>2. IsFiniteSet(Filtered) /\ Cardinality(Filtered) \in Nat
    BY <1>1, SubsAssumption, FS_Subset, FS_CardinalityType
<1>3. Filtered # {} => Cardinality(Filtered) > 0
    BY <1>2, FS_EmptySet
<1>4. PageSize \in Nat \ {0}
    BY SubsAssumption
<1> DEFINE q == (Cardinality(Filtered) + PageSize - 1) \div PageSize
<1>5. /\ q \in Nat
      /\ Cardinality(Filtered) > 0 => q >= 1 /\ (q - 1) * PageSize < Cardinality(Filtered)
    BY <1>2, <1>4, PagesCover
<1>6. TotalPages = IF 1 >= q THEN 1 ELSE q
    BY <1>5, MaxOfTwo DEF TotalPages
<1> HIDE DEF q
<1>7. QED
    BY <1>2, <1>3, <1>5, <1>6

LEMMA NormalizedIsSelected ==
    ASSUME subtaskPage \in Nat \ {0}, data \in Rows \cup {None}
    PROVE  NormalizedPage = IF subtaskPage <= TotalPages THEN subtaskPage ELSE TotalPages
BY TotalPagesBound, MinOfTwo DEF NormalizedPage

(* What a render computes is the same as long as its inputs are.           *)
LEMMA SameRender ==
    ASSUME UNCHANGED <<data, subtaskStatus, platformFilters>>
    PROVE  /\ PromptOptions' = PromptOptions
           /\ UNCHANGED subtaskFilter =>
                  /\ Filtered' = Filtered /\ TotalPages' = TotalPages
                  /\ FilterOffered' = FilterOffered
BY DEF PromptOptions, Filtered, TotalPages, FilterOffered, Subtasks, StatusMatched,
       PlatformMatched

(* Whatever the rows are, the slice of a page that is selected and clamped *)
(* is not empty (DetailPage's slice starts before the last row).           *)
LEMMA SliceNotEmpty ==
    ASSUME DetailTypeOK, Filtered # {} PROVE VisibleCount > 0
<1> DEFINE n == Cardinality(Filtered)
           before == (NormalizedPage - 1) * PageSize
<1>1. /\ n \in Nat /\ TotalPages \in Nat \ {0} /\ (TotalPages - 1) * PageSize < n
      /\ PageSize \in Nat \ {0} /\ subtaskPage \in Nat \ {0}
    BY TotalPagesBound, SubsAssumption DEF DetailTypeOK
<1>2. NormalizedPage \in Nat \ {0} /\ NormalizedPage <= TotalPages
    BY <1>1, NormalizedIsSelected DEF DetailTypeOK
<1>3. before \in Nat /\ before <= (TotalPages - 1) * PageSize
    BY <1>1, <1>2, Monotone
<1>4. (TotalPages - 1) * PageSize \in Int
    BY <1>1
<1>5. n - before > 0 /\ ~(n < before)
    BY <1>1, <1>3, <1>4
<1>6. VisibleCount = Min({PageSize, n - before})
    BY <1>5 DEF VisibleCount
<1> HIDE DEF n, before
<1>7. QED
    BY <1>1, <1>3, <1>5, <1>6, MinOfTwo

LEMMA ExpandFirstKeeps ==
    ASSUME DetailTypeOK, ExpandFirst
    PROVE  /\ expandedInitial' \in BOOLEAN /\ expanded' \subseteq Subs
           /\ expandedInitial => UNCHANGED <<expandedInitial, expanded>>
<1>1. FirstSubtasks \subseteq Subs
    BY ListedSubtasks DEF FirstSubtasks, DetailTypeOK
<1>2. CASE ~expandedInitial /\ Subtasks # {}
    BY <1>1, <1>2 DEF ExpandFirst
<1>3. CASE ~(~expandedInitial /\ Subtasks # {})
    BY <1>3 DEF ExpandFirst, DetailTypeOK
<1>4. QED
    BY <1>2, <1>3

(* The effects stop only when they have nothing left to set. *)
LEMMA EffectsKeeps ==
    ASSUME DetailInv, Effects PROVE DetailInv'
<1>1. /\ UNCHANGED <<fetch, data, sync, subtaskStatus, platformFilters>>
      /\ subtaskPage' = ClampedPage
      /\ subtaskFilter' = IF FilterOffered THEN subtaskFilter ELSE All
      /\ effects' \in {"none", "run", "reset"}
      /\ effects' = "none" => FilterOffered /\ subtaskPage' = subtaskPage
    BY DEF Effects, queryVars
<1>2. /\ TotalPages \in Nat \ {0} /\ subtaskPage \in Nat \ {0}
      /\ All \in {All} \cup Prompts
    BY TotalPagesBound DEF DetailInv, DetailTypeOK
<1>3. ClampedPage \in Nat \ {0} /\ (ClampedPage = subtaskPage => subtaskPage <= TotalPages)
    BY <1>2 DEF ClampedPage, ResetPage
<1>4. expandedInitial' \in BOOLEAN /\ expanded' \subseteq Subs
    BY ExpandFirstKeeps DEF DetailInv, Effects
<1>5. DetailTypeOK'
    BY <1>1, <1>2, <1>3, <1>4 DEF DetailInv, DetailTypeOK
<1>6. effects' = "none" => FilterOffered' /\ subtaskPage' <= TotalPages'
    BY <1>1, <1>3, SameRender
<1>7. QED
    BY <1>1, <1>5, <1>6 DEF DetailInv

LEMMA FilterKeeps ==
    ASSUME DetailInv, NEW chosen \in Pills, NEW platforms \in SUBSET Platforms,
           NEW prompt \in {All} \cup Prompts, Filter(chosen, platforms, prompt)
    PROVE  DetailInv'
<1>1. /\ UNCHANGED <<fetch, data, sync, expandedInitial, expanded, subtaskPage>>
      /\ subtaskStatus' = chosen /\ platformFilters' = platforms /\ subtaskFilter' = prompt
      /\ effects = "none"
    BY DEF Filter, Ready, queryVars
<1>2. /\ effects' \in {"none", "reset"}
      /\ effects' = "none" => UNCHANGED <<subtaskStatus, platformFilters, subtaskFilter>>
    BY DEF Filter, filterVars
<1>3. DetailTypeOK'
    BY <1>1, <1>2 DEF DetailInv, DetailTypeOK
<1>4. effects' = "none" => FilterOffered' /\ subtaskPage' <= TotalPages'
    BY <1>1, <1>2, SameRender DEF DetailInv
<1>5. QED
    BY <1>1, <1>3, <1>4 DEF DetailInv

LEMMA FiltersKeep ==
    ASSUME DetailInv,
           \/ \E v \in Pills : SelectStatus(v)
           \/ \E p \in Platforms : TogglePlatformFilter(p)
           \/ \E v \in {All} \cup Prompts : SelectPrompt(v)
    PROVE  DetailInv'
<1>1. /\ subtaskStatus \in Pills /\ platformFilters \in SUBSET Platforms
      /\ subtaskFilter \in {All} \cup Prompts
    BY DEF DetailInv, DetailTypeOK
<1>2. ASSUME NEW p \in Platforms
      PROVE  (IF p \in platformFilters THEN platformFilters \ {p}
              ELSE platformFilters \cup {p}) \in SUBSET Platforms
    BY <1>1
<1>3. QED
    BY <1>1, <1>2, FilterKeeps DEF SelectStatus, TogglePlatformFilter, SelectPrompt

LEMMA TurnKeeps ==
    ASSUME DetailInv, FirstPage \/ PreviousPage \/ NextPage \/ LastPage PROVE DetailInv'
<1>1. TotalPages \in Nat \ {0} /\ subtaskPage \in Nat \ {0}
    BY TotalPagesBound DEF DetailInv, DetailTypeOK
<1>2. /\ Max({1, subtaskPage - 1}) \in Nat \ {0}
      /\ Min({TotalPages, subtaskPage + 1}) \in Nat \ {0}
    BY <1>1, MaxOfTwo, MinOfTwo
<1>3. PICK target \in Nat \ {0} : Turn(target)
    BY <1>1, <1>2 DEF FirstPage, PreviousPage, NextPage, LastPage
<1>4. /\ subtaskPage' = target /\ effects' = "run"
      /\ UNCHANGED <<fetch, data, sync, expandedInitial, expanded, subtaskStatus,
                     platformFilters, subtaskFilter>>
    BY <1>3 DEF Turn, queryVars, filterVars
<1>5. QED
    BY <1>4 DEF DetailInv, DetailTypeOK

LEMMA ToggleExpandedKeeps ==
    ASSUME DetailInv, NEW s \in Subs, ToggleExpanded(s) PROVE DetailInv'
<1>1. /\ expanded' \subseteq Subs /\ effects' = "run"
      /\ UNCHANGED <<fetch, data, sync, expandedInitial, subtaskPage, subtaskStatus,
                     platformFilters, subtaskFilter>>
    BY DEF ToggleExpanded, queryVars, filterVars, DetailInv, DetailTypeOK
<1>2. QED
    BY <1>1 DEF DetailInv, DetailTypeOK

(* The query and the mutation change what a render computes only when an   *)
(* answer comes, and that has effects.                                     *)
LEMMA QueryKeeps ==
    ASSUME DetailInv,
           \/ Refetch \/ TaskDetail \/ FetchFails \/ ClickSync \/ SyncSaves \/ SyncAnswered
           \/ SyncFails \/ SyncEndsElsewhere
    PROVE  DetailInv'
<1>1. UNCHANGED <<data, expandedInitial, expanded, subtaskStatus, platformFilters,
                  subtaskFilter, subtaskPage, effects>>
    BY DEF Refetch, TaskDetail, FetchFails, ClickSync, SyncSaves, SyncAnswered, SyncFails,
           SyncEndsElsewhere, viewVars, filterVars
<1>2. /\ fetch' \in {"none", "asked", "before", "after"}
      /\ sync' \in SyncStates
      /\ sync' \in {"sent", "saved"} => data # None
      /\ sync' = "refetching" => fetch' # "before"
    BY DEF Refetch, TaskDetail, FetchFails, EndRefetch, ClickSync, Ready, SyncSaves,
           SyncAnswered, SyncFails, SyncEndsElsewhere, Invalidated, DetailInv, DetailTypeOK,
           SyncStates
<1>3. effects' = "none" => FilterOffered' /\ subtaskPage' <= TotalPages'
    BY <1>1, SameRender DEF DetailInv
<1>4. QED
    BY <1>1, <1>2, <1>3 DEF DetailInv, DetailTypeOK, SyncStates

LEMMA DeliverKeeps ==
    ASSUME DetailInv, Deliver PROVE DetailInv'
<1>1. /\ UNCHANGED <<expandedInitial, expanded, subtaskStatus, platformFilters,
                     subtaskFilter, subtaskPage>>
      /\ data' \in Rows /\ effects' \in {"run", "reset"} /\ fetch' = "none"
      /\ sync' \in SyncStates
    BY DEF Deliver, EndRefetch, filterVars, DetailInv, DetailTypeOK, SyncStates
<1>2. data' # None
    BY <1>1, NoneAssumption
<1>3. QED
    BY <1>1, <1>2 DEF DetailInv, DetailTypeOK, SyncStates

LEMMA DetailNextKeeps ==
    ASSUME DetailInv, DetailNext PROVE DetailInv'
BY EffectsKeeps, FiltersKeep, ToggleExpandedKeeps, TurnKeeps, QueryKeeps, DeliverKeeps
DEF DetailNext

LEMMA DetailUnchanged ==
    ASSUME DetailInv, UNCHANGED detailVars PROVE DetailInv'
<1>1. UNCHANGED <<fetch, data, sync, expandedInitial, expanded, subtaskStatus,
                  platformFilters, subtaskFilter, subtaskPage, effects>>
    BY DEF detailVars, queryVars, viewVars, filterVars
<1>2. QED
    BY <1>1, SameRender DEF DetailInv, DetailTypeOK

(* The page is absent, left, entered, or shows another task from now on.   *)
LEMMA Defaults == All \in Pills /\ All \in {All} \cup Prompts /\ {} \subseteq Platforms
BY DEF Pills

LEMMA UnmountedInv == Unmounted => DetailInv
<1> SUFFICES ASSUME Unmounted PROVE DetailInv
    OBVIOUS
<1>1. /\ data \in Rows \cup {None} /\ fetch = "none" /\ sync = "idle" /\ effects = "none"
      /\ expandedInitial \in BOOLEAN /\ expanded \subseteq Subs /\ subtaskPage = 1
    BY DEF Unmounted
<1>2. /\ subtaskStatus \in Pills /\ platformFilters \subseteq Platforms
      /\ subtaskFilter \in {All} \cup Prompts /\ subtaskFilter = All
    BY Defaults DEF Unmounted
<1>3. DetailTypeOK
    BY <1>1, <1>2 DEF DetailTypeOK
<1>4. QED
    BY <1>1, <1>2, <1>3, TotalPagesBound DEF DetailInv, FilterOffered

LEMMA FreshTypes ==
    ASSUME Fresh
    PROVE  /\ expandedInitial' \in BOOLEAN /\ expanded' \subseteq Subs
           /\ subtaskStatus' \in Pills /\ platformFilters' \subseteq Platforms
           /\ subtaskFilter' \in {All} \cup Prompts /\ subtaskFilter' = All
           /\ subtaskPage' = 1 /\ sync' = "idle"
<1>1. /\ subtaskStatus' \in Pills /\ platformFilters' \subseteq Platforms
      /\ subtaskFilter' \in {All} \cup Prompts
    BY Defaults DEF Fresh
<1>2. QED
    BY <1>1 DEF Fresh

LEMMA LeavingKeeps ==
    ASSUME DetailInv, Unmount \/ Mount \/ SwitchTask PROVE DetailInv'
<1>1. CASE Unmount
    <2>1. DetailTypeOK'
        BY <1>1, FreshTypes DEF Unmount, DetailTypeOK
    <2>2. Filtered' \in SUBSET Subs
        BY <1>1 DEF Unmount, Filtered, Subtasks
    <2>3. TotalPages' \in Nat \ {0}
        BY <2>2, PageCount DEF TotalPages
    <2>4. QED
        BY <1>1, <2>1, <2>3, FreshTypes DEF Unmount, DetailInv, FilterOffered
<1>2. CASE Mount
    BY <1>2, FreshTypes DEF Mount, Opened, DetailInv, DetailTypeOK
<1>3. CASE SwitchTask
    BY <1>3 DEF SwitchTask, Opened, filterVars, DetailInv, DetailTypeOK
<1>4. QED
    BY <1>1, <1>2, <1>3
-----------------------------------------------------------------------------
(* What a step of the page may do. *)

LEMMA PreviousPageMoves ==
    ASSUME DetailInv, PreviousPage PROVE NormalizedPage' = NormalizedPage - 1
<1>1. /\ TotalPages \in Nat \ {0} /\ subtaskPage \in Nat \ {0} /\ subtaskPage <= TotalPages
      /\ NormalizedPage = subtaskPage /\ subtaskPage # 1
    BY TotalPagesBound, NormalizedIsSelected
    DEF DetailInv, DetailTypeOK, PreviousPage, Turn, Ready
<1>2. subtaskPage' = subtaskPage - 1
    BY <1>1, MaxOfTwo DEF PreviousPage, Turn
<1>3. TotalPages' = TotalPages
    BY SameRender DEF PreviousPage, Turn, queryVars, filterVars
<1>4. QED
    BY <1>1, <1>2, <1>3, MinOfTwo DEF NormalizedPage

(* Of the page's own steps only the effects of a render and a click on a   *)
(* subtask expand or close anything.                                       *)
LEMMA OnlyClicksExpand ==
    ASSUME DetailInv, DetailNext, expandedInitial, NEW s \in expanded' \ expanded
    PROVE  ToggleExpanded(s)
<1>1. CASE Effects
    BY <1>1, ExpandFirstKeeps DEF Effects, DetailInv
<1>2. ASSUME NEW q \in Subs, ToggleExpanded(q) PROVE ToggleExpanded(s)
    <2>1. q = s
        BY <1>2 DEF ToggleExpanded
    <2>2. QED
        BY <1>2, <2>1
<1>3. CASE \/ \E v \in Pills : SelectStatus(v)
           \/ \E p \in Platforms : TogglePlatformFilter(p)
           \/ \E v \in {All} \cup Prompts : SelectPrompt(v)
    BY <1>3 DEF SelectStatus, TogglePlatformFilter, SelectPrompt, Filter
<1>4. CASE FirstPage \/ PreviousPage \/ NextPage \/ LastPage
    BY <1>4 DEF FirstPage, PreviousPage, NextPage, LastPage, Turn
<1>5. CASE \/ Refetch \/ TaskDetail \/ Deliver \/ FetchFails
           \/ ClickSync \/ SyncSaves \/ SyncAnswered \/ SyncFails \/ SyncEndsElsewhere
    BY <1>5 DEF Refetch, TaskDetail, Deliver, FetchFails, ClickSync, SyncSaves, SyncAnswered,
                SyncFails, SyncEndsElsewhere, viewVars
<1>6. QED
    BY <1>1, <1>2, <1>3, <1>4, <1>5 DEF DetailNext
-----------------------------------------------------------------------------
(* The settings form.                                                      *)

(* A field that was not edited shows the URL of the query, and of a save   *)
(* under way the calls that remain are in order: one for the URL only if   *)
(* that was typed or is what the query had brought, trimmed, and after the *)
(* key is set for the account of the key.                                  *)
UrlField == ~typed => callbackUrl = CurrentUrl

TypedOrTrimmed(s) == s.typed \/ s.callbackUrl = Trim[s.shown]

Saves == [pending : BOOLEAN, calls : Seq({"api-key", "callback-url"}), apiKey : MaybeKeys,
          callbackUrl : MaybeUrls, typed : BOOLEAN, shown : MaybeUrls]

CallOrder ==
    \/ save.calls = <<>>
    \/ save.calls = <<"api-key">> /\ save.apiKey # Blank
    \/ /\ save.calls = <<"callback-url">>
       /\ TypedOrTrimmed(save)
       /\ save.apiKey # Blank /\ ~disturbed => runtimeToken = save.apiKey
    \/ /\ save.calls = <<"api-key", "callback-url">>
       /\ TypedOrTrimmed(save)
       /\ save.apiKey # Blank

SettingsInv ==
    /\ SettingsTypeOK
    /\ save \in Saves
    /\ typed \in BOOLEAN
    /\ UrlField
    /\ CallOrder

LEMMA CallLists ==
    /\ <<>> \in Seq({"api-key", "callback-url"})
    /\ <<"api-key">> \in Seq({"api-key", "callback-url"})
    /\ <<"callback-url">> \in Seq({"api-key", "callback-url"})
    /\ <<"api-key", "callback-url">> \in Seq({"api-key", "callback-url"})
    /\ Tail(<<"api-key">>) = <<>> /\ Head(<<"api-key">>) = "api-key"
    /\ Tail(<<"callback-url">>) = <<>> /\ Head(<<"callback-url">>) = "callback-url"
    /\ Tail(<<"api-key", "callback-url">>) = <<"callback-url">>
    /\ Head(<<"api-key", "callback-url">>) = "api-key"
<1>1. /\ <<>> \in Seq({"api-key", "callback-url"})
      /\ <<"api-key">> \in Seq({"api-key", "callback-url"})
      /\ <<"callback-url">> \in Seq({"api-key", "callback-url"})
      /\ <<"api-key", "callback-url">> \in Seq({"api-key", "callback-url"})
    OBVIOUS
<1>2. Tail(<<"api-key">>) = <<>> /\ Head(<<"api-key">>) = "api-key"
    OBVIOUS
<1>3. Tail(<<"callback-url">>) = <<>> /\ Head(<<"callback-url">>) = "callback-url"
    OBVIOUS
<1>4. /\ Tail(<<"api-key", "callback-url">>) = <<"callback-url">>
      /\ Head(<<"api-key", "callback-url">>) = "api-key"
    OBVIOUS
<1>5. QED
    BY <1>1, <1>2, <1>3, <1>4

LEMMA JoinedCalls ==
    /\ <<"api-key">> \o <<"callback-url">> = <<"api-key", "callback-url">>
    /\ <<"api-key">> \o <<>> = <<"api-key">> /\ <<>> \o <<"callback-url">> = <<"callback-url">>
    /\ <<>> \o <<>> = <<>>
<1>1. <<"api-key">> \o <<"callback-url">> = <<"api-key", "callback-url">>
    <2> DEFINE S == {"api-key", "callback-url"}
               joined == <<"api-key">> \o <<"callback-url">>
               both == <<"api-key", "callback-url">>
    <2>1. <<"api-key">> \in Seq(S) /\ <<"callback-url">> \in Seq(S) /\ both \in Seq(S)
        BY CallLists
    <2>2. Len(<<"api-key">>) = 1 /\ Len(<<"callback-url">>) = 1 /\ Len(both) = 2
        OBVIOUS
    <2>3. joined \in Seq(S) /\ Len(joined) = 2
        BY <2>1, <2>2, ConcatProperties
    <2>4. joined[1] = "api-key" /\ joined[2] = "callback-url"
        BY <2>1, <2>2, ConcatProperties
    <2>5. both[1] = "api-key" /\ both[2] = "callback-url"
        OBVIOUS
    <2> HIDE DEF joined, both
    <2>6. \A i \in 1..Len(joined) : joined[i] = both[i]
        BY <2>3, <2>4, <2>5
    <2>7. joined = both
        BY <2>1, <2>2, <2>3, <2>6, SeqEqual
    <2>8. QED
        BY <2>7 DEF joined, both
<1>2. <<"api-key">> \o <<>> = <<"api-key">>
    OBVIOUS
<1>3. <<>> \o <<"callback-url">> = <<"callback-url">>
    OBVIOUS
<1>4. <<>> \o <<>> = <<>>
    OBVIOUS
<1>5. QED
    BY <1>1, <1>2, <1>3, <1>4

LEMMA NoSaveFits ==
    /\ NoSave \in Saves
    /\ NoSave.calls = <<>> /\ NoSave.apiKey \in MaybeKeys /\ NoSave.callbackUrl \in MaybeUrls
BY CallLists DEF NoSave, Saves, MaybeKeys, MaybeUrls

(* A step that leaves the save and the key alone. *)
LEMMA FieldsKeep ==
    ASSUME SettingsInv, UNCHANGED <<runtimeToken, save, disturbed>>, SettingsTypeOK', UrlField',
           typed' \in BOOLEAN
    PROVE  SettingsInv'
BY DEF SettingsInv, CallOrder

(* The query and the fields. *)
LEMMA FormKeeps ==
    ASSUME SettingsInv,
           \/ RefetchUrl \/ ReadUrl \/ DeliverUrl \/ UrlQueryFails \/ SettingsArrive
           \/ \E k \in MaybeKeys : TypeKey(k)
           \/ \E u \in MaybeUrls : TypeUrl(u)
           \/ OthersSetUrl
    PROVE  SettingsInv'
<1>1. UNCHANGED <<runtimeToken, save, disturbed>>
    BY DEF RefetchUrl, ReadUrl, DeliverUrl, UrlQueryFails, SettingsArrive, TypeKey, TypeUrl,
           OthersSetUrl, outsideVars
<1>2. CASE RefetchUrl \/ ReadUrl \/ UrlQueryFails
    BY <1>1, <1>2, FieldsKeep
    DEF RefetchUrl, ReadUrl, UrlQueryFails, outsideVars, fieldVars, SettingsInv,
        SettingsTypeOK, UrlField, CurrentUrl, MaybeKeys
<1>3. CASE DeliverUrl
    <2>1. /\ urlQuery \in MaybeUrls /\ current' = urlQuery /\ urlQuery' = "none"
          /\ \/ callbackUrl' = urlQuery /\ typed' = FALSE
             \/ UNCHANGED <<callbackUrl, typed, current>>
          /\ UNCHANGED <<runtimeToken, callbackUrls, canEditApiKey, apiKey, save>>
        BY <1>3 DEF DeliverUrl, outsideVars
    <2>2. SettingsTypeOK' /\ typed' \in BOOLEAN
        BY <2>1 DEF SettingsInv, SettingsTypeOK
    <2>3. UrlField'
        <3>1. CASE callbackUrl' = urlQuery /\ typed' = FALSE
            BY <2>1, <3>1, SettingsAssumption DEF UrlField, CurrentUrl, MaybeUrls
        <3>2. CASE UNCHANGED <<callbackUrl, typed, current>>
            BY <3>2 DEF SettingsInv, UrlField, CurrentUrl
        <3>3. QED
            BY <2>1, <3>1, <3>2
    <2>4. QED
        BY <1>1, <2>2, <2>3, FieldsKeep
<1>4. CASE SettingsArrive \/ \E k \in MaybeKeys : TypeKey(k)
    BY <1>1, <1>4, FieldsKeep
    DEF SettingsArrive, TypeKey, outsideVars, SettingsInv, SettingsTypeOK, UrlField, CurrentUrl
<1>5. CASE \E u \in MaybeUrls : TypeUrl(u)
    BY <1>1, <1>5, FieldsKeep
    DEF TypeUrl, outsideVars, SettingsInv, SettingsTypeOK, UrlField, CurrentUrl
<1>6. CASE OthersSetUrl
    BY <1>1, <1>6, FieldsKeep
    DEF OthersSetUrl, fieldVars, SettingsInv, SettingsTypeOK, UrlField, CurrentUrl
<1>7. QED
    BY <1>2, <1>3, <1>4, <1>5, <1>6

LEMMA TrimFits ==
    ASSUME NEW u \in MaybeUrls PROVE Trim[u] \in MaybeUrls
BY TrimAssumption DEF MaybeUrls

LEMMA SaveAllKeeps ==
    ASSUME SettingsInv, SaveAll PROVE SettingsInv'
<1>1. /\ save'.calls = Calls /\ save'.typed = (typed /\ CallbackChanged)
      /\ save'.shown = IF CallbackChanged /\ ~typed THEN CurrentUrl ELSE Blank
      /\ save'.apiKey = IF KeyCall = <<>> THEN Blank ELSE apiKey
      /\ save'.callbackUrl = IF CallbackChanged THEN Trim[callbackUrl] ELSE Blank
      /\ UNCHANGED <<outsideVars, current, urlQuery, fieldVars, typed>>
    BY DEF SaveAll
<1>2. /\ KeyCall = <<>> \/ (KeyCall = <<"api-key">> /\ apiKey # Blank)
      /\ UrlCall = <<>> \/ UrlCall = <<"callback-url">>
    BY DEF KeyCall, UrlCall
<1>3. UrlCall = <<"callback-url">> => TypedOrTrimmed(save')
    BY <1>1 DEF TypedOrTrimmed, SettingsInv, UrlField, UrlCall
<1>4. CallOrder'
    <2>1. CASE KeyCall = <<>> /\ UrlCall = <<>>
        BY <1>1, <2>1, JoinedCalls DEF CallOrder, Calls
    <2>2. CASE KeyCall = <<>> /\ UrlCall = <<"callback-url">>
        BY <1>1, <1>3, <2>2, JoinedCalls DEF CallOrder, Calls
    <2>3. CASE KeyCall = <<"api-key">> /\ apiKey # Blank /\ UrlCall = <<>>
        BY <1>1, <2>3, JoinedCalls DEF CallOrder, Calls
    <2>4. CASE KeyCall = <<"api-key">> /\ apiKey # Blank /\ UrlCall = <<"callback-url">>
        BY <1>1, <1>3, <2>4, JoinedCalls DEF CallOrder, Calls
    <2>5. QED
        BY <1>2, <2>1, <2>2, <2>3, <2>4
<1>5. save'.calls \in Seq({"api-key", "callback-url"})
    BY <1>4, CallLists DEF CallOrder
<1>6. apiKey \in MaybeKeys /\ callbackUrl \in MaybeUrls /\ CurrentUrl \in MaybeUrls
      /\ Blank \in MaybeKeys /\ Blank \in MaybeUrls
    BY DEF SettingsInv, SettingsTypeOK, CurrentUrl, MaybeKeys, MaybeUrls
<1>7. save'.apiKey \in MaybeKeys /\ save'.callbackUrl \in MaybeUrls
    BY <1>1, <1>6, TrimFits
<1>8. SettingsTypeOK' /\ UrlField'
    BY <1>1, <1>5, <1>7
    DEF SettingsInv, SettingsTypeOK, UrlField, CurrentUrl, outsideVars, fieldVars
<1>9. save' \in Saves
    <2>1. typed \in BOOLEAN /\ Calls \in Seq({"api-key", "callback-url"})
        BY <1>1, <1>5 DEF SettingsInv
    <2>2. /\ (IF KeyCall = <<>> THEN Blank ELSE apiKey) \in MaybeKeys
          /\ (IF CallbackChanged THEN Trim[callbackUrl] ELSE Blank) \in MaybeUrls
          /\ (IF CallbackChanged /\ ~typed THEN CurrentUrl ELSE Blank) \in MaybeUrls
          /\ (typed /\ CallbackChanged) \in BOOLEAN
        BY <1>6, TrimFits
    <2>3. QED
        BY <1>6, <2>1, <2>2 DEF SaveAll, Saves
<1>10. typed' \in BOOLEAN
    BY <1>1 DEF SettingsInv
<1>11. QED
    BY <1>4, <1>8, <1>9, <1>10 DEF SettingsInv

(* A call takes its name off the list and nothing else of the save. *)
LEMMA CalledLeaves ==
    ASSUME SettingsInv, NEW call, Called(call)
    PROVE  /\ save' \in Saves
           /\ save'.calls = Tail(save.calls)
           /\ save'.apiKey = save.apiKey /\ save'.callbackUrl = save.callbackUrl
           /\ save'.typed = save.typed /\ save'.shown = save.shown
           /\ UNCHANGED <<current, urlQuery, fieldVars, typed, disturbed>>
<1>1. save.calls \in Seq({"api-key", "callback-url"}) /\ save.calls # <<>>
    BY DEF SettingsInv, SettingsTypeOK, Called
<1>2. Tail(save.calls) \in Seq({"api-key", "callback-url"})
    BY <1>1
<1>3. QED
    BY <1>2 DEF SettingsInv, Called, Saves

LEMMA UpdateApiKeyKeeps ==
    ASSUME SettingsInv, UpdateApiKey PROVE SettingsInv'
<1>1. /\ Called("api-key") /\ Head(save.calls) = "api-key" /\ save.calls # <<>>
      /\ runtimeToken' = save.apiKey /\ UNCHANGED callbackUrls
    BY DEF UpdateApiKey, Called
<1>2. /\ save' \in Saves
      /\ save'.calls = Tail(save.calls) /\ save'.apiKey = save.apiKey
      /\ save'.typed = save.typed /\ save'.shown = save.shown
      /\ save'.callbackUrl = save.callbackUrl
      /\ UNCHANGED <<current, urlQuery, fieldVars, typed, disturbed>>
    BY <1>1, CalledLeaves
<1>3. \/ save.calls = <<"api-key">> /\ save.apiKey # Blank
      \/ /\ save.calls = <<"api-key", "callback-url">>
         /\ TypedOrTrimmed(save)
         /\ save.apiKey # Blank
    BY <1>1, CallLists DEF SettingsInv, CallOrder
<1>4. CallOrder'
    BY <1>1, <1>2, <1>3, CallLists DEF CallOrder, TypedOrTrimmed
<1>5. runtimeToken' \in MaybeKeys
    BY <1>1 DEF SettingsInv, SettingsTypeOK
<1>6. SettingsTypeOK' /\ UrlField'
    BY <1>1, <1>2, <1>5 DEF SettingsInv, SettingsTypeOK, UrlField, CurrentUrl, fieldVars, Saves
<1>7. QED
    BY <1>2, <1>4, <1>6 DEF SettingsInv

(* When it sends the URL, the list of calls holds nothing else. *)
LEMMA UrlIsLastCall ==
    ASSUME SettingsInv, UpdateCallbackUrl
    PROVE  /\ save.calls = <<"callback-url">> /\ TypedOrTrimmed(save)
           /\ save.apiKey # Blank /\ ~disturbed => runtimeToken = save.apiKey
<1>1. Head(save.calls) = "callback-url" /\ save.calls # <<>>
    BY DEF UpdateCallbackUrl, Called
<1>2. save.calls # <<"api-key">> /\ save.calls # <<"api-key", "callback-url">>
    BY <1>1, CallLists
<1>3. QED
    BY <1>1, <1>2 DEF SettingsInv, CallOrder

LEMMA UpdateCallbackUrlKeeps ==
    ASSUME SettingsInv, UpdateCallbackUrl PROVE SettingsInv'
<1>1. /\ Called("callback-url") /\ runtimeToken # Blank /\ UNCHANGED runtimeToken
      /\ callbackUrls' = [callbackUrls EXCEPT ![runtimeToken] = save.callbackUrl]
    BY DEF UpdateCallbackUrl
<1>2. /\ save' \in Saves
      /\ save'.calls = <<>>
      /\ UNCHANGED <<current, urlQuery, fieldVars, typed, disturbed>>
    BY <1>1, CalledLeaves, UrlIsLastCall, CallLists
<1>3. callbackUrls' \in [ApiKeys -> MaybeUrls]
    BY <1>1 DEF SettingsInv, SettingsTypeOK
<1>4. SettingsTypeOK' /\ UrlField' /\ CallOrder'
    BY <1>1, <1>2, <1>3 
    DEF SettingsInv, SettingsTypeOK, UrlField, CurrentUrl, CallOrder, Saves, fieldVars
<1>5. QED
    BY <1>2, <1>4 DEF SettingsInv

LEMMA SaveEndsKeeps ==
    ASSUME SettingsInv, Saved \/ SaveFails PROVE SettingsInv'
<1>1. /\ save' = NoSave /\ apiKey' \in MaybeKeys /\ urlQuery' \in {"asked", urlQuery}
      /\ UNCHANGED <<runtimeToken, callbackUrls, current, canEditApiKey, callbackUrl, typed>>
    BY DEF Saved, SaveFails, outsideVars, fieldVars, MaybeKeys, SettingsInv, SettingsTypeOK
<1>2. SettingsTypeOK' /\ UrlField' /\ CallOrder'
    BY <1>1, NoSaveFits, CallLists
    DEF SettingsInv, SettingsTypeOK, UrlField, CurrentUrl, CallOrder
<1>3. QED
    BY <1>1, <1>2, NoSaveFits DEF SettingsInv

LEMMA OthersSetKeyKeeps ==
    ASSUME SettingsInv, OthersSetKey PROVE SettingsInv'
<1>1. /\ runtimeToken' \in MaybeKeys /\ (save.apiKey # Blank => disturbed')
      /\ UNCHANGED <<callbackUrls, current, urlQuery, canEditApiKey, apiKey, callbackUrl, save,
                     typed>>
    BY DEF OthersSetKey, fieldVars
<1>2. QED
    BY <1>1 DEF SettingsInv, SettingsTypeOK, UrlField, CurrentUrl, CallOrder

LEMMA SettingsNextKeeps ==
    ASSUME SettingsInv, SettingsNext PROVE SettingsInv'
BY FormKeeps, SaveAllKeeps, UpdateApiKeyKeeps, UpdateCallbackUrlKeeps, SaveEndsKeeps,
   OthersSetKeyKeeps
DEF SettingsNext

LEMMA SettingsUnchanged ==
    ASSUME SettingsInv, UNCHANGED settingsVars PROVE SettingsInv'
<1>1. UNCHANGED <<runtimeToken, callbackUrls, current, urlQuery, canEditApiKey, apiKey,
                  callbackUrl, save, typed, disturbed>>
    BY DEF settingsVars, outsideVars, fieldVars
<1>2. QED
    BY <1>1, FieldsKeep DEF SettingsInv, SettingsTypeOK, UrlField, CurrentUrl

LEMMA BlankFits == Blank \in MaybeKeys /\ Blank \in MaybeUrls
BY DEF MaybeKeys, MaybeUrls

(* The form is absent, left or entered: nothing is being saved. *)
LEMMA SettingsAbsentInv == SettingsAbsent => SettingsInv
BY BlankFits, NoSaveFits, CallLists
DEF SettingsAbsent, SettingsInv, SettingsTypeOK, UrlField, CurrentUrl, CallOrder

LEMMA SettingsLeavingKeeps ==
    ASSUME SettingsUnmount \/ SettingsMount PROVE SettingsInv'
<1>1. /\ runtimeToken' \in MaybeKeys /\ callbackUrls' \in [ApiKeys -> MaybeUrls]
      /\ canEditApiKey' \in BOOLEAN /\ apiKey' \in MaybeKeys /\ save' = NoSave
      /\ typed' = FALSE
    BY BlankFits DEF SettingsUnmount, SettingsMount, SettingsFresh
<1>2. /\ current' \in MaybeUrls \cup {NotYet} /\ urlQuery' \in {"none", "asked"}
      /\ callbackUrl' = (IF current' = NotYet THEN Blank ELSE current')
    BY DEF SettingsUnmount, SettingsMount
<1>3. callbackUrl' \in MaybeUrls
    BY <1>2, BlankFits
<1>4. QED
    BY <1>1, <1>2, <1>3, NoSaveFits, CallLists
    DEF SettingsInv, SettingsTypeOK, UrlField, CurrentUrl, CallOrder
-----------------------------------------------------------------------------
(* The task list.                                                          *)

Answers == [step : {"none", "asked", "counted", "answered"}, total : 0..MaxTasks,
            items : SUBSET Positions, upto : 0..MaxTasks]

Screens == [total : 0..MaxTasks, rows : BOOLEAN, upto : 0..MaxTasks]

(* Among the first n rows of a table, those younger than row i; no other   *)
(* row has the second of row i.                                            *)
NewerIn(table, n, i) == Cardinality({j \in 1..n : table[j].second > table[i].second})

AloneIn(table, i) == \A j \in 1..Len(table) : table[j].second = table[i].second => j = i

(* Of the tasks owed that are alone in their second, the first p pages of  *)
(* a list of n rows hold none that has not been seen; and page p of that   *)
(* list shows all there are on it.  Whatever the order of the others is,   *)
(* the rank of a task that is alone is that of its second.                 *)
Covered(table, tasksOwed, tasksSeen, n, p) ==
    \A i \in tasksOwed :
        AloneIn(table, i) /\ NewerIn(table, n, i) < p * RowsPerPage => i \in tasksSeen

Shows(table, items, n, p) ==
    \A i \in 1..n :
        (/\ AloneIn(table, i)
         /\ (p - 1) * RowsPerPage <= NewerIn(table, n, i)
         /\ NewerIn(table, n, i) < p * RowsPerPage)
            => i \in items

(* The table as the answer on its way, or else the next one, shows it. *)
Frontier == IF query.step = "answered" THEN query.upto ELSE Len(tasks)

(* A reader on page p has been shown what is owed of the pages up to p, or *)
(* before an answer has come, up to p - 1.  Rows are only added, so a task *)
(* that is alone in its second moves to later pages and never back.        *)
ListInv ==
    /\ ListTypeOK
    /\ query \in Answers
    /\ list \in Screens \cup {Nothing}
    /\ owed \subseteq 1..Frontier
    /\ query.upto <= Len(tasks)
    /\ list # Nothing => list.upto <= Frontier /\ owed \subseteq 1..list.upto
    /\ status = AllTasks =>
          /\ query.step = "answered" => Shows(tasks, query.items, query.upto, page)
          /\ list = Nothing => Covered(tasks, owed, seen, Frontier, page - 1)
          /\ list # Nothing => Covered(tasks, owed, seen, list.upto, page)

(* More rows, more of them younger. *)
LEMMA NewerMore ==
    ASSUME NEW table, NEW i, NEW n \in Nat, NEW m \in Nat, n <= m
    PROVE  /\ NewerIn(table, n, i) \in Nat /\ NewerIn(table, m, i) \in Nat
           /\ NewerIn(table, n, i) <= NewerIn(table, m, i)
<1> DEFINE some == {j \in 1..n : table[j].second > table[i].second}
           more == {j \in 1..m : table[j].second > table[i].second}
<1>1. some \subseteq more /\ more \subseteq 1..m
    OBVIOUS
<1>2. IsFiniteSet(1..m)
    BY FS_Interval
<1>3. IsFiniteSet(more)
    BY <1>1, <1>2, FS_Subset
<1>4. IsFiniteSet(some) /\ Cardinality(some) <= Cardinality(more)
    BY <1>1, <1>3, FS_Subset
<1>5. Cardinality(some) \in Nat /\ Cardinality(more) \in Nat
    BY <1>3, <1>4, FS_CardinalityType
<1>6. QED
    BY <1>4, <1>5 DEF NewerIn

(* A row is not younger than itself. *)
LEMMA NewerAreOthers ==
    ASSUME NEW table, NEW n \in Nat, NEW i \in 1..n, table[i].second \in Nat
    PROVE  NewerIn(table, n, i) < n
<1> DEFINE newer == {j \in 1..n : table[j].second > table[i].second}
<1>1. newer \subseteq 1..n /\ i \notin newer
    OBVIOUS
<1>2. IsFiniteSet(1..n) /\ Cardinality(1..n) = n
    <2>1. 1 \in Int /\ n \in Int /\ (IF 1 > n THEN 0 ELSE n - 1 + 1) = n
        OBVIOUS
    <2>2. QED
        BY <2>1, FS_Interval
<1>3. IsFiniteSet(newer) /\ Cardinality(newer) \in Nat
    BY <1>1, <1>2, FS_Subset, FS_CardinalityType
<1>4. Cardinality(newer) <= n
    BY <1>1, <1>2, FS_Subset
<1>5. Cardinality(newer) # n
    BY <1>1, <1>2, FS_Subset
<1>6. QED
    BY <1>3, <1>4, <1>5 DEF NewerIn

LEMMA CoveredMore ==
    ASSUME NEW table, NEW tasksOwed, NEW tasksSeen,
           NEW n \in Nat, NEW m \in Nat, n <= m,
           NEW p \in Int, NEW q \in Int, q <= p,
           Covered(table, tasksOwed, tasksSeen, n, p)
    PROVE  Covered(table, tasksOwed, tasksSeen, m, q)
<1>1. RowsPerPage \in Nat /\ q * RowsPerPage <= p * RowsPerPage
    BY ListAssumption, Monotone
<1>2. p * RowsPerPage \in Int /\ q * RowsPerPage \in Int
    BY <1>1
<1>3. ASSUME NEW i \in tasksOwed, AloneIn(table, i), NewerIn(table, m, i) < q * RowsPerPage
      PROVE  i \in tasksSeen
    <2>1. /\ NewerIn(table, n, i) \in Nat /\ NewerIn(table, m, i) \in Nat
          /\ NewerIn(table, n, i) <= NewerIn(table, m, i)
        BY NewerMore
    <2>2. NewerIn(table, n, i) < p * RowsPerPage
        BY <1>1, <1>2, <1>3, <2>1
    <2>3. QED
        BY <1>3, <2>2 DEF Covered
<1>4. QED
    BY <1>3 DEF Covered

(* A change of the table leaves the seconds of its rows as they are, so    *)
(* what is covered stays covered.                                          *)
LEMMA CoveredStays ==
    ASSUME NEW before, NEW after, Len(before) \in Nat, Len(after) \in Nat,
           Len(before) <= Len(after),
           \A j \in 1..Len(before) : after[j].second = before[j].second,
           NEW n \in Nat, n <= Len(before), NEW p,
           NEW tasksOwed \in SUBSET (1..Len(before)), NEW tasksSeen
    PROVE  /\ \A i \in 1..Len(before) :
                  /\ NewerIn(after, n, i) = NewerIn(before, n, i)
                  /\ AloneIn(after, i) => AloneIn(before, i)
           /\ Covered(before, tasksOwed, tasksSeen, n, p)
                  => Covered(after, tasksOwed, tasksSeen, n, p)
<1>1. ASSUME NEW i \in 1..Len(before)
      PROVE  /\ NewerIn(after, n, i) = NewerIn(before, n, i)
             /\ AloneIn(after, i) => AloneIn(before, i)
    <2>1. {j \in 1..n : after[j].second > after[i].second}
            = {j \in 1..n : before[j].second > before[i].second}
        OBVIOUS
    <2>2. NewerIn(after, n, i) = NewerIn(before, n, i)
        BY <2>1 DEF NewerIn
    <2>3. AloneIn(after, i) => AloneIn(before, i)
        BY DEF AloneIn
    <2>4. QED
        BY <2>2, <2>3
<1>2. QED
    BY <1>1 DEF Covered

LEMMA NothingOwed ==
    ASSUME NEW table, NEW tasksSeen, NEW n, NEW p PROVE Covered(table, {}, tasksSeen, n, p)
BY DEF Covered

LEMMA TotalPagesOfBound ==
    ASSUME NEW answer \in Screens \cup {Nothing}
    PROVE  /\ TotalPagesOf(answer) \in Pages
           /\ answer # Nothing => answer.total <= TotalPagesOf(answer) * RowsPerPage
<1>1. RowsPerPage \in Nat \ {0} /\ MaxTasks \in Nat
    BY ListAssumption
<1>2. CASE answer = Nothing
    BY <1>1, <1>2 DEF TotalPagesOf, Pages
<1>3. CASE answer # Nothing
    <2> DEFINE n == answer.total
               q == (n + RowsPerPage - 1) \div RowsPerPage
    <2>1. n \in 0..MaxTasks
        BY <1>3 DEF Screens
    <2>2. q \in Nat /\ n <= q * RowsPerPage /\ q <= Max({1, n})
        BY <1>1, <2>1, PagesCover
    <2>3. TotalPagesOf(answer) = Max({1, q})
        BY <1>3 DEF TotalPagesOf
    <2> HIDE DEF n, q
    <2>4. TotalPagesOf(answer) = (IF 1 >= q THEN 1 ELSE q) /\ q <= IF 1 >= n THEN 1 ELSE n
        BY <2>1, <2>2, <2>3, MaxOfTwo
    <2>5. TotalPagesOf(answer) \in Nat /\ q <= TotalPagesOf(answer)
        BY <2>2, <2>4
    <2>6. q * RowsPerPage <= TotalPagesOf(answer) * RowsPerPage
        BY <1>1, <2>2, <2>5, Monotone
    <2>7. TotalPagesOf(answer) \in Pages
        BY <1>1, <2>1, <2>2, <2>4 DEF Pages
    <2>8. n <= TotalPagesOf(answer) * RowsPerPage
        BY <1>1, <2>1, <2>2, <2>5, <2>6
    <2>9. QED
        BY <2>7, <2>8 DEF n
<1>4. QED
    BY <1>2, <1>3

LEMMA MatchingBound ==
    ASSUME ListTypeOK, NEW f
    PROVE  Matching(f) \subseteq Positions /\ Cardinality(Matching(f)) \in 0..MaxTasks
<1>1. Len(tasks) \in Nat /\ Len(tasks) <= MaxTasks /\ MaxTasks \in Nat
    BY ListAssumption DEF ListTypeOK
<1>2. IsFiniteSet(1..MaxTasks) /\ Cardinality(1..MaxTasks) = MaxTasks
    BY <1>1, FS_Interval
<1>3. Matching(f) \in SUBSET (1..MaxTasks)
    BY <1>1 DEF Matching
<1>4. IsFiniteSet(Matching(f)) /\ Cardinality(Matching(f)) <= MaxTasks
    BY <1>2, <1>3, FS_Subset
<1>5. Cardinality(Matching(f)) \in Nat
    BY <1>4, FS_CardinalityType
<1>6. QED
    BY <1>1, <1>3, <1>4, <1>5 DEF Positions

(* Whatever the order within a second is, page p of the list shows the     *)
(* tasks that are alone in theirs and have (p - 1) * size to p * size - 1  *)
(* younger rows before them (ORDER BY created_local_at DESC LIMIT OFFSET). *)
LEMMA ItemsOnPage ==
    ASSUME ListTypeOK, NEW tie \in [1..Len(tasks) -> 1..Len(tasks)]
    PROVE  Shows(tasks, Items(page, AllTasks, tie), Len(tasks), page)
<1> DEFINE n == Len(tasks)
<1>1. n \in Nat /\ page \in Nat /\ RowsPerPage \in Nat
    BY ListAssumption DEF ListTypeOK, Pages
<1>2. Matching(AllTasks) = 1..n
    BY DEF Matching
<1>3. ASSUME NEW i \in 1..n, AloneIn(tasks, i),
             (page - 1) * RowsPerPage <= NewerIn(tasks, n, i),
             NewerIn(tasks, n, i) < page * RowsPerPage
      PROVE  i \in Items(page, AllTasks, tie)
    <2>1. \A j \in 1..n : Newer(j, i, tie) <=> tasks[j].second > tasks[i].second
        <3>1. ~(tie[i] < tie[i])
            BY <1>1
        <3>2. \A j \in 1..n : tasks[j].second = tasks[i].second => j = i
            BY <1>3 DEF AloneIn
        <3>3. QED
            BY <3>1, <3>2 DEF Newer
    <2>2. {j \in 1..n : Newer(j, i, tie)} = {j \in 1..n : tasks[j].second > tasks[i].second}
        BY <2>1
    <2>3. Cardinality({j \in 1..n : Newer(j, i, tie)}) = NewerIn(tasks, n, i)
        BY <2>2 DEF NewerIn
    <2>4. NewerIn(tasks, n, i) \in Nat
        BY <1>1, NewerMore
    <2>5. (page - 1) * RowsPerPage \in Int /\ page * RowsPerPage \in Int
        BY <1>1
    <2>6. /\ (page - 1) * RowsPerPage < NewerIn(tasks, n, i) + 1
          /\ NewerIn(tasks, n, i) + 1 <= page * RowsPerPage
        BY <1>3, <2>4, <2>5
    <2>7. QED
        BY <1>2, <2>3, <2>6 DEF Items, Slice
<1>4. QED
    BY <1>3 DEF Shows
-----------------------------------------------------------------------------
(* What the steps of the list share: the bounds of its parts. *)
LEMMA ListFacts ==
    ASSUME ListInv
    PROVE  /\ Len(tasks) \in Nat /\ Frontier \in Nat /\ Frontier <= Len(tasks)
           /\ page \in Nat \ {0} /\ page - 1 \in Int
           /\ owed \subseteq 1..Len(tasks)
           /\ query.upto \in Nat
           /\ list # Nothing => list.upto \in Nat /\ list.upto <= Len(tasks)
<1>1. /\ Len(tasks) \in Nat /\ query.upto \in Nat /\ query.upto <= Len(tasks)
      /\ page \in Nat \ {0}
      /\ list # Nothing => list.upto \in Nat
    BY ListAssumption DEF ListInv, ListTypeOK, Answers, Screens, Pages
<1>2. Frontier \in Nat /\ Frontier <= Len(tasks)
    BY <1>1 DEF Frontier
<1>3. owed \subseteq 1..Len(tasks)
    BY <1>1, <1>2 DEF ListInv
<1>4. list # Nothing => list.upto <= Len(tasks)
    BY <1>1, <1>2 DEF ListInv
<1>5. QED
    BY <1>1, <1>2, <1>3, <1>4

LEMMA AskedFits ==
    /\ NoQuery \in Answers /\ Asked \in Answers
    /\ NoQuery.step = "none" /\ Asked.step = "asked"
    /\ NoQuery.upto = 0 /\ Asked.upto = 0
BY ListAssumption DEF NoQuery, Asked, Answers

(* No answer is under way any more, or a new one is asked for. *)
LEMMA NoAnswerKeeps ==
    ASSUME ListInv, UNCHANGED <<tasks, page, status, list, owed, seen>>,
           query' = NoQuery \/ query' = Asked
    PROVE  ListInv'
<1>1. /\ query' \in Answers /\ query'.step \in {"none", "asked"} /\ query'.upto = 0
    BY AskedFits
<1>2. Frontier' = Len(tasks)
    BY <1>1 DEF Frontier
<1>3. status = AllTasks /\ list = Nothing => Covered(tasks, owed, seen, Len(tasks), page - 1)
    BY ListFacts, CoveredMore DEF ListInv
<1>4. ListTypeOK'
    BY <1>1 DEF ListInv, ListTypeOK
<1>5. list # Nothing => /\ list.upto <= Len(tasks) /\ owed \subseteq 1..list.upto
                        /\ status = AllTasks => Covered(tasks, owed, seen, list.upto, page)
    BY ListFacts DEF ListInv
<1>6. /\ list' \in Screens \cup {Nothing} /\ owed' \subseteq 1..Frontier'
      /\ query'.upto <= Len(tasks') /\ query'.step # "answered"
    BY <1>1, <1>2, ListFacts DEF ListInv
<1>7. QED
    BY <1>1, <1>2, <1>3, <1>4, <1>5, <1>6 DEF ListInv

(* Another key is shown.  What was seen covers it too, or the walk ends.   *)
LEMMA ShowKeeps ==
    ASSUME ListInv, NEW p \in Pages, NEW f \in Filters, Show(p, f),
           \/ EndWalk
           \/ /\ UNCHANGED <<owed, seen>> /\ f = status
              /\ status = AllTasks => Covered(tasks, owed, seen, Len(tasks), p - 1)
    PROVE  ListInv'
<1>1. /\ page' = p /\ status' = f /\ list' = Nothing /\ query' = Asked /\ UNCHANGED tasks
    BY DEF Show
<1>2. /\ query' \in Answers /\ query'.step = "asked" /\ query'.upto = 0
      /\ Frontier' = Len(tasks)
    BY <1>1, AskedFits DEF Frontier
<1>3. /\ owed' \subseteq 1..Len(tasks) /\ owed' \subseteq Positions /\ seen' \subseteq Positions
      /\ status' = AllTasks => Covered(tasks', owed', seen', Len(tasks), p - 1)
    <2>1. CASE EndWalk
        BY <2>1, NothingOwed DEF EndWalk
    <2>2. CASE ~EndWalk
        BY <1>1, <2>2, ListFacts DEF ListInv, ListTypeOK
    <2>3. QED
        BY <2>1, <2>2
<1>4. ListTypeOK'
    BY <1>1, <1>2, <1>3 DEF ListInv, ListTypeOK
<1>5. /\ list' \in Screens \cup {Nothing} /\ owed' \subseteq 1..Frontier'
      /\ query'.upto <= Len(tasks') /\ query'.step # "answered"
    BY <1>1, <1>2, <1>3, ListFacts
<1>6. QED
    BY <1>1, <1>2, <1>3, <1>4, <1>5 DEF ListInv

LEMMA PagingKeeps ==
    ASSUME ListInv,
           \/ \E f \in Filters : SelectListStatus(f)
           \/ NextListPage \/ PreviousListPage \/ FirstListPage \/ LastListPage
           \/ \E p \in 1..MaxTasks : Skip(p)
    PROVE  ListInv'
<1>1. /\ page \in Pages /\ status \in Filters /\ 1 \in Pages
      /\ TotalPagesOf(list) \in Pages /\ 1..MaxTasks \subseteq Pages
    BY TotalPagesOfBound, ListAssumption DEF ListInv, ListTypeOK, Pages
<1>2. ASSUME \/ \E f \in Filters : SelectListStatus(f)
             \/ FirstListPage \/ LastListPage \/ \E p \in 1..MaxTasks : Skip(p)
      PROVE  ListInv'
    BY <1>1, <1>2, ShowKeeps DEF SelectListStatus, FirstListPage, LastListPage, Skip
<1>3. CASE NextListPage
    <2>1. page + 1 \in Pages
        BY <1>1, <1>3, ListAssumption DEF NextListPage, Pages
    <2>2. PICK p \in Pages : p = page + 1 /\ p - 1 = page
        BY <2>1, ListFacts
    <2>3. status = AllTasks => Covered(tasks, owed, seen, Len(tasks), p - 1)
        BY <1>3, <2>2, ListFacts, CoveredMore DEF NextListPage, ListInv
    <2>4. Show(p, status) /\ UNCHANGED <<owed, seen>>
        BY <1>3, <2>2 DEF NextListPage
    <2>5. QED
        BY <1>1, <2>3, <2>4, ShowKeeps
<1>4. CASE PreviousListPage
    <2>1. page - 1 \in Pages /\ page - 1 - 1 \in Int
        BY <1>1, <1>4, ListAssumption DEF PreviousListPage, Pages
    <2>2. status = AllTasks => Covered(tasks, owed, seen, Len(tasks), page - 1 - 1)
        <3>1. status = AllTasks /\ list = Nothing => Covered(tasks, owed, seen, Frontier, page - 1)
            BY DEF ListInv
        <3>2. status = AllTasks /\ list # Nothing => Covered(tasks, owed, seen, list.upto, page)
            BY DEF ListInv
        <3>3. list # Nothing => list.upto <= Len(tasks)
            BY ListFacts DEF ListInv
        <3>4. page - 1 - 1 <= page - 1 /\ page - 1 - 1 <= page
            BY ListFacts
        <3>5. QED
            BY <2>1, <3>1, <3>2, <3>3, <3>4, ListFacts, CoveredMore
    <2>3. Show(page - 1, status) /\ UNCHANGED <<owed, seen>>
        BY <1>4 DEF PreviousListPage
    <2>4. QED
        BY <1>1, <2>1, <2>2, <2>3, ShowKeeps
<1>5. QED
    BY <1>2, <1>3, <1>4

LEMMA CountRowsKeeps ==
    ASSUME ListInv, CountRows PROVE ListInv'
<1>1. /\ UNCHANGED <<tasks, page, status, list, owed, seen>>
      /\ query.step = "asked"
      /\ query' = [query EXCEPT !.step = "counted", !.total = Cardinality(Matching(status))]
    BY DEF CountRows
<1>2. Cardinality(Matching(status)) \in 0..MaxTasks
    BY MatchingBound DEF ListInv
<1>3. query' \in Answers /\ query'.step = "counted" /\ query'.upto = query.upto
    BY <1>1, <1>2 DEF ListInv, Answers
<1>4. Frontier' = Len(tasks) /\ Frontier = Len(tasks)
    BY <1>1, <1>3 DEF Frontier
<1>5. ListTypeOK'
    BY <1>1, <1>3 DEF ListInv, ListTypeOK
<1>6. QED
    BY <1>1, <1>3, <1>4, <1>5 DEF ListInv

LEMMA SelectRowsKeeps ==
    ASSUME ListInv, SelectRows PROVE ListInv'
<1>1. UNCHANGED <<tasks, page, status, list, owed, seen>> /\ query.step = "counted"
    BY DEF SelectRows
<1>2. PICK tie \in [1..Len(tasks) -> 1..Len(tasks)] :
          query' = [query EXCEPT !.step = "answered", !.items = Items(page, status, tie),
                                 !.upto = Len(tasks)]
    BY DEF SelectRows, Injection, IsInjective
<1>3. Items(page, status, tie) \subseteq Positions
    BY MatchingBound DEF ListInv, Items, Slice
<1>4. Len(tasks) \in 0..MaxTasks
    BY ListFacts DEF ListInv, ListTypeOK
<1>5. /\ query' \in Answers /\ query'.step = "answered" /\ query'.upto = Len(tasks)
      /\ query'.items = Items(page, status, tie)
    BY <1>1, <1>2, <1>3, <1>4 DEF ListInv, Answers
<1>6. Frontier' = Len(tasks) /\ Frontier = Len(tasks)
    BY <1>1, <1>5 DEF Frontier
<1>7. ListTypeOK'
    BY <1>1, <1>5 DEF ListInv, ListTypeOK
<1>8. status = AllTasks => Shows(tasks, query'.items, query'.upto, page)
    BY <1>5, ItemsOnPage DEF ListInv
<1>9. query'.upto <= Len(tasks)
    BY <1>4, <1>5
<1>10. QED
    BY <1>1, <1>5, <1>6, <1>7, <1>8, <1>9 DEF ListInv

(* The answer extends what has been seen by the page it shows. *)
LEMMA NextPageCovered ==
    ASSUME NEW table, NEW n \in Nat, NEW p \in Nat \ {0},
           NEW tasksOwed \in SUBSET (1..n), NEW tasksSeen, NEW items,
           Covered(table, tasksOwed, tasksSeen, n, p - 1), Shows(table, items, n, p)
    PROVE  Covered(table, tasksOwed, tasksSeen \cup items, n, p)
<1>1. p * RowsPerPage \in Int /\ (p - 1) * RowsPerPage \in Int
    BY ListAssumption
<1>2. ASSUME NEW i \in tasksOwed, AloneIn(table, i), NewerIn(table, n, i) < p * RowsPerPage
      PROVE  i \in tasksSeen \cup items
    <2>1. NewerIn(table, n, i) \in Nat
        BY NewerMore
    <2>2. CASE NewerIn(table, n, i) < (p - 1) * RowsPerPage
        BY <1>2, <2>2 DEF Covered
    <2>3. CASE (p - 1) * RowsPerPage <= NewerIn(table, n, i)
        BY <1>2, <2>3 DEF Shows
    <2>4. QED
        BY <1>1, <2>1, <2>2, <2>3
<1>3. QED
    BY <1>2 DEF Covered

(* What the first page shows covers it. *)
LEMMA FirstPageCovered ==
    ASSUME NEW table, NEW n \in Nat, NEW items, Shows(table, items, n, 1)
    PROVE  Covered(table, 1..n, items, n, 1)
<1>1. \A i \in 1..n : NewerIn(table, n, i) \in Nat
    BY NewerMore
<1>2. (1 - 1) * RowsPerPage = 0
    BY ListAssumption
<1>3. \A i \in 1..n : (1 - 1) * RowsPerPage <= NewerIn(table, n, i)
    BY <1>1, <1>2
<1>4. QED
    BY <1>3 DEF Covered, Shows

LEMMA DeliverListKeeps ==
    ASSUME ListInv, DeliverList PROVE ListInv'
<1>1. /\ UNCHANGED <<tasks, page, status>> /\ query.step = "answered"
      /\ list' = [total |-> query.total, rows |-> query.items # {}, upto |-> query.upto]
      /\ query' = NoQuery
    BY DEF DeliverList
<1>2. /\ query \in Answers /\ query.upto \in Nat /\ query.upto <= Len(tasks)
      /\ query.items \subseteq Positions /\ Frontier = query.upto
    BY <1>1, ListFacts DEF ListInv, Answers, Frontier
<1>3. /\ query' \in Answers /\ query'.step = "none" /\ query'.upto = 0
      /\ Frontier' = Len(tasks)
    BY <1>1, AskedFits DEF Frontier
<1>4. status = AllTasks => Shows(tasks, query.items, query.upto, page)
    BY <1>1 DEF ListInv
<1>5. /\ owed' \subseteq 1..query.upto /\ seen' \subseteq Positions
      /\ status = AllTasks => Covered(tasks, owed', seen', query.upto, page)
    <2>1. CASE status # AllTasks
        BY <1>2, <2>1 DEF DeliverList, ListInv, ListTypeOK
    <2>2. CASE status = AllTasks /\ page = 1
        BY <1>2, <1>4, <2>2, FirstPageCovered DEF DeliverList
    <2>3. CASE status = AllTasks /\ page # 1
        <3>1. owed' = owed /\ seen' = seen \cup query.items
            BY <2>3 DEF DeliverList
        <3>2. owed \in SUBSET (1..query.upto) /\ seen \subseteq Positions
            BY <1>2 DEF ListInv, ListTypeOK
        <3>3. list # Nothing => Covered(tasks, owed, seen, query.upto, page - 1)
            <4>1. list # Nothing =>
                      list.upto <= query.upto /\ Covered(tasks, owed, seen, list.upto, page)
                BY <1>2, <2>3 DEF ListInv
            <4>2. page - 1 <= page
                BY ListFacts
            <4>3. QED
                BY <1>2, <4>1, <4>2, ListFacts, CoveredMore
        <3>4. list = Nothing => Covered(tasks, owed, seen, query.upto, page - 1)
            BY <1>2, <2>3 DEF ListInv
        <3>5. Covered(tasks, owed, seen \cup query.items, query.upto, page)
            BY <1>2, <1>4, <2>3, <3>2, <3>3, <3>4, ListFacts, NextPageCovered
        <3>6. QED
            BY <1>2, <3>1, <3>2, <3>5
    <2>4. QED
        BY <2>1, <2>2, <2>3
<1>6. owed' \subseteq 1..Len(tasks)
    BY <1>2, <1>5, ListFacts
<1>7. ListTypeOK'
    <2>1. owed' \subseteq Positions
        BY <1>6, ListFacts, ListAssumption DEF ListInv, ListTypeOK, Positions
    <2>2. QED
        BY <1>1, <1>3, <1>5, <2>1 DEF ListInv, ListTypeOK
<1>8. list' # Nothing => /\ list'.upto <= Frontier' /\ owed' \subseteq 1..list'.upto
                         /\ status' = AllTasks => Covered(tasks', owed', seen', list'.upto, page')
    BY <1>1, <1>2, <1>3, <1>5
<1>9. list' = Nothing /\ status' = AllTasks => Covered(tasks', owed', seen', Frontier', page' - 1)
    <2>1. page - 1 <= page /\ page \in Int /\ page - 1 \in Int
        BY ListFacts
    <2>2. status = AllTasks => Covered(tasks, owed', seen', Len(tasks), page - 1)
        BY <1>2, <1>5, <2>1, ListFacts, CoveredMore
    <2>3. QED
        BY <1>1, <1>3, <2>2
<1>10. list' \in Screens \cup {Nothing} /\ query'.upto <= Len(tasks')
    BY <1>1, <1>2, <1>3, ListFacts DEF Answers, Screens
<1>11. QED
    BY <1>1, <1>3, <1>6, <1>7, <1>8, <1>9, <1>10 DEF ListInv

LEMMA ListNextKeeps ==
    ASSUME ListInv, ListNext PROVE ListInv'
<1>1. ASSUME RefetchList \/ ListFails \/ StopAnswered PROVE ListInv'
    BY <1>1, NoAnswerKeeps DEF RefetchList, ListFails, StopAnswered
<1>2. QED
    BY <1>1, CountRowsKeeps, SelectRowsKeeps, DeliverListKeeps, PagingKeeps DEF ListNext

(* A row keeps its place and its second. *)
LEMMA TasksChangeKeeps ==
    ASSUME ListInv, TasksChange PROVE ListInv'
<1>1. UNCHANGED <<page, status, list, query, owed, seen>>
    BY DEF TasksChange, listVars
<1>2. /\ tasks' \in Seq(Row) /\ Len(tasks') <= MaxTasks
      /\ Len(tasks) <= Len(tasks') /\ Len(tasks') \in Nat /\ Len(tasks) \in Nat
      /\ \A j \in 1..Len(tasks) : tasks'[j].second = tasks[j].second
    <2>1. CASE Insert
        BY <2>1, ListAssumption DEF Insert, ListInv, ListTypeOK
    <2>2. CASE Progress
        <3>1. PICK i \in 1..Len(tasks), f \in RowStatus :
                  tasks' = [tasks EXCEPT ![i].status = f]
            BY <2>2 DEF Progress
        <3>2. tasks \in Seq(Row) /\ tasks[i] \in Row
            BY DEF ListInv, ListTypeOK
        <3>3. [tasks[i] EXCEPT !.status = f] \in Row
            BY <3>2 DEF Row
        <3>4. tasks' \in Seq(Row) /\ Len(tasks') = Len(tasks)
            BY <3>1, <3>2, <3>3
        <3>5. \A j \in 1..Len(tasks) : tasks'[j].second = tasks[j].second
            BY <3>1, <3>2 DEF Row
        <3>6. QED
            BY <3>4, <3>5, ListFacts DEF ListInv, ListTypeOK
    <2>3. QED
        BY <2>1, <2>2 DEF TasksChange
<1>3. Frontier <= Frontier' /\ Frontier' \in Nat
    BY <1>1, <1>2, ListFacts DEF Frontier
<1>4. /\ query'.upto <= Len(tasks') /\ owed' \subseteq 1..Frontier'
      /\ list' # Nothing => list'.upto <= Frontier' /\ owed' \subseteq 1..list'.upto
    BY <1>1, <1>2, <1>3, ListFacts DEF ListInv
<1>5. owed \in SUBSET (1..Len(tasks)) /\ page - 1 \in Int /\ page \in Int
    BY ListFacts
<1>6. status = AllTasks /\ list = Nothing => Covered(tasks', owed, seen, Frontier', page - 1)
    <2>1. status = AllTasks /\ list = Nothing => Covered(tasks, owed, seen, Frontier, page - 1)
        BY DEF ListInv
    <2>2. status = AllTasks /\ list = Nothing => Covered(tasks', owed, seen, Frontier, page - 1)
        BY <1>2, <1>5, <2>1, ListFacts, CoveredStays
    <2>3. QED
        BY <1>3, <1>5, <2>2, ListFacts, CoveredMore
<1>7. status = AllTasks /\ list # Nothing => Covered(tasks', owed, seen, list.upto, page)
    <2>1. status = AllTasks /\ list # Nothing => Covered(tasks, owed, seen, list.upto, page)
        BY DEF ListInv
    <2>2. QED
        BY <1>2, <1>5, <2>1, ListFacts, CoveredStays
<1>8. status = AllTasks /\ query.step = "answered"
          => Shows(tasks', query.items, query.upto, page)
    <2>1. status = AllTasks /\ query.step = "answered"
              => Shows(tasks, query.items, query.upto, page)
        BY DEF ListInv
    <2>2. /\ query.upto \in Nat /\ query.upto <= Len(tasks)
          /\ 1..query.upto \subseteq 1..Len(tasks)
        BY <1>2, ListFacts DEF ListInv
    <2>3. \A i \in 1..query.upto :
              /\ NewerIn(tasks', query.upto, i) = NewerIn(tasks, query.upto, i)
              /\ AloneIn(tasks', i) => AloneIn(tasks, i)
        BY <1>2, <1>5, <2>2, CoveredStays
    <2>4. QED
        BY <2>1, <2>3 DEF Shows
<1>9. ListTypeOK'
    BY <1>1, <1>2 DEF ListInv, ListTypeOK
<1>10. query' \in Answers /\ list' \in Screens \cup {Nothing}
    BY <1>1 DEF ListInv
<1>11. QED
    BY <1>1, <1>4, <1>6, <1>7, <1>8, <1>9, <1>10 DEF ListInv

LEMMA ListUnchanged ==
    ASSUME ListInv, UNCHANGED <<tasks, listVars>> PROVE ListInv'
<1>1. UNCHANGED <<tasks, page, status, list, query, owed, seen>>
    BY DEF listVars
<1>2. Frontier' = Frontier
    BY <1>1 DEF Frontier
<1>3. QED
    BY <1>1, <1>2 DEF ListInv, ListTypeOK

LEMMA EmptyTable == <<>> \in Seq(Row) /\ Len(<<>>) = 0
OBVIOUS

LEMMA ListAbsentInv == ListAbsent => ListInv
<1> SUFFICES ASSUME ListAbsent PROVE ListInv
    OBVIOUS
<1>1. /\ tasks = <<>> /\ page = 1 /\ status = AllTasks /\ list = Nothing /\ query = NoQuery
      /\ owed = {} /\ seen = {}
    BY DEF ListAbsent
<1>2. query \in Answers /\ query.step = "none" /\ query.upto = 0
    BY <1>1, AskedFits
<1>3. tasks \in Seq(Row) /\ Len(tasks) = 0
    BY <1>1, EmptyTable
<1>4. ListTypeOK
    BY <1>1, <1>2, <1>3, ListAssumption DEF ListTypeOK, Pages, Filters
<1>5. Covered(tasks, owed, seen, Frontier, page - 1)
    BY <1>1, NothingOwed
<1>6. QED
    BY <1>1, <1>2, <1>3, <1>4, <1>5 DEF ListInv

LEMMA ListLeavingKeeps ==
    ASSUME ListMount \/ ListUnmount PROVE ListInv'
<1>1. /\ tasks' = <<>> /\ page' = 1 /\ status' = AllTasks /\ list' = Nothing
      /\ owed' = {} /\ seen' = {} /\ (query' = NoQuery \/ query' = Asked)
    BY DEF ListMount, ListUnmount, ListFresh, EndWalk
<1>2. query' \in Answers /\ query'.step \in {"none", "asked"} /\ query'.upto = 0
    BY <1>1, AskedFits
<1>3. tasks' \in Seq(Row) /\ Len(tasks') = 0
    BY <1>1, EmptyTable
<1>4. ListTypeOK'
    BY <1>1, <1>2, <1>3, ListAssumption DEF ListTypeOK, Pages, Filters
<1>5. Covered(tasks', owed', seen', Frontier', page' - 1)
    BY <1>1, NothingOwed
<1>6. QED
    BY <1>1, <1>2, <1>3, <1>4, <1>5 DEF ListInv

(* On the last page, the pages seen hold the whole list. *)
LEMMA WalkEnds == ListInv => WalkMissesNothing
<1> SUFFICES ASSUME ListInv, list # Nothing, status = AllTasks,
                    page >= TotalPagesOf(list), list.total = list.upto,
                    NEW i \in owed, Alone(i)
             PROVE  i \in seen
    BY DEF WalkMissesNothing
<1>1. list.upto \in Nat /\ page \in Nat /\ RowsPerPage \in Nat
    BY ListFacts, ListAssumption
<1>2. TotalPagesOf(list) \in Nat /\ list.upto <= TotalPagesOf(list) * RowsPerPage
    BY TotalPagesOfBound DEF ListInv, Pages
<1>3. TotalPagesOf(list) * RowsPerPage <= page * RowsPerPage
    BY <1>1, <1>2, Monotone
<1>4. TotalPagesOf(list) * RowsPerPage \in Int /\ page * RowsPerPage \in Int
    BY <1>1, <1>2
<1>5. i \in 1..list.upto /\ i \in 1..Len(tasks)
    BY ListFacts DEF ListInv
<1>6. tasks[i].second \in Nat
    <2>1. tasks[i] \in Row
        BY <1>5 DEF ListInv, ListTypeOK
    <2>2. tasks[i].second \in Seconds
        BY <2>1 DEF Row
    <2>3. QED
        BY <2>2, SecondsAssumption
<1>7. NewerIn(tasks, list.upto, i) < list.upto /\ NewerIn(tasks, list.upto, i) \in Nat
    BY <1>1, <1>5, <1>6, NewerAreOthers, NewerMore
<1>8. NewerIn(tasks, list.upto, i) < page * RowsPerPage
    BY <1>1, <1>2, <1>3, <1>4, <1>7
<1>9. AloneIn(tasks, i)
    BY DEF Alone, AloneIn
<1>10. Covered(tasks, owed, seen, list.upto, page)
    BY DEF ListInv
<1>11. QED
    BY <1>8, <1>9, <1>10 DEF Covered
-----------------------------------------------------------------------------
(* The form for a new task. *)

LEMMA FormNextKeeps ==
    ASSUME FormTypeOK, FormNext PROVE FormTypeOK'
<1>1. CASE EditPrompts \/ ClickTrigger \/ ClosePlatformSelect
    BY <1>1 DEF EditPrompts, ClickTrigger, ClosePlatformSelect, FormTypeOK
<1>2. ASSUME NEW p \in PlatformOptions, TogglePlatform(p) PROVE FormTypeOK'
    <2>1. selectedPlatforms' \subseteq PlatformOptions
        BY <1>2 DEF TogglePlatform, FormTypeOK
    <2>2. QED
        BY <1>2, <2>1 DEF TogglePlatform, FormTypeOK
<1>3. CASE Submit
    BY <1>3, Zenon DEF Submit, FormTypeOK, ValidateSubmit
<1>4. QED
    BY <1>1, <1>2, <1>3 DEF FormNext

LEMMA OnePromptFits == 1 \in 0..(MaxPrompts + 1)
BY FormAssumption

LEMMA FormClearedKeeps ==
    ASSUME FormTypeOK, FormCleared, creating' \in BOOLEAN PROVE FormTypeOK'
BY OnePromptFits DEF FormCleared, FormTypeOK
-----------------------------------------------------------------------------
(* The routes.  Exactly one page is mounted; a step of it leaves the       *)
(* others alone, and a link leaves one page and enters another.            *)
ConsoleInv ==
    /\ DetailInv /\ ListInv /\ FormTypeOK /\ SettingsInv
    /\ route \in {"list", "new", "detail", "settings"}

LEMMA ConsoleInit ==
    Init => ConsoleInv
<1> SUFFICES ASSUME Init PROVE ConsoleInv
    OBVIOUS
<1>1. DetailInv /\ ListInv /\ SettingsInv
    BY UnmountedInv, ListAbsentInv, SettingsAbsentInv DEF Init
<1>2. FormTypeOK
    BY OnePromptFits DEF Init, FormBlank, FormTypeOK
<1>3. QED
    BY <1>1, <1>2 DEF Init, ConsoleInv

(* A link, or the answer of a submission, whatever the reader is looking   *)
(* at.                                                                     *)
RouteChange == ToList \/ ToNew \/ ToSettings \/ OpenTask \/ NavigateToCreated

LEMMA RouteChangeLeaves ==
    ASSUME RouteChange
    PROVE  /\ Unmount \/ Mount \/ SwitchTask
           /\ ListMount \/ ListUnmount
           /\ SettingsUnmount \/ SettingsMount
           /\ FormCleared /\ (creating' = creating \/ creating' = FALSE)
           /\ route' \in {"list", "new", "detail", "settings"}
<1>1. CASE ToList
    BY <1>1 DEF ToList
<1>2. CASE ToNew
    BY <1>2 DEF ToNew
<1>3. CASE ToSettings
    BY <1>3 DEF ToSettings
<1>4. CASE OpenTask
    BY <1>4 DEF OpenTask
<1>5. CASE NavigateToCreated
    BY <1>5 DEF NavigateToCreated
<1>6. QED
    BY <1>1, <1>2, <1>3, <1>4, <1>5 DEF RouteChange

(* Every step changes the route, or is a step of one page only. *)
LEMMA StepOfOnePage ==
    ASSUME [Next]_vars
    PROVE  \/ RouteChange
           \/ /\ DetailNext \/ UNCHANGED detailVars
              /\ ListNext \/ TasksChange \/ UNCHANGED <<tasks, listVars>>
              /\ SettingsNext \/ UNCHANGED settingsVars
              /\ FormNext \/ CreateFails \/ UNCHANGED <<formVars, creating>>
              /\ route' = route
<1>1. CASE UNCHANGED vars
    BY <1>1 DEF vars
<1>2. CASE Next
    BY <1>2 DEF Next, RouteChange
<1>3. QED
    BY <1>1, <1>2

LEMMA ConsoleStep ==
    ASSUME ConsoleInv, [Next]_vars PROVE ConsoleInv'
<1>1. CASE RouteChange
    <2>1. DetailInv' /\ ListInv' /\ SettingsInv'
        BY <1>1, RouteChangeLeaves, LeavingKeeps, ListLeavingKeeps, SettingsLeavingKeeps
        DEF ConsoleInv
    <2>2. FormTypeOK'
        BY <1>1, RouteChangeLeaves, FormClearedKeeps DEF ConsoleInv, FormTypeOK
    <2>3. QED
        BY <1>1, <2>1, <2>2, RouteChangeLeaves DEF ConsoleInv
<1>2. CASE ~RouteChange
    <2>1. DetailInv'
        BY <1>2, StepOfOnePage, DetailNextKeeps, DetailUnchanged DEF ConsoleInv
    <2>2. ListInv'
        BY <1>2, StepOfOnePage, ListNextKeeps, TasksChangeKeeps, ListUnchanged DEF ConsoleInv
    <2>3. SettingsInv'
        BY <1>2, StepOfOnePage, SettingsNextKeeps, SettingsUnchanged DEF ConsoleInv
    <2>4. FormTypeOK'
        <3>1. CASE FormNext
            BY <3>1, FormNextKeeps DEF ConsoleInv
        <3>2. CASE CreateFails \/ UNCHANGED <<formVars, creating>>
            BY <3>2 DEF CreateFails, formVars, ConsoleInv, FormTypeOK
        <3>3. QED
            BY <1>2, <3>1, <3>2, StepOfOnePage
    <2>5. QED
        BY <1>2, <2>1, <2>2, <2>3, <2>4, StepOfOnePage DEF ConsoleInv
<1>3. QED
    BY <1>1, <1>2

LEMMA ConsoleInvariant == Spec => []ConsoleInv
<1>1. ConsoleInv /\ [Next]_vars => ConsoleInv'
    BY ConsoleStep
<1>2. QED
    BY <1>1, ConsoleInit, PTL DEF Spec
-----------------------------------------------------------------------------
(* The state of each page is what its component's useState, useQuery and   *)
(* useMutation hold, on every route and whatever the backend answers.      *)
THEOREM ConsoleTyped == Spec => []ConsoleTypeOK
<1>1. ConsoleInv => ConsoleTypeOK
    BY DEF ConsoleInv, ConsoleTypeOK, DetailInv, ListInv, SettingsInv
<1>2. QED
    BY <1>1, ConsoleInvariant, PTL

(* TaskDetailPage: of the subtasks that match the filters some are on      *)
(* screen, also in the render before its effects have clamped the selected *)
(* page to the pages a refetch has left.                                   *)
THEOREM DetailShowsMatches == Spec => []MatchesVisible
<1>1. ConsoleInv => MatchesVisible
    BY SliceNotEmpty DEF ConsoleInv, DetailInv, MatchesVisible
<1>2. QED
    BY <1>1, ConsoleInvariant, PTL

(* TaskDetailPage: once the effects of a render have run, the prompt that  *)
(* is selected is one the filter offers, whatever status and platform      *)
(* filters or a refetch have left of the prompts.                          *)
THEOREM DetailFilterOffered == Spec => []FilterSatisfiable
<1>1. ConsoleInv => FilterSatisfiable
    BY DEF ConsoleInv, DetailInv, FilterSatisfiable, Ready, FilterOffered
<1>2. QED
    BY <1>1, ConsoleInvariant, PTL

(* TaskDetailPage: the button of the previous page leads to the page       *)
(* before the one on screen.                                               *)
THEOREM DetailPagingMoves == Spec => PagingMoves
<1>1. ConsoleInv /\ [Next]_vars
        => [PreviousPage => NormalizedPage' = NormalizedPage - 1]_detailVars
    BY PreviousPageMoves DEF ConsoleInv
<1>2. QED
    BY <1>1, ConsoleInvariant, PTL DEF Spec, PagingMoves

(* TaskDetailPage: only a click expands a subtask after the first one was  *)
(* expanded (initialExpanded); a refetch does not.                         *)
THEOREM DetailCollapseSticks == Spec => CollapseSticks
<1> DEFINE Sticks == expandedInitial /\ expandedInitial'
                        => \A s \in expanded' \ expanded : ToggleExpanded(s)
<1>1. ASSUME ConsoleInv, [Next]_vars PROVE Sticks \/ UNCHANGED detailVars
    <2>1. CASE RouteChange
        BY <2>1, RouteChangeLeaves DEF Unmount, Mount, SwitchTask, Fresh
    <2>2. CASE DetailNext
        BY <1>1, <2>2, OnlyClicksExpand DEF ConsoleInv
    <2>3. QED
        BY <1>1, <2>1, <2>2, StepOfOnePage
<1>2. QED
    BY <1>1, ConsoleInvariant, PTL DEF Spec, CollapseSticks

(* TaskDetailPage: what ends "syncing" (invalidateQueries in onSuccess) is *)
(* an answer whose rows were read after the backend saved the sync.        *)
THEOREM DetailSyncedIsShown == Spec => SyncedIsShown
<1>1. ConsoleInv => (Deliver /\ sync = "refetching" => fetch = "after")
    BY DEF ConsoleInv, DetailInv, Deliver
<1>2. QED
    BY <1>1, ConsoleInvariant, PTL DEF Spec, SyncedIsShown

(* TaskListPage over GET /api/tasks: who walks from the first page to the  *)
(* last has seen every task there was at the start that is the only one of *)
(* its second, however many come in meanwhile and in whatever order the    *)
(* database puts the others.                                               *)
THEOREM ListWalkMissesNothing == Spec => []WalkMissesNothing
<1>1. ConsoleInv => WalkMissesNothing
    BY WalkEnds DEF ConsoleInv
<1>2. QED
    BY <1>1, ConsoleInvariant, PTL

(* SettingsPage: PUT /api/callback-url goes out only with a URL that was   *)
(* typed after the query last brought another one, or else with what the   *)
(* query has brought, stripped of spaces (mutationFn, the effect over      *)
(* currentCallbackUrl).                                                    *)
THEOREM SettingsSendTypedUrls == Spec => OnlyTypedUrlsAreSent
<1>1. ConsoleInv => (UpdateCallbackUrl => save.typed \/ save.callbackUrl = Trim[save.shown])
    BY UrlIsLastCall DEF ConsoleInv, TypedOrTrimmed
<1>2. QED
    BY <1>1, ConsoleInvariant, PTL DEF Spec, OnlyTypedUrlsAreSent

(* SettingsPage: PUT /api/settings/api-key is answered before              *)
(* PUT /api/callback-url is sent, so the URL is stored for the new key.    *)
THEOREM SettingsUrlFollowsKey == Spec => UrlFollowsKey
<1>1. ConsoleInv => (UpdateCallbackUrl /\ save.apiKey # Blank /\ ~disturbed
                        => runtimeToken = save.apiKey)
    BY UrlIsLastCall DEF ConsoleInv
<1>2. QED
    BY <1>1, ConsoleInvariant, PTL DEF Spec, UrlFollowsKey
=============================================================================
