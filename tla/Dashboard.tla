----------------------------- MODULE Dashboard ------------------------------
(***************************************************************************)
(* The dashboard of the React frontend: figures computed in the browser    *)
(* from one page of GET /api/tasks.  rows is geo_tasks in the order of     *)
(* created_local_at; the figures are functions of what a refetch at this   *)
(* moment would return and of the two selections.  A time is a number of   *)
(* hours, a day a number of days, a percentage is in hundredths.           *)
(***************************************************************************)
EXTENDS Naturals, Sequences, FiniteSetsExt, Functions

CONSTANTS
    Shapes,         \* what can be submitted: [prompts : Nat, platforms : set]
    PageCap,        \* the most rows a backend returns, whatever size is asked
    TopCap,         \* length of the two lists (10)
    HoursPerDay,
    WindowDays,     \* days of the trend charts (7)
    DaysPerYear,
    MaxRows,        \* bound
    FirstTime,      \* bound
    LastTime,       \* bound
    All             \* the platform option "all"

Platforms == UNION {shape.platforms : shape \in Shapes}
ASSUME CapAssumption == PageCap \in Nat \ {0} /\ TopCap \in Nat
ASSUME CalendarAssumption ==
    /\ HoursPerDay \in Nat \ {0} /\ WindowDays \in Nat \ {0}
    /\ DaysPerYear \in Nat /\ DaysPerYear > WindowDays
    /\ MaxRows \in Nat /\ FirstTime \in Nat /\ LastTime \in Nat
    /\ WindowDays * HoursPerDay <= FirstTime /\ FirstTime <= LastTime
ASSUME AllAssumption == All \notin Platforms
ASSUME ShapesAssumption ==
    /\ \A shape \in Shapes : shape.prompts \in Nat
    /\ IsFiniteSet(Platforms)

VARIABLES
    rows,
    now,
    selectedDate,
    selectedPlatform

vars == <<rows, now, selectedDate, selectedPlatform>>

MasterStatus == {"pending", "processing", "completed", "partial_completed", "failed", "stopped"}

(* submitted: prompts_json and platforms_json are filled in (a row first   *)
(* stored by a callback lacks them).                                       *)
Row == [shape : Shapes, submitted : BOOLEAN, status : MasterStatus,
        done : Nat, failed : Nat, created : Nat, updated : Nat]

DayOf(time) == time \div HoursPerDay
Days == DayOf(FirstTime)..DayOf(LastTime)
ItemsOf(shape) == shape.prompts * Cardinality(shape.platforms)

(* Number(task.total_items || 0) *)
TotalItems(r) == ItemsOf(r.shape)
Remaining(r) == IF r.done + r.failed > TotalItems(r) THEN 0 ELSE TotalItems(r) - r.done - r.failed
-----------------------------------------------------------------------------
(* The table changes as the backends write it. *)

Init ==
    /\ rows = <<>>
    /\ now = FirstTime
    /\ selectedDate = DayOf(FirstTime)
    /\ selectedPlatform = All

NewRow(shape, submitted) ==
    [shape |-> shape, submitted |-> submitted, status |-> "pending",
     done |-> 0, failed |-> 0, created |-> now, updated |-> now]

Insert(shape) ==
    /\ Len(rows) < MaxRows
    /\ \E submitted \in BOOLEAN : rows' = Append(rows, NewRow(shape, submitted))
    /\ UNCHANGED <<now, selectedDate, selectedPlatform>>

(* What a status or result payload can say of n subtasks. *)
Progress(n) ==
    {p \in [status : MasterStatus, done : 0..n, failed : 0..n] :
        /\ p.done + p.failed <= n
        /\ p.status = "pending" => p.done + p.failed = 0
        /\ p.status = "processing" => p.done + p.failed < n
        /\ p.status = "completed" => p.done = n
        /\ p.status = "failed" => p.failed = n
        /\ p.status = "partial_completed" => p.done + p.failed = n /\ 0 < p.done /\ 0 < p.failed}

(* saveRemoteResult *)
Sync(i) ==
    /\ rows[i].status \in {"pending", "processing", "stopped"}
    /\ \E p \in Progress(TotalItems(rows[i])) :
          /\ p.done >= rows[i].done /\ p.failed >= rows[i].failed
          /\ rows[i].status = "stopped" => p.status = "stopped"
          /\ rows' = [rows EXCEPT ![i].status = p.status, ![i].done = p.done,
                                  ![i].failed = p.failed, ![i].updated = now]
    /\ UNCHANGED <<now, selectedDate, selectedPlatform>>

(* saveSubmitted after the first callback: the counters stay. *)
SubmitLate(i) ==
    /\ ~rows[i].submitted
    /\ rows' = [rows EXCEPT ![i].submitted = TRUE, ![i].status = "pending", ![i].updated = now]
    /\ UNCHANGED <<now, selectedDate, selectedPlatform>>

Tick ==
    /\ now < LastTime
    /\ now' = now + 1
    /\ UNCHANGED <<rows, selectedDate, selectedPlatform>>

(* The date input and the platform selection; the options of the latter    *)
(* are the platforms of the selected day's tasks.                          *)
SelectDate(day) ==
    /\ selectedDate' = day
    /\ UNCHANGED <<rows, now, selectedPlatform>>
-----------------------------------------------------------------------------
(* listTasks({page: 1, size: 1000}): ORDER BY created_local_at DESC, the   *)
(* size cut to the backend's maximum.                                      *)
Items == (Len(rows) - Min({Len(rows), PageCap}) + 1)..Len(rows)

(* Mutant of Scoped: the day of the last update. *)
ScopedByUpdate(day) == {i \in Items : DayOf(rows[i].updated) = day}

(* scopedItems: taskDateInputValue is the day of created_local_at. *)
Scoped(day) == {i \in Items : DayOf(rows[i].created) = day}

WithStatus(S, status) == {i \in S : rows[i].status = status}

(* The eight figures of the overview, the completion rate apart. *)
Overview(day) ==
    LET S == Scoped(day)
        OpenOf(status) == SumFunction([i \in WithStatus(S, status) |-> Remaining(rows[i])])
    IN  [total     |-> SumFunction([i \in S |-> TotalItems(rows[i])]),
         completed |-> SumFunction([i \in S |-> rows[i].done]),
         failed    |-> SumFunction([i \in S |-> rows[i].failed]),
         pending   |-> OpenOf("pending"),
         running   |-> OpenOf("processing"),
         stopped   |-> OpenOf("stopped"),
         partial   |-> SumFunction([i \in WithStatus(S, "partial_completed")
                                        |-> TotalItems(rows[i])])]

(* Math.round(a / b) *)
Round(a, b) == (2 * a + b) \div (2 * b)
Percent(value, total) == IF total = 0 THEN 0 ELSE Round(10000 * value, total)

(* Mutant of Distribute: every platform is given the task's counter. *)
DistributeWhole(value, count) == value

Distribute(value, count) == IF count = 0 THEN 0 ELSE Round(value, count)

(* getTaskPlatforms, and the divisor that is never zero. *)
PlatformsOf(r) == IF r.submitted THEN r.shape.platforms ELSE {}
PlatformCount(r) == Max({Cardinality(PlatformsOf(r)), 1})

(* prompts.length, or an estimate where prompts_json is missing. *)
PromptCount(r) ==
    IF r.submitted THEN r.shape.prompts
    ELSE Max({1, Round(TotalItems(r), PlatformCount(r))})

(* One line of the model table: the row's figures for one platform. *)
PlatformStat(platform, day) ==
    LET S == {i \in Scoped(day) : platform \in PlatformsOf(rows[i])}
        Share(value, r) == Min({PromptCount(r), Distribute(value, PlatformCount(r))})
        PromptsIn(status) == SumFunction([i \in WithStatus(S, status) |-> PromptCount(rows[i])])
        total == SumFunction([i \in S |-> PromptCount(rows[i])])
        completed == SumFunction([i \in S |-> Share(rows[i].done, rows[i])])
    IN  [total |-> total,
         completed |-> completed,
         unfinished |-> total - Min({total, completed}),
         failed |-> SumFunction([i \in S |-> Share(rows[i].failed, rows[i])]),
         pending |-> PromptsIn("pending"), running |-> PromptsIn("processing"),
         partial |-> PromptsIn("partial_completed"), stopped |-> PromptsIn("stopped"),
         completionRate |-> Percent(completed, total)]

ShownPlatforms(day) == UNION {PlatformsOf(rows[i]) : i \in Scoped(day)}

SelectPlatform(platform) ==
    /\ platform \in {All} \cup ShownPlatforms(selectedDate)
    /\ selectedPlatform' = platform
    /\ UNCHANGED <<rows, now, selectedDate>>

(* Mutant of HourCompleted: of all tasks on the page, whatever their day. *)
HourCompletedAnyDay(day, hour) ==
    LET S == {i \in Items : rows[i].created % HoursPerDay = hour}
    IN  SumFunction([i \in S |-> rows[i].done])

(* The bars of the hourly chart. *)
HourCompleted(day, hour) ==
    LET S == {i \in Scoped(day) : rows[i].created % HoursPerDay = hour}
    IN  SumFunction([i \in S |-> rows[i].done])

(* dateKey: month and day, no year. *)
DateKey(day) == day % DaysPerYear
LastDays(day) == {DateKey(day - back) : back \in 0..(WindowDays - 1)}

(* Mutant of TouchedOn: the day of creation. *)
CreatedOn(key) == {i \in Items : DateKey(DayOf(rows[i].created)) = key}

TouchedOn(key) == {i \in Items : DateKey(DayOf(rows[i].updated)) = key}

(* The lines of the 7-day chart, at one of its days. *)
DayStat(key) ==
    [completed |-> SumFunction([i \in TouchedOn(key) |-> rows[i].done]),
     pending   |-> SumFunction([i \in TouchedOn(key) |-> Remaining(rows[i])]),
     failed    |-> SumFunction([i \in TouchedOn(key) |-> rows[i].failed])]

(* The line of a platform in the trend chart, at one of its days. *)
Trend(key, platform) ==
    LET S == {i \in TouchedOn(key) : platform \in PlatformsOf(rows[i])}
    IN  IF selectedPlatform \notin {All, platform} THEN 0
        ELSE SumFunction([i \in S |-> Distribute(rows[i].done, PlatformCount(rows[i]))])

(* The first TopCap of S by Measure, greatest first: every set of that size *)
(* that leaves out nothing greater than what it has.                       *)
Tops(S, Measure(_)) ==
    {T \in SUBSET S :
        /\ Cardinality(T) = Min({TopCap, Cardinality(S)})
        /\ \A i \in T, j \in S \ T : Measure(i) >= Measure(j)}

(* Mutant of PressureTops: the most recently updated ones. *)
PressureTopsAll(day) == Tops(Scoped(day), LAMBDA i : rows[i].updated)

PressureTops(day) ==
    Tops({i \in Scoped(day) : rows[i].status # "completed"}, LAMBDA i : Remaining(rows[i]))
-----------------------------------------------------------------------------
Next ==
    \/ \E shape \in Shapes : Insert(shape)
    \/ \E i \in 1..Len(rows) : Sync(i) \/ SubmitLate(i)
    \/ Tick
    \/ \E day \in Days : SelectDate(day)
    \/ \E platform \in {All} \cup Platforms : SelectPlatform(platform)

Spec == Init /\ [][Next]_vars
-----------------------------------------------------------------------------
(* Subtask by subtask: what docs/implementation-contract.md wants counted. *)
Subtasks(day) ==
    UNION {{<<i, k>> : k \in 1..TotalItems(rows[i])} :
              i \in {j \in 1..Len(rows) : DayOf(rows[j].created) = day}}

IsCompleted(x) == x[2] <= rows[x[1]].done
IsFailed(x) == ~IsCompleted(x) /\ x[2] <= rows[x[1]].done + rows[x[1]].failed
OpenIn(day, status) ==
    {x \in Subtasks(day) : ~IsCompleted(x) /\ ~IsFailed(x) /\ rows[x[1]].status = status}

(* Equal but for half of `slack'. *)
Close(x, y, slack) == 2 * x <= 2 * y + slack /\ 2 * y <= 2 * x + slack

(* The overview counts every subtask of the selected day's tasks once: all *)
(* of them, the completed, the failed, and the open ones under the status  *)
(* of their task, although it only ever sees sums per task.                *)
OverviewMatchesContract ==
    LET shown == Overview(selectedDate)
        X == Subtasks(selectedDate)
    IN  /\ shown.total = Cardinality(X)
        /\ shown.completed = Cardinality({x \in X : IsCompleted(x)})
        /\ shown.failed = Cardinality({x \in X : IsFailed(x)})
        /\ shown.pending = Cardinality(OpenIn(selectedDate, "pending"))
        /\ shown.running = Cardinality(OpenIn(selectedDate, "processing"))
        /\ shown.stopped = Cardinality(OpenIn(selectedDate, "stopped"))
        /\ shown.completed + shown.failed + shown.pending + shown.running + shown.stopped
              = shown.total

(* The model table against the overview: platforms have no counters of     *)
(* their own, so their completed figures are shares of the task's; over    *)
(* the tasks that list their platforms these add up to the counters but    *)
(* for half a subtask per platform and task, and no rate exceeds 100 %.    *)
PlatformSharesClose ==
    LET S == {i \in Scoped(selectedDate) : rows[i].submitted}
        Stat(p) == PlatformStat(p, selectedDate)
        slack == SumFunction([i \in S |-> Cardinality(PlatformsOf(rows[i]))])
    IN  /\ Close(SumFunction([p \in Platforms |-> Stat(p).completed]),
                 SumFunction([i \in S |-> rows[i].done]), slack)
        /\ Close(SumFunction([p \in Platforms |-> Stat(p).failed]),
                 SumFunction([i \in S |-> rows[i].failed]), slack)
        /\ \A p \in Platforms : Stat(p).completionRate <= 10000

(* The hourly chart shows the completed subtasks of the overview. *)
HoursMatchOverview ==
    SumFunction([h \in 0..(HoursPerDay - 1) |-> HourCompleted(selectedDate, h)])
        = Overview(selectedDate).completed

(* The 7-day chart: each point stands for the tasks last touched on that   *)
(* very day, although days are compared without their year; and the lines  *)
(* of the trend chart add up to it but for half a subtask per platform.    *)
DaysMatchWindow ==
    \A back \in 0..(WindowDays - 1) :
        LET day == selectedDate - back
            touched == {i \in Items : DayOf(rows[i].updated) = day}
            listed == {i \in touched : rows[i].submitted}
            stat == DayStat(DateKey(day))
            trend == SumFunction([p \in Platforms |-> Trend(DateKey(day), p)])
            completed == SumFunction([i \in listed |-> rows[i].done])
            slack == SumFunction([i \in listed |-> Cardinality(PlatformsOf(rows[i]))])
        IN  /\ stat.completed + stat.pending + stat.failed
                  = SumFunction([i \in touched |-> TotalItems(rows[i])])
            /\ selectedPlatform = All => Close(trend, completed, slack)

(* The backlog list: no open subtask of a listed day is hidden behind a    *)
(* task that has none.                                                     *)
BacklogShowsOpenTasks ==
    \A T \in PressureTops(selectedDate) :
        (\E i \in T : Remaining(rows[i]) = 0)
            => \A j \in Scoped(selectedDate) : Remaining(rows[j]) > 0 => j \in T
=============================================================================
