---------------------------- MODULE TaskListPage ----------------------------
(***************************************************************************)
(* The task list of the React frontend over GET /api/tasks: pages of the   *)
(* tasks with a status, newest first, from a COUNT and a SELECT that see   *)
(* the table at different moments.  A task is its position in geo_tasks,   *)
(* in the order the rows were committed; rows are never deleted.  The      *)
(* search box narrows what is on screen and is left out.                   *)
(***************************************************************************)
EXTENDS Naturals, Sequences, FiniteSetsExt

CONSTANTS
    RowsPerPage,    \* pageSize
    AllTasks,       \* the status option ''
    Nothing,
    MaxTasks,       \* bound
    Seconds         \* bound: the values of created_local_at, a DATETIME

ASSUME ListAssumption == RowsPerPage \in Nat \ {0} /\ MaxTasks \in Nat
ASSUME SecondsAssumption == Seconds \subseteq Nat

VARIABLES
    tasks,          \* geo_tasks: status and created_local_at
    page,
    status,
    list,           \* of the answer on screen, its count and whether it has rows, and
                    \* how many rows the table had; Nothing before it arrives
    query,          \* the request under way
    owed,           \* auxiliary: the tasks that existed when page 1 was read
    seen            \* auxiliary: the tasks shown since, page after page

listVars == <<page, status, list, query, owed, seen>>

(* One option of the status filter stands for all, "done" for the others.  *)
RowStatus == {"pending", "done"}
Filters == {AllTasks, "pending"}
Row == [status : RowStatus, second : Seconds]
Positions == 1..MaxTasks
Pages == 1..(MaxTasks + 1)
NoQuery == [step |-> "none", total |-> 0, items |-> {}, upto |-> 0]
Asked == [NoQuery EXCEPT !.step = "asked"]
-----------------------------------------------------------------------------
(* The table. *)

(* The second is taken before the transaction, by whichever process saves: *)
(* rows of one second are common, and one may be committed after younger.  *)
Insert == Len(tasks) < MaxTasks /\ \E row \in Row : tasks' = Append(tasks, row)

(* Later saves write the status, to whatever their snapshot shows.         *)
Progress ==
    \E i \in 1..Len(tasks), f \in RowStatus : tasks' = [tasks EXCEPT ![i].status = f]

TasksChange == (Insert \/ Progress) /\ UNCHANGED listVars

Matching(f) == {i \in 1..Len(tasks) : f = AllTasks \/ tasks[i].status = f}

(* Those of rank (p - 1) * size + 1 to p * size. *)
Slice(S, p, Precedes(_, _)) ==
    {i \in S :
        LET rank == Cardinality({j \in S : Precedes(j, i)}) + 1
        IN  (p - 1) * RowsPerPage < rank /\ rank <= p * RowsPerPage}

(* ORDER BY created_local_at DESC; tie is what the database makes of rows  *)
(* of one second.                                                          *)
Newer(j, i, tie) ==
    \/ tasks[j].second > tasks[i].second
    \/ tasks[j].second = tasks[i].second /\ tie[j] < tie[i]

(* Mutant of Items: unfinished tasks come first. *)
ItemsByStatus(p, f, tie) ==
    Slice(Matching(f), p,
          LAMBDA j, i : \/ tasks[j].status = tasks[i].status /\ Newer(j, i, tie)
                        \/ tasks[j].status = "pending" /\ tasks[i].status # "pending")

(* ... LIMIT size OFFSET (page - 1) * size *)
Items(p, f, tie) == Slice(Matching(f), p, LAMBDA j, i : Newer(j, i, tie))

TotalPagesOf(answer) ==
    IF answer = Nothing THEN 1
    ELSE Max({1, (answer.total + RowsPerPage - 1) \div RowsPerPage})
-----------------------------------------------------------------------------
(* The query of the page: its key is <<page, status>>. *)

RefetchList ==
    /\ query = NoQuery
    /\ query' = Asked
    /\ UNCHANGED <<tasks, page, status, list, owed, seen>>

CountRows ==
    /\ query.step = "asked"
    /\ query' = [query EXCEPT !.step = "counted", !.total = Cardinality(Matching(status))]
    /\ UNCHANGED <<tasks, page, status, list, owed, seen>>

(* Nothing orders rows of one second, and nothing makes two queries agree. *)
SelectRows ==
    /\ query.step = "counted"
    /\ \E tie \in Injection(1..Len(tasks), 1..Len(tasks)) :
          query' = [query EXCEPT !.step = "answered", !.items = Items(page, status, tie),
                                 !.upto = Len(tasks)]
    /\ UNCHANGED <<tasks, page, status, list, owed, seen>>

(* The first page of all tasks begins a walk, the next ones extend it.     *)
DeliverList ==
    /\ query.step = "answered"
    /\ list' = [total |-> query.total, rows |-> query.items # {}, upto |-> query.upto]
    /\ query' = NoQuery
    /\ CASE status # AllTasks -> UNCHANGED <<owed, seen>>
         [] status = AllTasks /\ page = 1 -> owed' = 1..query.upto /\ seen' = query.items
         [] OTHER -> seen' = seen \cup query.items /\ UNCHANGED owed
    /\ UNCHANGED <<tasks, page, status>>

ListFails ==
    /\ query # NoQuery
    /\ query' = NoQuery
    /\ UNCHANGED <<tasks, page, status, list, owed, seen>>

(* Another key: the request for the old one no longer concerns the page.   *)
(* list is Nothing until the new one is answered, also when an old answer  *)
(* for this key is on screen meanwhile.                                    *)
Show(p, f) ==
    /\ page' = p /\ status' = f
    /\ list' = Nothing
    /\ query' = Asked
    /\ UNCHANGED tasks

EndWalk == owed' = {} /\ seen' = {}

SelectListStatus(f) == f # status /\ Show(1, f) /\ EndWalk

NextListPage ==
    /\ list # Nothing /\ page < TotalPagesOf(list)
    /\ Show(page + 1, status)
    /\ UNCHANGED <<owed, seen>>

PreviousListPage == page # 1 /\ Show(page - 1, status) /\ UNCHANGED <<owed, seen>>
FirstListPage == page # 1 /\ Show(1, status) /\ EndWalk
LastListPage ==
    /\ list # Nothing /\ page < TotalPagesOf(list)
    /\ Show(TotalPagesOf(list), status)
    /\ EndWalk

(* A click that does not wait for the answer, on the old answer's buttons. *)
Skip(p) == list = Nothing /\ p # page /\ Show(p, status) /\ EndWalk

(* PUT /api/tasks/:taskId/stop forwards the call and changes no row; its   *)
(* success starts the query anew.                                          *)
StopAnswered ==
    /\ list # Nothing
    /\ query' = Asked
    /\ UNCHANGED <<tasks, page, status, list, owed, seen>>
-----------------------------------------------------------------------------
ListAbsent ==
    /\ page = 1 /\ status = AllTasks /\ list = Nothing /\ query = NoQuery
    /\ owed = {} /\ seen = {} /\ tasks = <<>>

ListFresh == page' = 1 /\ status' = AllTasks /\ list' = Nothing /\ EndWalk

(* The table fills while the list is open: what was inserted before the    *)
(* visit may as well be inserted before its first query.                   *)
ListMount == ListFresh /\ query' = Asked /\ tasks' = <<>>
ListUnmount == ListFresh /\ query' = NoQuery /\ tasks' = <<>>

ListNext ==
    \/ RefetchList \/ CountRows \/ SelectRows \/ DeliverList \/ ListFails
    \/ \E f \in Filters : SelectListStatus(f)
    \/ NextListPage \/ PreviousListPage \/ FirstListPage \/ LastListPage
    \/ \E p \in 1..MaxTasks : Skip(p)
    \/ StopAnswered

ListTypeOK ==
    /\ tasks \in Seq(Row) /\ Len(tasks) <= MaxTasks
    /\ page \in Pages /\ status \in Filters
    /\ query.step \in {"none", "asked", "counted", "answered"}
    /\ owed \subseteq Positions /\ seen \subseteq Positions

(* No other task has been created in the same second. *)
Alone(i) == \A j \in 1..Len(tasks) : tasks[j].second = tasks[i].second => j = i

(* Whoever pages from the first page to the last sees every task there was *)
(* in the beginning, although new tasks push the others to later pages all *)
(* the while; the last page's two queries agreeing about the table.  Tasks *)
(* of one second are not promised: listTasks orders them anew at each page *)
(* (no tie-breaker), so one may be moved back to a page that was left.     *)
WalkMissesNothing ==
    (/\ list # Nothing /\ status = AllTasks
     /\ page >= TotalPagesOf(list) /\ list.total = list.upto)
        => \A i \in owed : Alone(i) => i \in seen
=============================================================================
