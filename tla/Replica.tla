------------------------------ MODULE Replica -------------------------------
(***************************************************************************)
(* What a backend promises of the statuses in its tables: for every task   *)
(* it keeps one state the service was in, never a mixture of two.  The     *)
(* service's record moves forward; the copy is replaced as a whole, by the *)
(* current state or by any earlier one, at any time.                       *)
(***************************************************************************)

CONSTANTS
    Tasks,
    States,             \* states a task of the service can be in
    NoState,            \* the state of an unknown task
    Earlier(_, _)       \* whether a task in one state may later be in another

VARIABLES
    real,               \* the service's state of each task
    copy                \* the state the tables show

Init ==
    /\ real = [t \in Tasks |-> NoState]
    /\ copy = [t \in Tasks |-> NoState]

Advance(t) ==
    /\ UNCHANGED copy
    /\ real' = [real EXCEPT ![t] = real'[t]]
    /\ real'[t] \in States
    /\ real[t] = NoState \/ Earlier(real[t], real'[t])

Refresh(t) ==
    /\ UNCHANGED real
    /\ real[t] # NoState
    /\ copy' = [copy EXCEPT ![t] = copy'[t]]
    /\ copy'[t] \in States
    /\ Earlier(copy'[t], real[t])

Next == \E t \in Tasks : Advance(t) \/ Refresh(t)

Spec == Init /\ [][Next]_<<real, copy>>
=============================================================================
