---------------------------- MODULE MCDashboard -----------------------------
(* What is submitted: one prompt on one platform, or two on two.           *)
EXTENDS Dashboard

CONSTANTS a, b

SmallShapes ==
    {[prompts |-> 1, platforms |-> {a}], [prompts |-> 2, platforms |-> {a, b}]}
=============================================================================
