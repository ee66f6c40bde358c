----------------------------- MODULE MCBackends -----------------------------
(* Go alone, PHP alone, and all three on one database: Node and PHP, which *)
(* find each other's event rows, serve requests while Go polls.  Handlers  *)
(* are interchangeable.                                                    *)
EXTENDS Backends, TLC

Symmetry == Permutations(Handlers)

Deployment(first, second, poller) ==
    {f \in [Procs -> Languages] :
        {f[p] : p \in Handlers} = {first, second} /\ f[Loop] = poller}

MCDeployments ==
    Deployment("go", "go", "go") \cup Deployment("php", "php", "php")
        \cup Deployment("node", "phpNulls", "go")
=============================================================================
