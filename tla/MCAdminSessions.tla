-------------------------- MODULE MCAdminSessions ---------------------------
(* Two tabs of one browser: they share a token, and a login whose answer   *)
(* is lost plays the login from another browser.                           *)
EXTENDS AdminSessions, TLC

CONSTANT b1

OneBrowser == [t \in Tabs |-> b1]
Symmetry == Permutations(Tabs)
=============================================================================
