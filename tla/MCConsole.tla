------------------------------ MODULE MCConsole -----------------------------
(* Three subtasks: two prompts on one platform, one of them on another;    *)
(* and a callback URL with and without spaces at its ends.                 *)
EXTENDS Console, TLC

CONSTANTS s1, s2, s3, p1, p2, x, y, url, padded, nourl

SubPrompt == (s1 :> p1) @@ (s2 :> p2) @@ (s3 :> p1)
SubPlatform == (s1 :> x) @@ (s2 :> x) @@ (s3 :> y)
SavedTogether == {{s1}, {s1, s2, s3}}
Trimmed == (url :> url) @@ (padded :> url) @@ (nourl :> nourl)
Accounts == Permutations(ApiKeys)
=============================================================================
