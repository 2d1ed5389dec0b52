------------------------------ MODULE MCServer ------------------------------
(***************************************************************************)
(* Two threads, two calls of start() and two connections: the first may    *)
(* carry two requests, the second stays idle.                              *)
(***************************************************************************)
EXTENDS Server, TLC

CONSTANTS t1, t2, s1, s2, c1, c2

MCThreads == {t1, t2}
MCStarts == {s1, s2}
MCConns == {c1, c2}
MCRequests ==
  {[method |-> "other", target |-> "/readyz", keep_alive |-> TRUE],
   [method |-> "get", target |-> "/readyz", keep_alive |-> FALSE]}
MCMaxRequests == c1 :> 2 @@ c2 :> 0
=============================================================================
