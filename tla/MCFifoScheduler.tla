-------------------------- MODULE MCFifoScheduler --------------------------
(***************************************************************************)
(* Three requests, two ids: r1 and r3 share id a, so an id is reused after *)
(* its first request has ended, or before it has in the run that allows it.*)
(***************************************************************************)
EXTENDS FifoScheduler, TLC

CONSTANTS r1, r2, r3, a, b

MCRequests == {r1, r2, r3}
MCIds == {a, b}
MCIdOf == r1 :> a @@ r2 :> b @@ r3 :> a
MCMaxOutput == r1 :> 2 @@ r2 :> 1 @@ r3 :> 1
=============================================================================
