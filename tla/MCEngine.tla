------------------------------ MODULE MCEngine ------------------------------
(***************************************************************************)
(* Channels hold one token, so that backpressure happens, and a second     *)
(* start() resumes after a stop().  Two short submissions show how entries *)
(* interact; a single longer one can have several tokens held back, and is *)
(* small enough for liveness.                                              *)
(***************************************************************************)
EXTENDS Engine, TLC

CONSTANTS r1, r2

MCRequests == {r1, r2}
MCOneRequest == {r1}
MCMaxOutput == r1 :> 2 @@ r2 :> 1
MCCapacity == r1 :> 1 @@ r2 :> 1
MCOneMaxOutput == r1 :> 3
MCOneCapacity == r1 :> 1
=============================================================================
