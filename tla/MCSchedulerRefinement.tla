----------------------- MODULE MCSchedulerRefinement -----------------------
(***************************************************************************)
(* The requests and ids of MCFifoScheduler, for the refinement.            *)
(***************************************************************************)
EXTENDS MCFifoScheduler, SchedulerRefinement
=============================================================================
