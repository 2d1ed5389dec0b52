------------------------ MODULE SchedulerRefinement ------------------------
(***************************************************************************)
(* FifoScheduler implements SchedulerContract.  The contract's tick is one *)
(* step, so what FifoScheduler changes while a tick runs is hidden until   *)
(* the tick ends: the history variable before holds what was visible when  *)
(* it began.                                                               *)
(***************************************************************************)
EXTENDS FifoScheduler

VARIABLE before

Current == [state |-> state, emitted |-> emitted]

RInit == Init /\ before = Current

RNext == Next /\ before' = IF pc = "idle" THEN Current ELSE before

RSpec == RInit /\ [][RNext]_<<vars, before>> /\ Fairness

VisibleState == IF pc = "idle" THEN state ELSE before.state
VisibleEmitted == IF pc = "idle" THEN emitted ELSE before.emitted

Contract == INSTANCE SchedulerContract
  WITH state <- VisibleState, emitted <- VisibleEmitted

\* Seen from between two ticks, the three phases of a tick are the single step
\* of the contract: every request that was live gains a token or becomes
\* terminal, whatever expires, fails or is still queued in the same tick.
ImplementsContract == Contract!Spec
=============================================================================
