---------------------------- MODULE MCSimulation ----------------------------
(***************************************************************************)
(* Every workload of Size records over small sets.  Costs are those of     *)
(* run_simulation(); arrivals are in half ticks.                           *)
(***************************************************************************)
EXTENDS Simulation

\* Deadlines that have passed at the submission, that pass in the first tick,
\* and that fall on the end of a second.
EntriesAt(arrivals) ==
  [arrival : arrivals, prompt : {0, 2}, max_tokens : {1, 2}, deadline : {-1, 0, 10}]

\* Arrivals on a tick: before the run begins, during a first tick, and later.
OnTick == EntriesAt({-2, 6, 40})

\* Arrivals when the run begins and during a first tick.
Overlapping == EntriesAt({0, 6})

\* An arrival between two ticks.
OffTick == EntriesAt({0, 41})
=============================================================================
