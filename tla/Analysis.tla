------------------------------ MODULE Analysis ------------------------------
(***************************************************************************)
(* apps/tokamak/analysis.cpp, and what main.cpp and trace_event.cpp derive *)
(* from the request summaries and the tick reports of a run.               *)
(*                                                                         *)
(* A summary is a record of milestones; one that was not reached is Never. *)
(* A percentile is a number of hundredths, and a rate a fraction.          *)
(***************************************************************************)
EXTENDS RequestState, Integers, Sequences, FiniteSets, Functions

\* std::nullopt, and the NaN of a duration that lacks an end.
Never == -1

-----------------------------------------------------------------------------
(* check_invariants().                                                     *)

\* Both milestones were reached, and in the wrong order.
Swapped(first, second) == first # Never /\ second # Never /\ second < first

\* The requests with a violation.
Violations(requests) ==
  {i \in DOMAIN requests :
     LET r == requests[i] IN
     \/ ~IsTerminal(r.state)
     \/ r.emitted > r.max_tokens
     \/ Swapped(r.admitted_at, r.first_token_at)
     \/ Swapped(r.first_token_at, r.completed_at)
     \/ Swapped(r.admitted_at, r.completed_at)}

-----------------------------------------------------------------------------
(* compute_latency_stats().                                                *)

\* Mutant: what lies between two ranks is rounded down.
Percentile_LowerRank(sorted, p) ==
  100 * sorted[((p * (Len(sorted) - 1)) \div 100) + 1]

\* Linear interpolation between the two ranks next to p, in hundredths.
Percentile(sorted, p) ==
  LET rank == p * (Len(sorted) - 1)
      lower == rank \div 100
      upper == (rank + 99) \div 100
      weight == rank - 100 * lower
  IN IF Len(sorted) = 1 THEN 100 * sorted[1]
     ELSE 100 * sorted[lower + 1] + weight * (sorted[upper + 1] - sorted[lower + 1])

\* One value for each request that was admitted and reached the milestone: ttft_ms,
\* e2e_ms.
Sample(requests, milestone) ==
  LET reached == {i \in DOMAIN requests :
                    requests[i].admitted_at # Never /\ requests[i][milestone] # Never}
  IN [i \in reached |-> requests[i][milestone] - requests[i].admitted_at]

\* order lists the elements of a sample by size.
IsOrder(order, sample) ==
  \A i, j \in DOMAIN order : i < j => sample[order[i]] <= sample[order[j]]

\* std::sort of the values.
Sorted(sample) ==
  LET ranks == 1 .. Cardinality(DOMAIN sample)
      order == CHOOSE o \in Bijection(ranks, DOMAIN sample) : IsOrder(o, sample)
  IN [i \in ranks |-> sample[order[i]]]

\* Half of LatencyStats; all zero when no request reached the milestone.  The
\* mean is sum divided by the size of the sample.
LatencyStats(sample) ==
  LET sorted == Sorted(sample)
  IN IF DOMAIN sample = {}
     THEN [p50 |-> 0, p90 |-> 0, p99 |-> 0, min |-> 0, max |-> 0, sum |-> 0]
     ELSE [p50 |-> Percentile(sorted, 50), p90 |-> Percentile(sorted, 90),
           p99 |-> Percentile(sorted, 99), min |-> Head(sorted),
           max |-> sorted[Len(sorted)], sum |-> SumFunction(sorted)]

\* The value of rank k, from 0, in a sample in any order.
OrderStatistic(sample, k) ==
  CHOOSE x \in Range(sample) :
    /\ Cardinality({i \in DOMAIN sample : sample[i] < x}) <= k
    /\ k < Cardinality({i \in DOMAIN sample : sample[i] <= x})

\* The mean of one hundred nearest-rank values around p is what interpolation
\* between ranks computes.
ReferencePercentile(sample, p) ==
  LET last == Cardinality(DOMAIN sample) - 1
  IN SumFunction([k \in 0 .. last |->
       OrderStatistic(sample, k)
         * Cardinality({j \in 0 .. 99 : (p * last + j) \div 100 = k})])

-----------------------------------------------------------------------------
(* compute_throughput_stats().                                             *)

\* Mutant: a request that completes at its deadline is late.
MetDeadline_Strict(r) == r.completed_at # Never /\ r.completed_at < r.deadline_at

MetDeadline(r) == r.completed_at # Never /\ r.completed_at <= r.deadline_at

TokensOf(requests, indices) ==
  SumFunction([i \in indices |-> requests[i].emitted])

\* The terminal requests, and those that attain their deadline.
Terminal(requests) == {i \in DOMAIN requests : IsTerminal(requests[i].state)}
Attaining(requests) == {i \in Terminal(requests) : MetDeadline(requests[i])}

\* The counts that the rates are made of: tokens over the wall time, attaining
\* requests over terminal ones.
ThroughputStats(requests) ==
  [total_tokens |-> TokensOf(requests, DOMAIN requests),
   good_tokens |-> TokensOf(requests, Attaining(requests)),
   terminal_count |-> Cardinality(Terminal(requests)),
   attaining_count |-> Cardinality(Attaining(requests))]

-----------------------------------------------------------------------------
(* main.cpp.                                                               *)

\* duration_ms_or_nan().
DurationOrNaN(from, to) == IF from = Never \/ to = Never THEN Never ELSE to - from

\* Mutant: decode time counts from the first token.
Breakdown_FromFirstToken(r) ==
  [queue_time |-> DurationOrNaN(r.waiting_prefill_at, r.prefilling_at),
   prefill_time |-> DurationOrNaN(r.prefilling_at, r.waiting_decode_at),
   decode_time |-> DurationOrNaN(r.first_token_at, r.completed_at),
   ttft |-> DurationOrNaN(r.admitted_at, r.first_token_at),
   e2e |-> DurationOrNaN(r.admitted_at, r.completed_at)]

\* The times printed for a request.
Breakdown(r) ==
  [queue_time |-> DurationOrNaN(r.waiting_prefill_at, r.prefilling_at),
   prefill_time |-> DurationOrNaN(r.prefilling_at, r.waiting_decode_at),
   decode_time |-> DurationOrNaN(r.decoding_at, r.completed_at),
   ttft |-> DurationOrNaN(r.admitted_at, r.first_token_at),
   e2e |-> DurationOrNaN(r.admitted_at, r.completed_at)]

\* What main() returns.
ExitCode(requests) == IF Violations(requests) = {} THEN 0 ELSE 1

\* sim_wall_time: the timestamp of the last tick report.
WallTime(reports) ==
  IF reports = <<>> THEN 0 ELSE reports[Len(reports)].timestamp

-----------------------------------------------------------------------------
(* trace_event.cpp.                                                        *)

\* Mutant: the event counts the requests that were finished.
MakeTraceEvent_Completed(report, iteration) ==
  [iteration |-> iteration, timestamp |-> report.timestamp,
   runnable_prefill |-> report.prefill_attempted,
   runnable_decode |-> report.decode_attempted,
   selected_sequences |-> report.decode_attempted,
   prefill_tokens |-> report.prefill_tokens,
   decode_tokens |-> report.decode_completed]

\* make_trace_event(), for a run that starts at time 0.
MakeTraceEvent(report, iteration) ==
  [iteration |-> iteration, timestamp |-> report.timestamp,
   runnable_prefill |-> report.prefill_attempted,
   runnable_decode |-> report.decode_attempted,
   selected_sequences |-> report.decode_attempted,
   prefill_tokens |-> report.prefill_tokens,
   decode_tokens |-> report.decode_tokens]

=============================================================================
