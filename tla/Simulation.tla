----------------------------- MODULE Simulation -----------------------------
(***************************************************************************)
(* apps/tokamak/simulation.cpp: the event loop that replays a workload on a*)
(* fake clock.  Analysis is what the program makes of the result.          *)
(* No backend error and no end of sequence is configured, so a tick fails  *)
(* only what is past its deadline, and is one step here.  Each record has  *)
(* an id of its own and asks for at least one token.                       *)
(*                                                                         *)
(* Times are ticks of the clock (nanoseconds).  Arrivals are finer: an     *)
(* arrival_ms is a double and need not fall on a tick.  load_workload()    *)
(* takes a negative one as well: the record is due when the run begins.    *)
(***************************************************************************)
EXTENDS Analysis

CONSTANTS
  Entries,       \* workload records: [arrival, prompt, max_tokens, deadline]
  Size,          \* number of records of a workload
  Grain,         \* arrival units in one tick of the clock
  PrefillCost,   \* cost of a prompt token
  DecodeCost     \* cost of a decode call

ASSUME SimulationAssumption ==
  /\ Entries \subseteq
       [arrival : Int, prompt : Nat, max_tokens : Nat \ {0}, deadline : Int]
  /\ Size \in Nat /\ Grain \in Nat \ {0}
  /\ PrefillCost \in Nat /\ DecodeCost \in Nat \ {0}

VARIABLES
  workload,    \* the records, sorted by arrival
  clock,       \* clock.now()
  reqs,        \* submitted: one record for each request, in order
  reports,     \* the tick reports
  pc           \* "submit" at the head of the loop, "run" before its second half

vars == <<workload, clock, reqs, reports, pc>>

\* load_workload() sorts with std::sort: equal arrivals in any order.
SortedByArrival(w) ==
  \A i, j \in DOMAIN w : i < j => w[i].arrival <= w[j].arrival

Init ==
  /\ workload \in {w \in [1 .. Size -> Entries] : SortedByArrival(w)}
  /\ clock = 0 /\ reqs = <<>> /\ reports = <<>> /\ pc = "submit"

-----------------------------------------------------------------------------
(* run_simulation().                                                       *)

Waiting == {i \in DOMAIN reqs : reqs[i].state = "WaitingPrefill"}
Decoding == {i \in DOMAIN reqs : reqs[i].state = "Decoding"}
Live == Waiting \cup Decoding
NextToSubmit == Len(reqs) + 1
MoreToSubmit == NextToSubmit <= Len(workload)

\* Mutant: an arrival at this very instant is not due.
Due_Strict == MoreToSubmit /\ workload[NextToSubmit].arrival < clock * Grain

Due == MoreToSubmit /\ workload[NextToSubmit].arrival <= clock * Grain

\* The Request made for a workload record: the deadline counts from now.
NewRequest(w) ==
  [state |-> "Received", emitted |-> 0, max_tokens |-> w.max_tokens,
   prompt |-> w.prompt, deadline_at |-> clock + w.deadline,
   admitted_at |-> Never, waiting_prefill_at |-> Never, prefilling_at |-> Never,
   waiting_decode_at |-> Never, decoding_at |-> Never, first_token_at |-> Never,
   completed_at |-> Never]

\* scheduler.submit() admits and queues it in one go.
Enqueue(r) ==
  [r EXCEPT !.state = "WaitingPrefill", !.admitted_at = clock,
            !.waiting_prefill_at = clock]

\* A round of the submission loop.
Submit ==
  /\ pc = "submit" /\ Due
  /\ reqs' = Append(reqs, Enqueue(NewRequest(workload[NextToSubmit])))
  /\ UNCHANGED <<workload, clock, reports, pc>>

\* Nothing more is due: go on, or end.
SubmitDone ==
  /\ pc = "submit" /\ ~Due
  /\ pc' = IF MoreToSubmit \/ Live # {} THEN "run" ELSE "done"
  /\ UNCHANGED <<workload, clock, reqs, reports>>

\* Mutant: the deadline is forgotten once decoding has begun.
Expired_WaitingOnly(i) == i \in Waiting /\ clock > reqs[i].deadline_at

\* A request past its deadline when the tick begins.
Expired(i) == clock > reqs[i].deadline_at

\* Expiry of a waiting request stops over at Prefilling.
Expire(r) ==
  [r EXCEPT !.state = "Failed",
            !.prefilling_at = IF r.state = "WaitingPrefill" THEN clock ELSE @]

\* The outcome loop stamps three states at once, when all prompts are paid for.
Promote(r, now) ==
  [r EXCEPT !.state = "Decoding", !.prefilling_at = now,
            !.waiting_decode_at = now, !.decoding_at = now]

\* Mutant: completion is stamped before the decode call is paid for.
Decoded_EarlyStamp(r, now) ==
  [r EXCEPT !.state = IF r.emitted + 1 >= r.max_tokens THEN "Completed" ELSE "Decoding",
            !.emitted = @ + 1,
            !.first_token_at = IF @ = Never THEN now ELSE @,
            !.completed_at = IF r.emitted + 1 >= r.max_tokens THEN now - DecodeCost
                                                              ELSE @]

\* emit_token() at time now, and retirement at the output limit.
Decoded(r, now) ==
  [r EXCEPT !.state = IF r.emitted + 1 >= r.max_tokens THEN "Completed" ELSE "Decoding",
            !.emitted = @ + 1,
            !.first_token_at = IF @ = Never THEN now ELSE @,
            !.completed_at = IF r.emitted + 1 >= r.max_tokens THEN now ELSE @]

\* Mutant: the report carries the time at which the tick began.
MergedTimestamp_Begin(begin, end) == begin

\* Mutant: timestamps are added up like the counters of the phases.
MergedTimestamp_Summed(begin, end) == begin + end

\* tick() stamps its merged report when it ends.
MergedTimestamp(begin, end) == end

\* What a tick serves: everything queued that is not past its deadline.
Served == {i \in Live : ~Expired(i)}
Fresh == Served \cap Waiting

\* The backend advances the clock for every prompt token, then for a decode call.
Prompts == SumFunction([i \in Fresh |-> reqs[i].prompt])
Prefilled == clock + PrefillCost * Prompts
TickEnd == Prefilled + DecodeCost

\* A request when the tick has ended.
AfterTick(i) ==
  CASE i \in Fresh -> Decoded(Promote(reqs[i], Prefilled), TickEnd)
    [] i \in Served \ Fresh -> Decoded(reqs[i], TickEnd)
    [] i \in Live \ Served -> Expire(reqs[i])
    [] OTHER -> reqs[i]

\* The merged report of the three phases.
Report ==
  [timestamp |-> MergedTimestamp(clock, TickEnd),
   expired_count |-> Cardinality(Live \ Served),
   prefill_attempted |-> Cardinality(Fresh), prefill_tokens |-> Prompts,
   decode_attempted |-> Cardinality(Served), decode_tokens |-> Cardinality(Served),
   decode_completed |-> Cardinality({i \in Served : AfterTick(i).state = "Completed"})]

\* scheduler.tick(): expire, prefill what waits, decode everything left.
Tick ==
  /\ pc = "run" /\ Live # {}
  /\ clock' = TickEnd
  /\ reqs' = [i \in DOMAIN reqs |-> AfterTick(i)]
  /\ reports' = Append(reports, Report)
  /\ pc' = "submit"
  /\ UNCHANGED workload

\* Idle: jump to the next arrival, truncated to a tick of the clock.
Jump ==
  /\ pc = "run" /\ Live = {}
  /\ clock' = workload[NextToSubmit].arrival \div Grain
  /\ pc' = "submit"
  /\ UNCHANGED <<workload, reqs, reports>>

Next == Submit \/ SubmitDone \/ Tick \/ Jump

Spec == Init /\ [][Next]_vars
FairSpec == Spec /\ WF_vars(Next)

-----------------------------------------------------------------------------
(* Properties.                                                             *)

\* Every request record keeps its shape and every time is a time that has come.
TypeOK ==
  LET Time == 0 .. clock
      Milestone == {Never} \cup Time
  IN
  /\ clock \in Nat /\ pc \in {"submit", "run", "done"}
  /\ \A i \in DOMAIN reports : reports[i].timestamp \in Time
  /\ \A i \in DOMAIN reqs :
       reqs[i] \in [state : RequestStates, emitted : Nat, max_tokens : Nat,
                    prompt : Nat, deadline_at : Int, admitted_at : Time,
                    waiting_prefill_at : Time, prefilling_at : Milestone,
                    waiting_decode_at : Milestone, decoding_at : Milestone,
                    first_token_at : Milestone, completed_at : Milestone]

\* A run that ends passes its own invariant check, and the program exits with
\* 0: every request is terminal, within its limit, its milestones in order.
EndsClean == pc = "done" => ExitCode(reqs) = 0

\* When the loop ticks or jumps, every request that has arrived is submitted,
\* and none before its arrival: simulated queueing times are real.
SubmittedOnArrival ==
  /\ pc = "run" => \A j \in NextToSubmit .. Len(workload) :
                      workload[j].arrival > clock * Grain
  /\ \A i \in DOMAIN reqs : workload[i].arrival <= reqs[i].admitted_at * Grain

\* The wall time taken from the last tick report covers everything that
\* happened, so the throughput figures divide by the whole run.
WallTimeCoversRun ==
  \A i \in DOMAIN reqs :
    /\ reqs[i].first_token_at <= WallTime(reports)
    /\ reqs[i].completed_at <= WallTime(reports)

\* The cost of a tick in which every prompt is prefilled.
LongestTick ==
  DecodeCost + PrefillCost * SumFunction([j \in DOMAIN workload |-> workload[j].prompt])

\* A deadline is looked at only when a tick begins, so a request may complete
\* late, but by no more than one tick, in which every prompt was prefilled.
OverrunBounded ==
  \A i \in DOMAIN reqs :
    reqs[i].completed_at # Never =>
      reqs[i].completed_at <= reqs[i].deadline_at + LongestTick

\* The request completes within its deadline and some ticks of grace, all counted
\* from a time in units of arrivals.
OnTime(i, from, grace) ==
  /\ reqs[i].completed_at # Never
  /\ reqs[i].completed_at * Grain <= from + (workload[i].deadline + grace) * Grain

\* The attaining requests of docs/adr/010: completed_at <= arrival_ms + deadline_ms.
OnTimeFromArrival == {i \in DOMAIN reqs : OnTime(i, workload[i].arrival, 0)}

\* What the rate is computed from is what docs/adr/010 defines.  Fails: the
\* deadline_at that compute_throughput_stats() compares with is counted from the
\* submission, which a tick in progress delays.
AttainmentFromArrival ==
  pc = "done" =>
    ThroughputStats(reqs).attaining_count = Cardinality(OnTimeFromArrival)

\* When a request can first be submitted.
ArrivesAt(w) == IF w.arrival < 0 THEN 0 ELSE w.arrival

\* How far compute_throughput_stats() is from docs/adr/010, request by request: it
\* counts each one that is on time from its arrival, and each one it counts is at
\* most the longest tick late from its arrival, or from the beginning of the run if
\* its arrival is before that.
AttainmentWithinOneTick ==
  pc = "done" =>
    /\ OnTimeFromArrival \subseteq Attaining(reqs)
    /\ \A i \in Attaining(reqs) : OnTime(i, ArrivesAt(workload[i]), LongestTick)

\* The times printed for a request account for all of it.  It has waited in the
\* queue; if it began to decode, queueing and prefill fit into the time to its first
\* token, and if not, no further time is printed and it waited past its deadline.
\* For a completed request queueing, prefill and decoding add up to the end-to-end
\* time; for another neither decoding nor the end-to-end time is printed.
BreakdownAddsUp ==
  pc = "done" => \A i \in DOMAIN reqs :
    LET b == Breakdown(reqs[i]) IN
    /\ 0 <= b.queue_time
    /\ IF 0 < reqs[i].emitted
       THEN 0 <= b.prefill_time /\ b.queue_time + b.prefill_time <= b.ttft
       ELSE /\ b.prefill_time = Never /\ b.ttft = Never
            /\ workload[i].deadline < b.queue_time
    /\ IF reqs[i].state = "Completed"
       THEN b.queue_time + b.prefill_time + b.decode_time = b.e2e /\ b.ttft <= b.e2e
       ELSE b.decode_time = Never /\ b.e2e = Never

\* The trace and the request summaries are two accounts of one run: the decode
\* tokens of all events are the tokens the throughput is computed from, the
\* prefill tokens are the prompts of the requests that began to decode, and
\* each iteration ends after the one before.
TraceAddsUp ==
  LET trace == [i \in DOMAIN reports |-> MakeTraceEvent(reports[i], i - 1)]
      begun == {i \in DOMAIN reqs : reqs[i].decoding_at # Never}
  IN /\ SumFunction([i \in DOMAIN trace |-> trace[i].decode_tokens])
           = ThroughputStats(reqs).total_tokens
     /\ SumFunction([i \in DOMAIN trace |-> trace[i].prefill_tokens])
           = SumFunction([i \in begun |-> reqs[i].prompt])
     /\ \A i, j \in DOMAIN trace : i < j => trace[i].timestamp < trace[j].timestamp

\* The latency figures are the percentiles of the requests that reached the
\* milestone, whatever the order they were submitted in, and they are in order.
PercentilesExact ==
  pc = "done" =>
    \A milestone \in {"first_token_at", "completed_at"} :
      LET sample == Sample(reqs, milestone)
          stats == LatencyStats(sample)
      IN DOMAIN sample # {} =>
           /\ stats.p50 = ReferencePercentile(sample, 50)
           /\ stats.p90 = ReferencePercentile(sample, 90)
           /\ stats.p99 = ReferencePercentile(sample, 99)
           /\ 100 * stats.min <= stats.p50 /\ stats.p50 <= stats.p90
           /\ stats.p90 <= stats.p99 /\ stats.p99 <= 100 * stats.max

\* The simulation comes to an end: run_simulation() leaves its loop when the
\* arrivals fall on ticks of the clock.
SimulationEnds == <>(pc = "done")

\* After the idle jump the next request is due: "idle : jump clock to next
\* arrival" (simulation.cpp).  Fails when the arrival is truncated to a tick.
JumpReachesArrival == [][Jump => Due']_vars
=============================================================================
