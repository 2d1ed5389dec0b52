------------------------- MODULE Simulation_proofs --------------------------
(***************************************************************************)
(* The simulation keeps its invariants for every workload, every cost and  *)
(* every grain of the clock: SimInv is inductive, and each property follows*)
(* from it.                                                                *)
(***************************************************************************)
EXTENDS Simulation, Analysis_proofs

USE SMTT(30)

-----------------------------------------------------------------------------
(* The fields of a request, after each operation on it.                    *)

RequestRecord ==
  [state : RequestStates, emitted : Nat, max_tokens : Nat, prompt : Nat,
   deadline_at : Int, admitted_at : Int, waiting_prefill_at : Int,
   prefilling_at : Int, waiting_decode_at : Int, decoding_at : Int,
   first_token_at : Int, completed_at : Int]

\* emit_token() and the retirement change four fields.
LEMMA DecodedFields ==
  ASSUME NEW r \in RequestRecord, NEW now \in Nat
  PROVE  LET d == Decoded(r, now) IN
         /\ d \in RequestRecord
         /\ d.state = IF r.emitted + 1 >= r.max_tokens THEN "Completed" ELSE "Decoding"
         /\ d.emitted = r.emitted + 1
         /\ d.first_token_at = IF r.first_token_at = Never THEN now ELSE r.first_token_at
         /\ d.completed_at = IF r.emitted + 1 >= r.max_tokens THEN now ELSE r.completed_at
         /\ d.max_tokens = r.max_tokens /\ d.prompt = r.prompt
         /\ d.deadline_at = r.deadline_at /\ d.admitted_at = r.admitted_at
         /\ d.waiting_prefill_at = r.waiting_prefill_at
         /\ d.prefilling_at = r.prefilling_at
         /\ d.waiting_decode_at = r.waiting_decode_at
         /\ d.decoding_at = r.decoding_at
<1>1. Decoded(r, now) \in RequestRecord
  <2>1. ASSUME NEW v \in RequestStates, NEW n \in Nat, NEW t \in Int, NEW u \in Int
        PROVE  [r EXCEPT !.state = v, !.emitted = n, !.first_token_at = t,
                         !.completed_at = u] \in RequestRecord
    BY ZenonT(30) DEF RequestRecord
  <2>2. /\ (IF r.emitted + 1 >= r.max_tokens THEN "Completed" ELSE "Decoding") \in RequestStates
        /\ r.emitted + 1 \in Nat
        /\ (IF r.first_token_at = Never THEN now ELSE r.first_token_at) \in Int
        /\ (IF r.emitted + 1 >= r.max_tokens THEN now ELSE r.completed_at) \in Int
    BY DEF RequestRecord, RequestStates
  <2> QED BY ZenonT(30), <2>1, <2>2 DEF Decoded
<1>2. LET d == Decoded(r, now) IN
      /\ d.state = IF r.emitted + 1 >= r.max_tokens THEN "Completed" ELSE "Decoding"
      /\ d.emitted = r.emitted + 1
      /\ d.first_token_at = IF r.first_token_at = Never THEN now ELSE r.first_token_at
      /\ d.completed_at = IF r.emitted + 1 >= r.max_tokens THEN now ELSE r.completed_at
  BY DEF Decoded, RequestRecord
<1>3. LET d == Decoded(r, now) IN
      /\ d.max_tokens = r.max_tokens /\ d.prompt = r.prompt
      /\ d.deadline_at = r.deadline_at /\ d.admitted_at = r.admitted_at
      /\ d.waiting_prefill_at = r.waiting_prefill_at
      /\ d.prefilling_at = r.prefilling_at
      /\ d.waiting_decode_at = r.waiting_decode_at
      /\ d.decoding_at = r.decoding_at
  BY DEF Decoded, RequestRecord
<1> QED BY ZenonT(30), <1>1, <1>2, <1>3

\* A prefill outcome changes the state and the three milestones it stamps.
LEMMA PromoteFields ==
  ASSUME NEW r \in RequestRecord, NEW now \in Nat
  PROVE  LET d == Promote(r, now) IN
         /\ d \in RequestRecord
         /\ d.state = "Decoding" /\ d.prefilling_at = now
         /\ d.waiting_decode_at = now /\ d.decoding_at = now
         /\ d.emitted = r.emitted /\ d.first_token_at = r.first_token_at
         /\ d.completed_at = r.completed_at
         /\ d.max_tokens = r.max_tokens /\ d.prompt = r.prompt
         /\ d.deadline_at = r.deadline_at /\ d.admitted_at = r.admitted_at
         /\ d.waiting_prefill_at = r.waiting_prefill_at
<1>1. Promote(r, now) \in RequestRecord
  <2>1. "Decoding" \in RequestStates /\ now \in Int
    BY DEF RequestStates
  <2> QED BY ZenonT(30), <2>1 DEF Promote, RequestRecord
<1>2. LET d == Promote(r, now) IN
      /\ d.state = "Decoding" /\ d.prefilling_at = now
      /\ d.waiting_decode_at = now /\ d.decoding_at = now
      /\ d.emitted = r.emitted /\ d.first_token_at = r.first_token_at
      /\ d.completed_at = r.completed_at
  BY DEF Promote, RequestRecord
<1>3. LET d == Promote(r, now) IN
      /\ d.max_tokens = r.max_tokens /\ d.prompt = r.prompt
      /\ d.deadline_at = r.deadline_at /\ d.admitted_at = r.admitted_at
      /\ d.waiting_prefill_at = r.waiting_prefill_at
  BY DEF Promote, RequestRecord
<1> QED BY ZenonT(30), <1>1, <1>2, <1>3

\* Expiry changes the state, and the milestone a waiting request stops over at.
LEMMA ExpireFields ==
  ASSUME NEW r \in RequestRecord, clock \in Nat
  PROVE  LET d == Expire(r) IN
         /\ d \in RequestRecord
         /\ d.state = "Failed"
         /\ d.prefilling_at = IF r.state = "WaitingPrefill" THEN clock ELSE r.prefilling_at
         /\ d.waiting_decode_at = r.waiting_decode_at
         /\ d.decoding_at = r.decoding_at
         /\ d.emitted = r.emitted /\ d.first_token_at = r.first_token_at
         /\ d.completed_at = r.completed_at
         /\ d.max_tokens = r.max_tokens /\ d.prompt = r.prompt
         /\ d.deadline_at = r.deadline_at /\ d.admitted_at = r.admitted_at
         /\ d.waiting_prefill_at = r.waiting_prefill_at
<1>1. Expire(r) \in RequestRecord
  <2>1. ASSUME NEW v \in RequestStates, NEW t \in Int
        PROVE  [r EXCEPT !.state = v, !.prefilling_at = t] \in RequestRecord
    BY ZenonT(30) DEF RequestRecord
  <2>2. /\ "Failed" \in RequestStates
        /\ (IF r.state = "WaitingPrefill" THEN clock ELSE r.prefilling_at) \in Int
    BY DEF RequestRecord, RequestStates
  <2> QED BY ZenonT(30), <2>1, <2>2 DEF Expire
<1>2. LET d == Expire(r) IN
      /\ d.state = "Failed"
      /\ d.prefilling_at = IF r.state = "WaitingPrefill" THEN clock ELSE r.prefilling_at
      /\ d.waiting_decode_at = r.waiting_decode_at
      /\ d.decoding_at = r.decoding_at
      /\ d.emitted = r.emitted /\ d.first_token_at = r.first_token_at
      /\ d.completed_at = r.completed_at
  BY DEF Expire, RequestRecord
<1>3. LET d == Expire(r) IN
      /\ d.max_tokens = r.max_tokens /\ d.prompt = r.prompt
      /\ d.deadline_at = r.deadline_at /\ d.admitted_at = r.admitted_at
      /\ d.waiting_prefill_at = r.waiting_prefill_at
  BY DEF Expire, RequestRecord
<1> QED BY ZenonT(30), <1>1, <1>2, <1>3

\* A request that was just submitted: what it takes from its workload record, and
\* no milestone but the two of the submission.
LEMMA EnqueueFields ==
  ASSUME NEW w \in Entries, clock \in Nat
  PROVE  LET d == Enqueue(NewRequest(w)) IN
         /\ d \in RequestRecord
         /\ d.state = "WaitingPrefill" /\ d.emitted = 0
         /\ d.max_tokens = w.max_tokens /\ d.prompt = w.prompt
         /\ d.deadline_at = clock + w.deadline /\ d.admitted_at = clock
         /\ d.waiting_prefill_at = clock
         /\ d.prefilling_at = Never
         /\ d.waiting_decode_at = Never
         /\ d.decoding_at = Never
         /\ d.first_token_at = Never
         /\ d.completed_at = Never
<1> DEFINE r == NewRequest(w)
<1>1. w \in [arrival : Int, prompt : Nat, max_tokens : Nat \ {0}, deadline : Int]
  BY SimulationAssumption
<1>2. r \in RequestRecord
  BY <1>1 DEF NewRequest, RequestRecord, RequestStates, Never
<1>3. Enqueue(r) \in RequestRecord
  <2>1. "WaitingPrefill" \in RequestStates /\ clock \in Int
    BY DEF RequestStates
  <2> HIDE DEF r
  <2> QED BY ZenonT(30), <1>2, <2>1 DEF Enqueue, RequestRecord
<1>4. LET d == Enqueue(r) IN
      /\ d.state = "WaitingPrefill" /\ d.admitted_at = clock
      /\ d.waiting_prefill_at = clock
      /\ d.emitted = r.emitted /\ d.max_tokens = r.max_tokens /\ d.prompt = r.prompt
      /\ d.deadline_at = r.deadline_at
  <2> HIDE DEF r
  <2> QED BY <1>2 DEF Enqueue, RequestRecord
<1>5. LET d == Enqueue(r) IN
      /\ d.prefilling_at = r.prefilling_at
      /\ d.waiting_decode_at = r.waiting_decode_at /\ d.decoding_at = r.decoding_at
      /\ d.first_token_at = r.first_token_at /\ d.completed_at = r.completed_at
  <2> HIDE DEF r
  <2> QED BY <1>2 DEF Enqueue, RequestRecord
<1>6. /\ r.emitted = 0 /\ r.max_tokens = w.max_tokens /\ r.prompt = w.prompt
      /\ r.deadline_at = clock + w.deadline /\ r.prefilling_at = Never
      /\ r.waiting_decode_at = Never /\ r.decoding_at = Never
      /\ r.first_token_at = Never /\ r.completed_at = Never
  BY DEF NewRequest
<1> HIDE DEF r
<1> QED BY ZenonT(30), <1>3, <1>4, <1>5, <1>6 DEF r

-----------------------------------------------------------------------------
(* The inductive invariant.                                                *)

ReportRecord ==
  [timestamp : Nat, expired_count : Nat, prefill_attempted : Nat,
   prefill_tokens : Nat, decode_attempted : Nat, decode_tokens : Nat,
   decode_completed : Nat]

\* What a request takes over from its workload record, and when it was submitted:
\* not before its arrival, and no more than a tick after it or after the beginning
\* of the run.
Matches(r, w) ==
  /\ r.max_tokens = w.max_tokens /\ r.prompt = w.prompt
  /\ r.deadline_at = r.admitted_at + w.deadline
  /\ r.waiting_prefill_at = r.admitted_at
  /\ w.arrival <= r.admitted_at * Grain
  /\ r.admitted_at * Grain <= ArrivesAt(w) + LongestTick * Grain

\* A request that has not begun to decode: it waits, or its deadline passed while
\* it did.
NotBegun(r, now) ==
  /\ r.state \in {"WaitingPrefill", "Failed"} /\ r.emitted = 0
  /\ IF r.state = "WaitingPrefill" THEN r.prefilling_at = Never
     ELSE /\ r.admitted_at <= r.prefilling_at /\ r.prefilling_at <= now
          /\ r.deadline_at < r.prefilling_at
  /\ r.waiting_decode_at = Never /\ r.decoding_at = Never
  /\ r.first_token_at = Never /\ r.completed_at = Never

\* A request that has, its milestones in order and none after the last report.
Begun(r, wall) ==
  /\ r.state \in {"Decoding", "Completed", "Failed"} /\ 0 < r.emitted
  /\ r.admitted_at <= r.decoding_at
  /\ r.prefilling_at = r.decoding_at /\ r.waiting_decode_at = r.decoding_at
  /\ r.decoding_at <= r.first_token_at /\ r.first_token_at <= wall
  /\ IF r.state = "Completed"
     THEN /\ r.emitted <= r.max_tokens
          /\ r.first_token_at <= r.completed_at /\ r.completed_at <= wall
          /\ r.completed_at <= r.deadline_at + LongestTick
     ELSE r.emitted < r.max_tokens /\ r.completed_at = Never

RequestOK(r, w, now, wall) ==
  /\ 0 <= r.admitted_at /\ r.admitted_at <= now
  /\ Matches(r, w)
  /\ NotBegun(r, now) \/ Begun(r, wall)

Types ==
  /\ workload \in [1 .. Size -> Entries] /\ SortedByArrival(workload)
  /\ clock \in Nat /\ pc \in {"submit", "run", "done"}
  /\ reqs \in Seq(RequestRecord) /\ Len(reqs) <= Size
  /\ reports \in Seq(ReportRecord)

RequestsInv ==
  \A i \in DOMAIN reqs : RequestOK(reqs[i], workload[i], clock, WallTime(reports))

\* Where the event loop is in the workload.
LoopInv ==
  /\ pc = "submit" => \A j \in NextToSubmit .. Size :
                         clock * Grain <= ArrivesAt(workload[j]) + LongestTick * Grain
  /\ pc = "run" => \A j \in NextToSubmit .. Size : clock * Grain < workload[j].arrival
  /\ pc = "run" => MoreToSubmit \/ Live # {}
  /\ pc = "done" => Live = {}

ReportsInv ==
  /\ \A i \in DOMAIN reports : reports[i].timestamp <= clock
  /\ \A i, j \in DOMAIN reports : i < j => reports[i].timestamp < reports[j].timestamp

SimInv == Types /\ RequestsInv /\ LoopInv /\ ReportsInv

-----------------------------------------------------------------------------
(* Arithmetic.                                                             *)

\* Costs and scaled times: products of natural numbers, and their order.
LEMMA Products ==
  /\ \A a, b, c, g \in Nat : a <= b + c => a * g <= b * g + c * g
  /\ \A a, b, c \in Nat : a <= b => c * a <= c * b
  /\ \A a, b \in Nat : a * b \in Nat
<1>1. \A a, b, c, g \in Nat : a <= b + c => a * g <= b * g + c * g
  OBVIOUS
<1>2. \A a, b, c \in Nat : a <= b => c * a <= c * b
  OBVIOUS
<1>3. \A a, b \in Nat : a * b \in Nat
  OBVIOUS
<1> QED BY <1>1, <1>2, <1>3

\* The tick at or before an arrival is not before a time that the arrival is after.
LEMMA Division ==
  ASSUME NEW a \in Nat, NEW g \in Nat \ {0}, NEW c \in Nat, c * g <= a
  PROVE  a \div g \in Nat /\ (a \div g) * g <= a /\ c <= a \div g
<1>1. a \div g \in Nat /\ (a \div g) * g <= a /\ a < (a \div g) * g + g
  OBVIOUS
<1> QED BY <1>1

-----------------------------------------------------------------------------
(* The tick.                                                               *)

\* Sequences as functions.
LEMMA SeqAsFunction ==
  ASSUME NEW S, NEW n \in Nat, NEW f \in [1 .. n -> S]
  PROVE  f \in Seq(S) /\ Len(f) = n /\ DOMAIN f = 1 .. n
OBVIOUS

\* Where the requests are, and where their records.
LEMMA Domains ==
  ASSUME Types
  PROVE  /\ Len(reqs) \in Nat /\ DOMAIN reqs = 1 .. Len(reqs)
         /\ IsFiniteSet(DOMAIN reqs)
         /\ \A i \in DOMAIN reqs : reqs[i] \in RequestRecord
         /\ Size \in Nat /\ DOMAIN workload = 1 .. Size /\ Len(workload) = Size
         /\ DOMAIN reqs \subseteq DOMAIN workload /\ IsFiniteSet(DOMAIN workload)
         /\ \A j \in DOMAIN workload :
              /\ workload[j] \in Entries
              /\ workload[j].arrival \in Int /\ workload[j].prompt \in Nat
              /\ ArrivesAt(workload[j]) \in Nat
              /\ workload[j].arrival <= ArrivesAt(workload[j])
              /\ workload[j].max_tokens \in Nat /\ 0 < workload[j].max_tokens
              /\ workload[j].deadline \in Int
<1>1. Len(reqs) \in Nat /\ DOMAIN reqs = 1 .. Len(reqs)
  BY DEF Types
<1>2. \A i \in DOMAIN reqs : reqs[i] \in RequestRecord
  BY <1>1 DEF Types
<1>3. Size \in Nat /\ DOMAIN workload = 1 .. Size
  BY SimulationAssumption DEF Types
<1>4. Len(workload) = Size
  BY <1>3, SeqAsFunction DEF Types
<1>5. IsFiniteSet(DOMAIN reqs) /\ IsFiniteSet(DOMAIN workload)
  BY <1>1, <1>3, FS_Interval
<1>6. DOMAIN reqs \subseteq DOMAIN workload
  BY <1>1, <1>3 DEF Types
<1>7. ASSUME NEW j \in DOMAIN workload
      PROVE  workload[j] \in [arrival : Int, prompt : Nat, max_tokens : Nat \ {0},
                              deadline : Int]
  BY <1>3, SimulationAssumption DEF Types
<1>8. ASSUME NEW j \in DOMAIN workload PROVE workload[j] \in Entries
  BY <1>3 DEF Types
<1>9. ASSUME NEW j \in DOMAIN workload
      PROVE  ArrivesAt(workload[j]) \in Nat /\ workload[j].arrival <= ArrivesAt(workload[j])
  BY <1>7 DEF ArrivesAt
<1> QED BY <1>1, <1>2, <1>3, <1>4, <1>5, <1>6, <1>7, <1>8, <1>9

\* A sum of the prompts of any requests is within the sum over the workload.
LEMMA LongestTickType == ASSUME Types PROVE LongestTick \in Nat
<1> DEFINE f == [j \in DOMAIN workload |-> workload[j].prompt]
<1>1. \A j \in DOMAIN workload : f[j] \in Nat
  BY Domains
<1>2. LongestTick = DecodeCost + PrefillCost * SumFunctionOnSet(f, DOMAIN workload)
  BY DEF LongestTick, SumFunction
<1> HIDE DEF f
<1>3. SumFunctionOnSet(f, DOMAIN workload) \in Nat
  BY <1>1, Domains, SumType
<1> QED BY <1>2, <1>3, Products, SimulationAssumption


\* A tick takes time, and no more than one in which every prompt is prefilled.
LEMMA TickTimes ==
  ASSUME Types, RequestsInv
  PROVE  /\ Prompts \in Nat /\ Prefilled \in Nat /\ TickEnd \in Nat
         /\ clock <= Prefilled /\ Prefilled < TickEnd
         /\ TickEnd <= clock + LongestTick
<1> DEFINE f == [j \in DOMAIN workload |-> workload[j].prompt]
           p == [i \in Fresh |-> reqs[i].prompt]
<1>1. Fresh \subseteq DOMAIN reqs
  BY DEF Fresh, Served, Live, Waiting, Decoding
<1>2. Fresh \subseteq DOMAIN workload
  BY <1>1, Domains
<1>3. \A j \in DOMAIN workload : f[j] \in Nat
  BY Domains
<1>4. \A i \in Fresh : p[i] \in Nat /\ p[i] <= f[i]
  <2> SUFFICES ASSUME NEW i \in Fresh PROVE p[i] \in Nat /\ p[i] <= f[i]
    OBVIOUS
  <2>1. p[i] = reqs[i].prompt /\ f[i] = workload[i].prompt
    BY <1>2
  <2>2. reqs[i].prompt = workload[i].prompt
    BY <1>1 DEF RequestsInv, RequestOK, Matches
  <2> QED BY <2>1, <2>2, <1>2, Domains
<1>5. LongestTick = DecodeCost + PrefillCost * SumFunctionOnSet(f, DOMAIN workload)
  BY DEF LongestTick, SumFunction
<1>6. Prompts = SumFunctionOnSet(p, Fresh)
  BY DEF Prompts, SumFunction
<1> HIDE DEF f, p
<1>7. IsFiniteSet(DOMAIN workload) /\ IsFiniteSet(Fresh)
  BY <1>2, Domains, FS_Subset
<1>8. /\ SumFunctionOnSet(f, DOMAIN workload) \in Nat
      /\ SumFunctionOnSet(p, Fresh) \in Nat
      /\ SumFunctionOnSet(p, Fresh) <= SumFunctionOnSet(f, DOMAIN workload)
  BY <1>2, <1>3, <1>4, <1>7, SumType, SumMonotone
<1>9. /\ PrefillCost * Prompts \in Nat
      /\ PrefillCost * Prompts <= PrefillCost * SumFunctionOnSet(f, DOMAIN workload)
      /\ PrefillCost * SumFunctionOnSet(f, DOMAIN workload) \in Nat
  BY <1>6, <1>8, Products, SimulationAssumption
<1>10. clock \in Nat
  BY DEF Types
<1> QED BY <1>5, <1>6, <1>8, <1>9, <1>10, SimulationAssumption DEF Prefilled, TickEnd

\* The wall time has come.
LEMMA WallTimeType ==
  ASSUME Types, ReportsInv
  PROVE  WallTime(reports) \in Nat /\ WallTime(reports) <= clock
<1>1. CASE reports = <<>>
  BY <1>1 DEF WallTime, Types
<1>2. CASE reports # <<>>
  <2>1. Len(reports) \in DOMAIN reports
    BY <1>2 DEF Types
  <2>2. reports[Len(reports)] \in ReportRecord
    BY <2>1 DEF Types
  <2> QED BY <1>2, <2>1, <2>2 DEF WallTime, ReportsInv, ReportRecord
<1> QED BY <1>1, <1>2

\* What one tick makes of one request.
LEMMA AfterTickInv ==
  ASSUME SimInv, NEW i \in DOMAIN reqs
  PROVE  /\ AfterTick(i) \in RequestRecord
         /\ RequestOK(AfterTick(i), workload[i], TickEnd, TickEnd)
         /\ AfterTick(i).emitted = IF i \in Served THEN reqs[i].emitted + 1 ELSE reqs[i].emitted
         /\ AfterTick(i).prompt = reqs[i].prompt
         /\ AfterTick(i).decoding_at # Never <=> reqs[i].decoding_at # Never \/ i \in Fresh
<1>1. /\ TickEnd \in Nat /\ Prefilled \in Nat /\ clock \in Nat /\ LongestTick \in Nat
      /\ clock <= Prefilled /\ Prefilled < TickEnd /\ TickEnd <= clock + LongestTick
  BY TickTimes, LongestTickType DEF SimInv, Types
<1>2. reqs[i] \in RequestRecord
  BY Domains DEF SimInv
<1>3. RequestOK(reqs[i], workload[i], clock, WallTime(reports))
  BY DEF SimInv, RequestsInv
<1>4. WallTime(reports) \in Nat /\ WallTime(reports) <= clock
  BY WallTimeType DEF SimInv
<1>5. Fresh \subseteq Served /\ Served \subseteq Live
  BY DEF Fresh, Served
<1>6. CASE i \in Fresh
  <2>1. reqs[i].state = "WaitingPrefill" /\ clock <= reqs[i].deadline_at
    BY <1>6, <1>1, <1>2 DEF Fresh, Served, Waiting, Expired, RequestRecord
  <2>2. NotBegun(reqs[i], clock)
    BY <1>3, <2>1 DEF RequestOK, Begun
  <2> DEFINE r == reqs[i]
             q == Promote(r, Prefilled)
             d == Decoded(q, TickEnd)
  <2>3. AfterTick(i) = d
    BY ZenonT(30), <1>5, <1>6 DEF AfterTick
  <2>4. /\ q \in RequestRecord
        /\ q.state = "Decoding" /\ q.prefilling_at = Prefilled
        /\ q.waiting_decode_at = Prefilled /\ q.decoding_at = Prefilled
        /\ q.emitted = r.emitted /\ q.first_token_at = r.first_token_at
        /\ q.completed_at = r.completed_at
        /\ q.max_tokens = r.max_tokens /\ q.prompt = r.prompt
        /\ q.deadline_at = r.deadline_at /\ q.admitted_at = r.admitted_at
        /\ q.waiting_prefill_at = r.waiting_prefill_at
    BY ZenonT(30), <1>1, <1>2, PromoteFields
  <2> HIDE DEF q
  <2>5. /\ d \in RequestRecord
        /\ d.state = IF q.emitted + 1 >= q.max_tokens THEN "Completed" ELSE "Decoding"
        /\ d.emitted = q.emitted + 1
        /\ d.first_token_at = IF q.first_token_at = Never THEN TickEnd ELSE q.first_token_at
        /\ d.completed_at = IF q.emitted + 1 >= q.max_tokens THEN TickEnd ELSE q.completed_at
        /\ d.max_tokens = q.max_tokens /\ d.prompt = q.prompt
        /\ d.deadline_at = q.deadline_at /\ d.admitted_at = q.admitted_at
        /\ d.waiting_prefill_at = q.waiting_prefill_at
        /\ d.prefilling_at = q.prefilling_at
        /\ d.waiting_decode_at = q.waiting_decode_at
        /\ d.decoding_at = q.decoding_at
    BY ZenonT(30), <1>1, <2>4, DecodedFields
  <2> HIDE DEF d, r
  <2>6. r = reqs[i]
    BY DEF r
  <2>7. /\ r \in RequestRecord /\ NotBegun(r, clock) /\ clock <= r.deadline_at
        /\ RequestOK(r, workload[i], clock, WallTime(reports))
    BY <2>1, <2>2, <2>6, <1>2, <1>3
  <2>8. 0 < r.max_tokens
    BY <2>7, Domains DEF SimInv, RequestOK, Matches
  <2>9. d.emitted = r.emitted + 1 /\ d.prompt = r.prompt /\ d.decoding_at # Never
    BY <1>1, <2>4, <2>5 DEF Never
  <2>10. Matches(d, workload[i]) /\ 0 <= d.admitted_at /\ d.admitted_at <= TickEnd
    BY <1>1, <2>4, <2>5, <2>7 DEF RequestOK, Matches, RequestRecord
  <2>11. Begun(d, TickEnd)
    BY <1>1, <2>4, <2>5, <2>7, <2>8 DEF RequestOK, NotBegun, Begun, RequestRecord
  <2> QED BY <1>5, <1>6, <2>3, <2>5, <2>6, <2>9, <2>10, <2>11 DEF RequestOK
<1>7. CASE i \in Served \ Fresh
  <2>1. reqs[i].state = "Decoding" /\ clock <= reqs[i].deadline_at
    BY <1>7, <1>1, <1>2 DEF Fresh, Served, Live, Decoding, Waiting, Expired, RequestRecord
  <2>2. Begun(reqs[i], WallTime(reports))
    BY <1>3, <2>1 DEF RequestOK, NotBegun
  <2> DEFINE r == reqs[i]
             d == Decoded(r, TickEnd)
  <2>3. AfterTick(i) = d
    BY ZenonT(30), <1>7 DEF AfterTick
  <2>4. /\ d \in RequestRecord
        /\ d.state = IF r.emitted + 1 >= r.max_tokens THEN "Completed" ELSE "Decoding"
        /\ d.emitted = r.emitted + 1
        /\ d.first_token_at = IF r.first_token_at = Never THEN TickEnd ELSE r.first_token_at
        /\ d.completed_at = IF r.emitted + 1 >= r.max_tokens THEN TickEnd ELSE r.completed_at
        /\ d.max_tokens = r.max_tokens /\ d.prompt = r.prompt
        /\ d.deadline_at = r.deadline_at /\ d.admitted_at = r.admitted_at
        /\ d.waiting_prefill_at = r.waiting_prefill_at
        /\ d.prefilling_at = r.prefilling_at
        /\ d.waiting_decode_at = r.waiting_decode_at
        /\ d.decoding_at = r.decoding_at
    BY ZenonT(30), <1>1, <1>2, DecodedFields
  <2> HIDE DEF d, r
  <2>5. r = reqs[i]
    BY DEF r
  <2>6. /\ r \in RequestRecord /\ Begun(r, WallTime(reports)) /\ clock <= r.deadline_at
        /\ RequestOK(r, workload[i], clock, WallTime(reports)) /\ r.state = "Decoding"
    BY <2>1, <2>2, <2>5, <1>2, <1>3
  <2>7. d.emitted = r.emitted + 1 /\ d.prompt = r.prompt
        /\ d.decoding_at # Never /\ r.decoding_at # Never
    BY <2>4, <2>6 DEF Never, Begun, RequestOK, RequestRecord
  <2>8. Matches(d, workload[i]) /\ 0 <= d.admitted_at /\ d.admitted_at <= TickEnd
    BY <1>1, <2>4, <2>6 DEF RequestOK, Matches, RequestRecord
  <2>9. Begun(d, TickEnd)
    BY <1>1, <1>4, <2>4, <2>6 DEF Begun, RequestOK, RequestRecord, Never
  <2> QED BY <1>7, <2>3, <2>4, <2>5, <2>7, <2>8, <2>9 DEF RequestOK
<1>8. CASE i \in Live \ Served
  <2>1. reqs[i].state \in {"WaitingPrefill", "Decoding"} /\ reqs[i].deadline_at < clock
    BY <1>1, <1>2, <1>8 DEF Served, Expired, Live, Decoding, Waiting, RequestRecord
  <2> DEFINE r == reqs[i]
             d == Expire(r)
  <2>2. AfterTick(i) = d
    BY ZenonT(30), <1>5, <1>8 DEF AfterTick
  <2>3. /\ d \in RequestRecord
        /\ d.state = "Failed"
        /\ d.prefilling_at = IF r.state = "WaitingPrefill" THEN clock ELSE r.prefilling_at
        /\ d.waiting_decode_at = r.waiting_decode_at
        /\ d.decoding_at = r.decoding_at
        /\ d.emitted = r.emitted /\ d.first_token_at = r.first_token_at
        /\ d.completed_at = r.completed_at
        /\ d.max_tokens = r.max_tokens /\ d.prompt = r.prompt
        /\ d.deadline_at = r.deadline_at /\ d.admitted_at = r.admitted_at
        /\ d.waiting_prefill_at = r.waiting_prefill_at
    BY ZenonT(30), <1>1, <1>2, ExpireFields
  <2> HIDE DEF d, r
  <2>4. r = reqs[i]
    BY DEF r
  <2>5. /\ r \in RequestRecord /\ r.state \in {"WaitingPrefill", "Decoding"}
        /\ r.deadline_at < clock
        /\ RequestOK(r, workload[i], clock, WallTime(reports))
    BY <2>1, <2>4, <1>2, <1>3
  <2>6. Matches(d, workload[i]) /\ 0 <= d.admitted_at /\ d.admitted_at <= TickEnd
    BY <1>1, <2>3, <2>5 DEF RequestOK, Matches, RequestRecord
  <2>7. NotBegun(d, TickEnd) \/ Begun(d, TickEnd)
    <3>1. CASE NotBegun(r, clock)
      BY <1>1, <2>3, <2>5, <3>1 DEF NotBegun, RequestOK, RequestRecord
    <3>2. CASE Begun(r, WallTime(reports))
      BY <1>1, <1>4, <2>3, <2>5, <3>2 DEF Begun, RequestRecord
    <3> QED BY <2>5, <3>1, <3>2 DEF RequestOK
  <2>8. i \notin Served /\ i \notin Fresh
    BY <1>5, <1>8
  <2> QED BY <2>2, <2>3, <2>4, <2>6, <2>7, <2>8 DEF RequestOK
<1>9. CASE i \notin Live
  <2>1. AfterTick(i) = reqs[i]
    BY ZenonT(30), <1>5, <1>9 DEF AfterTick
  <2> DEFINE r == reqs[i]
  <2>2. r \in RequestRecord /\ RequestOK(r, workload[i], clock, WallTime(reports))
    BY <1>2, <1>3
  <2>3. i \notin Served /\ i \notin Fresh
    BY <1>5, <1>9
  <2> HIDE DEF r
  <2>4. RequestOK(r, workload[i], TickEnd, TickEnd)
    <3>1. CASE NotBegun(r, clock)
      <4>1. NotBegun(r, TickEnd)
        BY <1>1, <2>2, <3>1 DEF NotBegun, RequestRecord
      <4> QED BY <1>1, <2>2, <4>1 DEF RequestOK, RequestRecord
    <3>2. CASE Begun(r, WallTime(reports))
      <4>1. Begun(r, TickEnd)
        BY <1>1, <1>4, <2>2, <3>2 DEF Begun, RequestRecord
      <4> QED BY <1>1, <2>2, <4>1 DEF RequestOK, RequestRecord
    <3> QED BY <2>2, <3>1, <3>2 DEF RequestOK
  <2> QED BY <2>1, <2>2, <2>3, <2>4 DEF r
<1> QED BY <1>5, <1>6, <1>7, <1>8, <1>9


\* The report of a tick.
LEMMA ReportType ==
  ASSUME SimInv
  PROVE  /\ Report \in ReportRecord /\ Report.timestamp = TickEnd
         /\ Report.decode_tokens = Cardinality(Served) /\ Report.prefill_tokens = Prompts
<1>1. Live \subseteq DOMAIN reqs /\ Fresh \subseteq Live /\ Served \subseteq Live
  BY DEF Live, Waiting, Decoding, Fresh, Served
<1>2. IsFiniteSet(DOMAIN reqs)
  BY Domains DEF SimInv
<1>3. ASSUME NEW S, S \subseteq DOMAIN reqs PROVE Cardinality(S) \in Nat
  BY <1>2, <1>3, FS_Subset, FS_CardinalityType
<1>4. Live \ Served \subseteq DOMAIN reqs
      /\ {i \in Served : AfterTick(i).state = "Completed"} \subseteq DOMAIN reqs
      /\ Fresh \subseteq DOMAIN reqs /\ Served \subseteq DOMAIN reqs
  BY <1>1
<1>5. ASSUME NEW a \in Nat, NEW b \in Nat, NEW c \in Nat, NEW d \in Nat, NEW f \in Nat,
             NEW g \in Nat, NEW h \in Nat
      PROVE  [timestamp |-> a, expired_count |-> b, prefill_attempted |-> c,
              prefill_tokens |-> d, decode_attempted |-> f, decode_tokens |-> g,
              decode_completed |-> h] \in ReportRecord
  BY DEF ReportRecord
<1>6. TickEnd \in Nat /\ Prompts \in Nat
  BY TickTimes DEF SimInv
<1>7. Report \in ReportRecord
  BY ZenonT(30), <1>3, <1>4, <1>5, <1>6 DEF Report, MergedTimestamp
<1> QED BY ZenonT(30), <1>7 DEF Report, MergedTimestamp

\* The reports after a tick: one more, later than all before.
LEMMA ReportsStep ==
  ASSUME SimInv, Tick
  PROVE  /\ reports' \in Seq(ReportRecord) /\ WallTime(reports') = TickEnd
         /\ Len(reports') = Len(reports) + 1 /\ DOMAIN reports' = 1 .. Len(reports) + 1
         /\ \A i \in DOMAIN reports : reports'[i] = reports[i]
         /\ DOMAIN reports = 1 .. Len(reports) /\ Len(reports) \in Nat
         /\ reports'[Len(reports) + 1] = Report
         /\ ReportsInv'
<1>1. reports \in Seq(ReportRecord) /\ Report \in ReportRecord
  BY ReportType DEF SimInv, Types
<1>2. reports' = Append(reports, Report)
  BY DEF Tick
<1>3. /\ reports' \in Seq(ReportRecord) /\ Len(reports') = Len(reports) + 1
      /\ \A i \in DOMAIN reports : reports'[i] = reports[i]
      /\ reports'[Len(reports) + 1] = Report
      /\ DOMAIN reports = 1 .. Len(reports) /\ Len(reports) \in Nat
  BY <1>1, <1>2
<1>4. DOMAIN reports' = 1 .. Len(reports) + 1
  BY <1>3
<1>5. reports' # <<>>
  BY <1>3
<1>6. WallTime(reports') = TickEnd
  BY <1>3, <1>5, ReportType DEF WallTime
<1>7. clock' = TickEnd
  BY DEF Tick
<1>8. ASSUME NEW i \in DOMAIN reports
      PROVE  reports[i].timestamp \in Nat /\ reports[i].timestamp < TickEnd
  <2>1. reports[i] \in ReportRecord
    BY <1>1, <1>3
  <2>2. reports[i].timestamp \in Nat
    BY <2>1 DEF ReportRecord
  <2> QED BY <2>2, TickTimes DEF SimInv, Types, ReportsInv
<1>9. ASSUME NEW i \in DOMAIN reports'
      PROVE  i \in DOMAIN reports \/ i = Len(reports) + 1
  BY <1>3, <1>4
<1>10. \A i \in DOMAIN reports' : reports'[i].timestamp <= clock'
  BY <1>3, <1>7, <1>8, <1>9, ReportType, TickTimes DEF SimInv
<1>11. ASSUME NEW i \in DOMAIN reports', NEW j \in DOMAIN reports', i < j
       PROVE  reports'[i].timestamp < reports'[j].timestamp
  <2>1. i \in DOMAIN reports
    BY <1>3, <1>4, <1>11
  <2>2. CASE j \in DOMAIN reports
    BY <2>1, <2>2, <1>3, <1>11 DEF SimInv, ReportsInv
  <2>3. CASE j = Len(reports) + 1
    BY <2>1, <2>3, <1>3, <1>8, ReportType
  <2> QED BY <1>9, <2>2, <2>3
<1> QED BY <1>3, <1>4, <1>6, <1>10, <1>11 DEF ReportsInv

-----------------------------------------------------------------------------
(* The steps keep the invariant.                                           *)

\* The loop starts at time 0 with nothing submitted.
LEMMA InitSim == ASSUME Init PROVE SimInv
<1>1. Types
  BY SimulationAssumption DEF Init, Types
<1>2. DOMAIN reqs = {} /\ DOMAIN reports = {}
  BY DEF Init
<1>3. RequestsInv /\ ReportsInv
  BY <1>2 DEF RequestsInv, ReportsInv
<1>4. LoopInv
  <2>1. \A j \in NextToSubmit .. Size : clock * Grain <= ArrivesAt(workload[j]) + LongestTick * Grain
    <3> SUFFICES ASSUME NEW j \in NextToSubmit .. Size
                 PROVE  clock * Grain <= ArrivesAt(workload[j]) + LongestTick * Grain
      OBVIOUS
    <3>1. j \in DOMAIN workload
      BY <1>1, Domains DEF Init, NextToSubmit
    <3>2. LongestTick * Grain \in Nat
      BY <1>1, LongestTickType, Products, SimulationAssumption
    <3>3. clock * Grain = 0
      BY SimulationAssumption DEF Init
    <3> QED BY <1>1, <3>1, <3>2, <3>3, Domains
  <2> QED BY <2>1 DEF LoopInv, Init
<1> QED BY <1>1, <1>3, <1>4 DEF SimInv

\* A tick keeps the invariant: it lasts no longer than the longest one.
LEMMA TickSim == ASSUME SimInv, Tick PROVE SimInv'
<1>1. /\ TickEnd \in Nat /\ clock \in Nat /\ LongestTick \in Nat
      /\ TickEnd <= clock + LongestTick
  BY TickTimes, LongestTickType DEF SimInv, Types
<1>2. /\ clock' = TickEnd /\ workload' = workload /\ pc' = "submit" /\ pc = "run"
      /\ reqs' = [i \in DOMAIN reqs |-> AfterTick(i)]
  BY DEF Tick
<1>3. reqs' \in Seq(RequestRecord) /\ Len(reqs') = Len(reqs) /\ DOMAIN reqs' = DOMAIN reqs
  <2>1. Len(reqs) \in Nat /\ DOMAIN reqs = 1 .. Len(reqs)
    BY Domains DEF SimInv
  <2>2. reqs' \in [1 .. Len(reqs) -> RequestRecord]
    BY <1>2, <2>1, AfterTickInv
  <2> QED BY <2>1, <2>2, SeqAsFunction
<1>4. Types'
  BY <1>1, <1>2, <1>3, ReportsStep DEF SimInv, Types
<1>5. LongestTick' = LongestTick
  BY <1>2 DEF LongestTick
<1>6. RequestsInv'
  <2> SUFFICES ASSUME NEW i \in DOMAIN reqs
               PROVE  RequestOK(reqs[i], workload[i], clock, WallTime(reports))'
    BY <1>3 DEF RequestsInv
  <2>1. reqs'[i] = AfterTick(i)
    BY <1>2
  <2>2. RequestOK(AfterTick(i), workload[i], TickEnd, TickEnd)
    BY AfterTickInv
  <2>3. WallTime(reports') = TickEnd
    BY ReportsStep
  <2> QED BY ZenonT(30), <2>1, <2>2, <2>3, <1>2, <1>5 DEF RequestOK, Matches, NotBegun, Begun
<1>7. LoopInv'
  <2>1. NextToSubmit' = NextToSubmit
    BY <1>3 DEF NextToSubmit
  <2>2. ASSUME NEW j \in NextToSubmit .. Size
        PROVE  TickEnd * Grain <= ArrivesAt(workload[j]) + LongestTick * Grain
    <3>1. clock * Grain < workload[j].arrival
      BY <1>2 DEF SimInv, LoopInv
    <3>2. j \in DOMAIN workload
      BY Domains DEF SimInv, NextToSubmit
    <3>3. TickEnd * Grain <= clock * Grain + LongestTick * Grain
      BY <1>1, Products, SimulationAssumption
    <3>4. /\ workload[j].arrival \in Int /\ clock * Grain \in Nat
          /\ ArrivesAt(workload[j]) \in Nat /\ workload[j].arrival <= ArrivesAt(workload[j])
          /\ TickEnd * Grain \in Nat /\ LongestTick * Grain \in Nat
      BY <1>1, <3>2, Domains, Products, SimulationAssumption DEF SimInv
    <3> QED BY <3>1, <3>3, <3>4
  <2> QED BY <1>2, <1>5, <2>1, <2>2 DEF LoopInv
<1> QED BY <1>4, <1>6, <1>7, ReportsStep DEF SimInv

\* A submission keeps the invariant: a request that is due has waited for no more
\* than the tick that ended now.
LEMMA SubmitSim == ASSUME SimInv, Submit PROVE SimInv'
<1> DEFINE n == Len(reqs)
           w == workload[n + 1]
           d == Enqueue(NewRequest(w))
<1>1. /\ pc = "submit" /\ reqs' = Append(reqs, d)
      /\ n + 1 <= Len(workload) /\ w.arrival <= clock * Grain
      /\ workload' = workload /\ clock' = clock /\ reports' = reports /\ pc' = pc
  BY DEF Submit, Due, MoreToSubmit, NextToSubmit
<1>2. /\ n \in Nat /\ DOMAIN reqs = 1 .. n /\ Size \in Nat /\ DOMAIN workload = 1 .. Size
      /\ n + 1 \in DOMAIN workload /\ n < Size
  BY <1>1, Domains DEF SimInv
<1>3. w \in Entries /\ w.deadline \in Int /\ w.arrival \in Int
  BY <1>2, Domains DEF SimInv
<1>4. /\ d \in RequestRecord
      /\ d.state = "WaitingPrefill" /\ d.emitted = 0
      /\ d.max_tokens = w.max_tokens /\ d.prompt = w.prompt
      /\ d.deadline_at = clock + w.deadline /\ d.admitted_at = clock
      /\ d.waiting_prefill_at = clock
      /\ d.prefilling_at = Never
      /\ d.waiting_decode_at = Never
      /\ d.decoding_at = Never
      /\ d.first_token_at = Never
      /\ d.completed_at = Never
  BY ZenonT(30), <1>3, EnqueueFields DEF SimInv, Types
<1> HIDE DEF d
<1>5. /\ reqs' \in Seq(RequestRecord) /\ Len(reqs') = n + 1 /\ DOMAIN reqs' = 1 .. n + 1
      /\ \A i \in DOMAIN reqs : reqs'[i] = reqs[i]
      /\ reqs'[n + 1] = d
  BY <1>1, <1>2, <1>4 DEF SimInv, Types
<1>6. Types'
  BY <1>1, <1>2, <1>5 DEF SimInv, Types
<1>7. LongestTick' = LongestTick
  BY <1>1 DEF LongestTick
<1>8. clock * Grain <= ArrivesAt(w) + LongestTick * Grain
  BY <1>1, <1>2 DEF SimInv, LoopInv, NextToSubmit
<1>9. RequestOK(d, w, clock, WallTime(reports))
  <2>1. Matches(d, w)
    BY <1>1, <1>3, <1>4, <1>8 DEF Matches
  <2>2. NotBegun(d, clock)
    BY <1>4 DEF NotBegun
  <2> QED BY <1>4, <2>1, <2>2 DEF RequestOK, SimInv, Types
<1>10. RequestsInv'
  <2> SUFFICES ASSUME NEW i \in DOMAIN reqs'
               PROVE  RequestOK(reqs[i], workload[i], clock, WallTime(reports))'
    BY DEF RequestsInv
  <2>1. RequestOK(reqs'[i], workload[i], clock, WallTime(reports))
    <3>1. CASE i \in DOMAIN reqs
      BY <3>1, <1>5 DEF SimInv, RequestsInv
    <3>2. CASE i = n + 1
      BY <3>2, <1>5, <1>9
    <3> QED BY <1>2, <1>5, <3>1, <3>2
  <2> QED BY ZenonT(30), <2>1, <1>1, <1>7 DEF RequestOK, Matches, NotBegun, Begun
<1>11. LoopInv'
  <2>1. NextToSubmit' = n + 2 /\ NextToSubmit = n + 1
    BY <1>2, <1>5 DEF NextToSubmit
  <2>2. \A j \in n + 2 .. Size : clock * Grain <= ArrivesAt(workload[j]) + LongestTick * Grain
    BY <1>1, <1>2, <2>1 DEF SimInv, LoopInv
  <2> QED BY <1>1, <1>7, <2>1, <2>2 DEF LoopInv
<1>12. ReportsInv'
  BY <1>1 DEF SimInv, ReportsInv
<1> QED BY <1>6, <1>10, <1>11, <1>12 DEF SimInv

\* A step that leaves the requests and the reports alone, and does not turn the
\* clock back.
LEMMA KeepRequests ==
  ASSUME SimInv, clock' \in Nat, clock <= clock', UNCHANGED <<workload, reqs, reports>>
  PROVE  RequestsInv' /\ ReportsInv'
<1>1. workload' = workload /\ reqs' = reqs /\ reports' = reports /\ clock \in Nat
  BY DEF SimInv, Types
<1>2. LongestTick' = LongestTick
  BY <1>1 DEF LongestTick
<1>3. ASSUME NEW i \in DOMAIN reqs
      PROVE  RequestOK(reqs[i], workload[i], clock, WallTime(reports))'
  <2>1. reqs[i] \in RequestRecord
    BY Domains DEF SimInv
  <2>2. RequestOK(reqs[i], workload[i], clock, WallTime(reports))
    BY DEF SimInv, RequestsInv
  <2>3. ASSUME NotBegun(reqs[i], clock) PROVE NotBegun(reqs[i], clock')
    BY <1>1, <2>1, <2>3 DEF NotBegun, RequestRecord
  <2>4. reqs[i].admitted_at <= clock'
    BY <1>1, <2>1, <2>2 DEF RequestOK, RequestRecord
  <2>5. RequestOK(reqs[i], workload[i], clock', WallTime(reports))
    BY <2>2, <2>3, <2>4 DEF RequestOK
  <2> QED BY ZenonT(30), <2>5, <1>1, <1>2 DEF RequestOK, Matches, NotBegun, Begun
<1>4. RequestsInv'
  BY <1>1, <1>3 DEF RequestsInv
<1>5. ReportsInv'
  <2>1. ASSUME NEW i \in DOMAIN reports PROVE reports[i].timestamp <= clock'
    <3>1. reports[i] \in ReportRecord
      BY DEF SimInv, Types
    <3>2. reports[i].timestamp \in Nat
      BY <3>1 DEF ReportRecord
    <3> QED BY <1>1, <3>2 DEF SimInv, ReportsInv
  <2> QED BY <1>1, <2>1 DEF SimInv, ReportsInv
<1> QED BY <1>4, <1>5

\* The end of the submission loop keeps it: the next record is not due, so none
\* of the later ones is.
LEMMA SubmitDoneSim == ASSUME SimInv, SubmitDone PROVE SimInv'
<1>1. /\ pc = "submit" /\ ~Due /\ pc' = IF MoreToSubmit \/ Live # {} THEN "run" ELSE "done"
      /\ workload' = workload /\ clock' = clock /\ reqs' = reqs /\ reports' = reports
  BY DEF SubmitDone
<1>2. Types'
  BY <1>1 DEF SimInv, Types
<1>3. RequestsInv' /\ ReportsInv'
  BY <1>1, KeepRequests DEF SimInv, Types
<1>4. ASSUME NEW j \in NextToSubmit .. Size PROVE clock * Grain < workload[j].arrival
  <2>1. /\ NextToSubmit \in DOMAIN workload /\ j \in DOMAIN workload /\ MoreToSubmit
        /\ NextToSubmit <= j
    BY Domains DEF SimInv, NextToSubmit, MoreToSubmit
  <2>2. clock * Grain \in Nat
    BY Products, SimulationAssumption DEF SimInv, Types
  <2>3. clock * Grain < workload[NextToSubmit].arrival
    BY <1>1, <2>1, <2>2, Domains DEF Due, SimInv
  <2>4. workload[NextToSubmit].arrival <= workload[j].arrival
    <3>1. CASE NextToSubmit = j
      BY <3>1, <2>1, Domains DEF SimInv
    <3>2. CASE NextToSubmit # j
      <4>1. NextToSubmit < j
        BY <3>2, <2>1, Domains DEF SimInv
      <4> QED BY <4>1, <2>1 DEF SimInv, Types, SortedByArrival
    <3> QED BY <3>1, <3>2
  <2> QED BY <2>1, <2>2, <2>3, <2>4, Domains DEF SimInv
<1>5. NextToSubmit' = NextToSubmit /\ (MoreToSubmit' <=> MoreToSubmit) /\ Live' = Live
  BY <1>1 DEF NextToSubmit, MoreToSubmit, Live, Waiting, Decoding
<1>6. LoopInv'
  BY <1>1, <1>4, <1>5 DEF LoopInv
<1> QED BY <1>2, <1>3, <1>6 DEF SimInv

\* The idle jump never turns the clock back: what is not submitted is yet to arrive.
LEMMA JumpSim == ASSUME SimInv, Jump PROVE SimInv'
<1> DEFINE a == workload[NextToSubmit].arrival
<1>1. /\ pc = "run" /\ Live = {} /\ clock' = a \div Grain /\ pc' = "submit"
      /\ workload' = workload /\ reqs' = reqs /\ reports' = reports
  BY DEF Jump
<1>2. /\ NextToSubmit \in DOMAIN workload /\ NextToSubmit \in NextToSubmit .. Size
      /\ DOMAIN workload = 1 .. Size /\ Size \in Nat /\ NextToSubmit \in Nat \ {0}
  BY <1>1, Domains DEF SimInv, LoopInv, MoreToSubmit, NextToSubmit
<1>3. a \in Nat /\ clock \in Nat /\ clock * Grain < a
  <2>1. a \in Int /\ clock \in Nat /\ clock * Grain < a
    BY <1>1, <1>2, Domains DEF SimInv, Types, LoopInv
  <2>2. clock * Grain \in Nat
    BY <2>1, Products, SimulationAssumption
  <2> QED BY <2>1, <2>2
<1> HIDE DEF a
<1>4. clock' \in Nat /\ clock <= clock' /\ clock' * Grain <= a
  <2>1. clock * Grain \in Nat
    BY <1>3, Products, SimulationAssumption
  <2>2. clock * Grain <= a
    BY <1>3, <2>1
  <2> QED BY <1>1, <1>3, <2>2, Division, SimulationAssumption
<1>5. Types'
  BY <1>1, <1>4 DEF SimInv, Types
<1>6. RequestsInv' /\ ReportsInv'
  BY <1>1, <1>4, KeepRequests
<1>7. ASSUME NEW j \in NextToSubmit .. Size
      PROVE  clock' * Grain <= ArrivesAt(workload[j]) + LongestTick * Grain
  <2>1. LongestTick * Grain \in Nat /\ clock' * Grain \in Nat
    <3>1. LongestTick \in Nat /\ clock' \in Nat /\ Grain \in Nat
      BY <1>4, LongestTickType, SimulationAssumption DEF SimInv
    <3> QED BY ZenonT(30), <3>1, Products
  <2>2. /\ j \in DOMAIN workload /\ workload[j].arrival \in Int
        /\ ArrivesAt(workload[j]) \in Nat /\ workload[j].arrival <= ArrivesAt(workload[j])
    BY <1>2, Domains DEF SimInv
  <2>3. a <= workload[j].arrival
    <3>1. CASE j = NextToSubmit
      BY <3>1, <1>3 DEF a
    <3>2. CASE j # NextToSubmit
      <4>1. NextToSubmit < j
        BY <3>2, <1>2
      <4> QED BY <4>1, <1>2, <2>2 DEF SimInv, Types, SortedByArrival, a
    <3> QED BY <3>1, <3>2
  <2> QED BY <1>3, <1>4, <2>1, <2>2, <2>3
<1>8. NextToSubmit' = NextToSubmit /\ LongestTick' = LongestTick
  BY <1>1 DEF NextToSubmit, LongestTick
<1>9. LoopInv'
  BY <1>1, <1>7, <1>8 DEF LoopInv
<1> QED BY <1>5, <1>6, <1>9 DEF SimInv

\* The invariant holds throughout.
THEOREM SimulationInvariance == Spec => []SimInv
<1>1. Init => SimInv
  BY InitSim
<1>2. SimInv /\ [Next]_vars => SimInv'
  <2> SUFFICES ASSUME SimInv, [Next]_vars PROVE SimInv'
    OBVIOUS
  <2>1. CASE Submit BY <2>1, SubmitSim
  <2>2. CASE SubmitDone BY <2>2, SubmitDoneSim
  <2>3. CASE Tick BY <2>3, TickSim
  <2>4. CASE Jump BY <2>4, JumpSim
  <2>5. CASE UNCHANGED vars
    <3>1. /\ workload' = workload /\ clock' = clock /\ reqs' = reqs /\ reports' = reports
          /\ pc' = pc
      BY <2>5 DEF vars
    <3>2. /\ Types' /\ NextToSubmit' = NextToSubmit /\ LongestTick' = LongestTick
          /\ Live' = Live /\ (MoreToSubmit' <=> MoreToSubmit)
      BY <3>1 DEF SimInv, Types, NextToSubmit, LongestTick, Live, Waiting, Decoding,
                  MoreToSubmit
    <3>3. LoopInv'
      BY <3>1, <3>2 DEF SimInv, LoopInv
    <3>4. RequestsInv' /\ ReportsInv'
      BY <3>1, KeepRequests DEF SimInv, Types
    <3> QED BY <3>2, <3>3, <3>4 DEF SimInv
  <2> QED BY <2>1, <2>2, <2>3, <2>4, <2>5 DEF Next
<1> QED BY <1>1, <1>2, PTL DEF Spec


-----------------------------------------------------------------------------
(* What the invariant says of a run.                                       *)

\* The milestones of a request, and the tokens it got.
LEMMA Milestones ==
  ASSUME SimInv, NEW i \in DOMAIN reqs
  PROVE  LET r == reqs[i]
             wall == WallTime(reports)
         IN /\ r \in RequestRecord /\ wall \in Nat /\ wall <= clock /\ clock \in Nat
            /\ 0 <= r.admitted_at /\ r.admitted_at <= clock
            /\ r.waiting_prefill_at = r.admitted_at
            /\ r.prefilling_at \in {Never} \cup (0 .. clock)
            /\ r.waiting_decode_at \in {Never} \cup (0 .. clock)
            /\ r.decoding_at \in {Never} \cup (0 .. clock)
            /\ r.first_token_at \in {Never} \cup (r.admitted_at .. wall)
            /\ r.completed_at \in {Never} \cup (r.admitted_at .. wall)
            /\ r.completed_at # Never =>
                 /\ r.state = "Completed" /\ r.completed_at <= r.deadline_at + LongestTick
                 /\ r.first_token_at # Never /\ r.first_token_at <= r.completed_at
                 /\ r.prefilling_at = r.decoding_at /\ r.waiting_decode_at = r.decoding_at
                 /\ r.decoding_at # Never
            /\ r.state = "Completed" => r.completed_at # Never
            /\ r.emitted <= r.max_tokens
            /\ r.state \in {"WaitingPrefill", "Decoding", "Completed", "Failed"}
<1> DEFINE r == reqs[i]
           wall == WallTime(reports)
<1>1. /\ r \in RequestRecord /\ wall \in Nat /\ wall <= clock /\ clock \in Nat
      /\ LongestTick \in Nat
  BY Domains, WallTimeType, LongestTickType DEF SimInv, Types
<1>2. RequestOK(r, workload[i], clock, wall)
  BY DEF SimInv, RequestsInv
<1> HIDE DEF r, wall
<1>3. CASE NotBegun(r, clock)
  BY <1>1, <1>2, <1>3 DEF RequestOK, Matches, NotBegun, RequestRecord, Never, r, wall
<1>4. CASE Begun(r, wall)
  <2>1. CASE r.state = "Completed"
    BY <1>1, <1>2, <1>4, <2>1 DEF RequestOK, Matches, Begun, RequestRecord, Never, r, wall
  <2>2. CASE r.state # "Completed"
    BY <1>1, <1>2, <1>4, <2>2 DEF RequestOK, Matches, Begun, RequestRecord, Never, r, wall
  <2> QED BY <2>1, <2>2
<1> QED BY ZenonT(30), <1>2, <1>3, <1>4 DEF RequestOK

\* Every record keeps its shape, and no time in it lies in the future.
THEOREM SimulationTypes == Spec => []TypeOK
<1>1. SimInv => TypeOK
  <2> SUFFICES ASSUME SimInv PROVE TypeOK
    OBVIOUS
  <2>1. clock \in Nat /\ pc \in {"submit", "run", "done"}
    BY DEF SimInv, Types
  <2>2. ASSUME NEW i \in DOMAIN reports PROVE reports[i].timestamp \in 0 .. clock
    <3>1. reports[i] \in ReportRecord
      BY DEF SimInv, Types
    <3>2. reports[i].timestamp \in Nat
      BY <3>1 DEF ReportRecord
    <3> QED BY <2>1, <3>2 DEF SimInv, ReportsInv
  <2>3. ASSUME NEW i \in DOMAIN reqs
        PROVE  LET Milestone == {Never} \cup (0 .. clock) IN
               reqs[i] \in [state : RequestStates, emitted : Nat, max_tokens : Nat,
                            prompt : Nat, deadline_at : Int, admitted_at : 0 .. clock,
                            waiting_prefill_at : 0 .. clock, prefilling_at : Milestone,
                            waiting_decode_at : Milestone, decoding_at : Milestone,
                            first_token_at : Milestone, completed_at : Milestone]
    <3> DEFINE r == reqs[i]
               M == {Never} \cup (0 .. clock)
    <3>1. r \in RequestRecord
      BY Milestones
    <3>2. /\ r.admitted_at \in 0 .. clock /\ r.waiting_prefill_at \in 0 .. clock
          /\ r.prefilling_at \in M /\ r.waiting_decode_at \in M /\ r.decoding_at \in M
          /\ r.first_token_at \in M /\ r.completed_at \in M
      BY Milestones, <3>1 DEF RequestRecord
    <3> HIDE DEF r, M
    <3>3. r \in [state : RequestStates, emitted : Nat, max_tokens : Nat,
                 prompt : Nat, deadline_at : Int, admitted_at : 0 .. clock,
                 waiting_prefill_at : 0 .. clock, prefilling_at : M,
                 waiting_decode_at : M, decoding_at : M,
                 first_token_at : M, completed_at : M]
      BY <3>1, <3>2 DEF RequestRecord
    <3> QED BY <3>3 DEF r, M
  <2> QED BY ZenonT(30), <2>1, <2>2, <2>3 DEF TypeOK
<1> QED BY <1>1, SimulationInvariance, PTL

\* A run that ends passes its own check: main() returns 0.
THEOREM EndsCleanAlways == Spec => []EndsClean
<1>1. SimInv => EndsClean
  <2> SUFFICES ASSUME SimInv, pc = "done" PROVE ExitCode(reqs) = 0
    BY DEF EndsClean
  <2>1. ASSUME NEW i \in DOMAIN reqs, i \in Violations(reqs) PROVE FALSE
    <3> DEFINE r == reqs[i]
    <3>1. i \notin Waiting /\ i \notin Decoding
      BY DEF SimInv, LoopInv, Live
    <3>2. r.state \in {"Completed", "Failed"}
      BY <3>1, Milestones DEF Waiting, Decoding
    <3>3. IsTerminal(r.state)
      BY <3>2 DEF IsTerminal, TerminalStates
    <3>4. /\ ~Swapped(r.admitted_at, r.first_token_at)
          /\ ~Swapped(r.first_token_at, r.completed_at)
          /\ ~Swapped(r.admitted_at, r.completed_at)
          /\ ~(r.emitted > r.max_tokens)
      BY Milestones DEF Swapped, RequestRecord, Never
    <3> QED BY ZenonT(30), <2>1, <3>3, <3>4 DEF Violations
  <2>2. Violations(reqs) = {}
    BY <2>1 DEF Violations
  <2> QED BY <2>2 DEF ExitCode
<1> QED BY <1>1, SimulationInvariance, PTL

\* No arrival is passed over, and none is submitted early.
THEOREM SubmittedOnArrivalAlways == Spec => []SubmittedOnArrival
<1>1. SimInv => SubmittedOnArrival
  <2> SUFFICES ASSUME SimInv PROVE SubmittedOnArrival
    OBVIOUS
  <2>1. Len(workload) = Size
    BY Domains DEF SimInv
  <2>2. ASSUME pc = "run", NEW j \in NextToSubmit .. Len(workload)
        PROVE  workload[j].arrival > clock * Grain
    <3>1. clock * Grain < workload[j].arrival
      BY <2>1, <2>2 DEF SimInv, LoopInv
    <3> QED BY <3>1
  <2>3. ASSUME NEW i \in DOMAIN reqs
        PROVE  workload[i].arrival <= reqs[i].admitted_at * Grain
    BY DEF SimInv, RequestsInv, RequestOK, Matches
  <2> QED BY <2>2, <2>3 DEF SubmittedOnArrival
<1> QED BY <1>1, SimulationInvariance, PTL

\* The last report is not before anything that happened to a request.
THEOREM WallTimeCoversRunAlways == Spec => []WallTimeCoversRun
<1>1. SimInv => WallTimeCoversRun
  <2> SUFFICES ASSUME SimInv, NEW i \in DOMAIN reqs
               PROVE  /\ reqs[i].first_token_at <= WallTime(reports)
                      /\ reqs[i].completed_at <= WallTime(reports)
    BY DEF WallTimeCoversRun
  <2> QED BY Milestones DEF Never, RequestRecord
<1> QED BY <1>1, SimulationInvariance, PTL

\* A request is never more than the longest tick past its deadline when it completes.
THEOREM OverrunBoundedAlways == Spec => []OverrunBounded
<1>1. SimInv => OverrunBounded
  BY Milestones DEF OverrunBounded
<1> QED BY <1>1, SimulationInvariance, PTL

\* What is printed for a request, completed or not, accounts for its time.
THEOREM BreakdownAddsUpAlways == Spec => []BreakdownAddsUp
<1>1. SimInv => BreakdownAddsUp
  <2> SUFFICES ASSUME SimInv, pc = "done", NEW i \in DOMAIN reqs
               PROVE  LET b == Breakdown(reqs[i]) IN
                      /\ 0 <= b.queue_time
                      /\ IF 0 < reqs[i].emitted
                         THEN 0 <= b.prefill_time /\ b.queue_time + b.prefill_time <= b.ttft
                         ELSE /\ b.prefill_time = Never /\ b.ttft = Never
                              /\ workload[i].deadline < b.queue_time
                      /\ IF reqs[i].state = "Completed"
                         THEN /\ b.queue_time + b.prefill_time + b.decode_time = b.e2e
                              /\ b.ttft <= b.e2e
                         ELSE b.decode_time = Never /\ b.e2e = Never
    BY ZenonT(30) DEF BreakdownAddsUp
  <2> DEFINE r == reqs[i]
             w == workload[i]
             b == Breakdown(r)
             wall == WallTime(reports)
  <2>1. /\ b.queue_time = DurationOrNaN(r.waiting_prefill_at, r.prefilling_at)
        /\ b.prefill_time = DurationOrNaN(r.prefilling_at, r.waiting_decode_at)
        /\ b.decode_time = DurationOrNaN(r.decoding_at, r.completed_at)
        /\ b.ttft = DurationOrNaN(r.admitted_at, r.first_token_at)
        /\ b.e2e = DurationOrNaN(r.admitted_at, r.completed_at)
    BY DEF Breakdown
  <2>2. /\ r \in RequestRecord /\ w.deadline \in Int /\ wall \in Nat
        /\ RequestOK(r, w, clock, wall)
    BY Domains, WallTimeType DEF SimInv, RequestsInv
  <2>3. r.state # "WaitingPrefill"
    BY DEF SimInv, LoopInv, Live, Waiting
  <2> HIDE DEF b, r, w, wall
  <2>4. /\ 0 <= r.admitted_at /\ r.waiting_prefill_at = r.admitted_at
        /\ r.deadline_at = r.admitted_at + w.deadline
    BY <2>2 DEF RequestOK, Matches
  <2> DEFINE Goal ==
        /\ 0 <= b.queue_time
        /\ IF 0 < r.emitted
           THEN 0 <= b.prefill_time /\ b.queue_time + b.prefill_time <= b.ttft
           ELSE b.prefill_time = Never /\ b.ttft = Never /\ w.deadline < b.queue_time
        /\ IF r.state = "Completed"
           THEN b.queue_time + b.prefill_time + b.decode_time = b.e2e /\ b.ttft <= b.e2e
           ELSE b.decode_time = Never /\ b.e2e = Never
  <2>5. ASSUME NotBegun(r, clock) PROVE Goal
    BY <2>1, <2>2, <2>3, <2>4, <2>5 DEF NotBegun, DurationOrNaN, RequestRecord, Never
  <2>6. ASSUME Begun(r, wall), r.state = "Completed" PROVE Goal
    BY <2>1, <2>2, <2>4, <2>6 DEF Begun, DurationOrNaN, RequestRecord, Never
  <2>7. ASSUME Begun(r, wall), r.state # "Completed" PROVE Goal
    BY <2>1, <2>2, <2>4, <2>7 DEF Begun, DurationOrNaN, RequestRecord, Never
  <2>8. Goal
    <3> HIDE DEF Goal
    <3> QED BY ZenonT(30), <2>2, <2>5, <2>6, <2>7 DEF RequestOK
  <2> QED BY <2>8 DEF b, r, w
<1> QED BY <1>1, SimulationInvariance, PTL


-----------------------------------------------------------------------------
(* Deadlines counted from the arrival and from the submission.             *)

\* Times in units of arrivals are ordered as in ticks of the clock.
LEMMA ScaledTimes ==
  ASSUME NEW g \in Nat \ {0}, NEW a \in Int, NEW b \in Int
  PROVE  /\ a * g \in Int /\ (a + b) * g = a * g + b * g
         /\ a <= b <=> a * g <= b * g
OBVIOUS

\* A request that is on time from its arrival is so from its submission, and one
\* that is so from its submission is at most a tick late from its arrival, or from
\* the beginning of the run.
LEMMA OnTimeBounds ==
  ASSUME SimInv, NEW i \in DOMAIN reqs
  PROVE  /\ OnTime(i, workload[i].arrival, 0) => MetDeadline(reqs[i])
         /\ MetDeadline(reqs[i]) => OnTime(i, ArrivesAt(workload[i]), LongestTick)
<1> DEFINE r == reqs[i]
           w == workload[i]
<1>1. /\ r \in RequestRecord /\ Matches(r, w) /\ LongestTick \in Nat
      /\ w.arrival \in Int /\ ArrivesAt(w) \in Nat /\ w.deadline \in Int
      /\ Grain \in Nat \ {0}
  BY Domains, LongestTickType, SimulationAssumption DEF SimInv, RequestsInv, RequestOK
<1>2. /\ OnTime(i, workload[i].arrival, 0) <=>
           /\ r.completed_at # Never
           /\ r.completed_at * Grain <= w.arrival + (w.deadline + 0) * Grain
      /\ OnTime(i, ArrivesAt(workload[i]), LongestTick) <=>
           /\ r.completed_at # Never
           /\ r.completed_at * Grain <= ArrivesAt(w) + (w.deadline + LongestTick) * Grain
  BY DEF OnTime
<1> HIDE DEF r, w
<1>3. /\ r.completed_at \in Int /\ r.admitted_at \in Int
      /\ r.deadline_at = r.admitted_at + w.deadline /\ r.deadline_at \in Int
      /\ w.arrival <= r.admitted_at * Grain
      /\ r.admitted_at * Grain <= ArrivesAt(w) + LongestTick * Grain
  BY <1>1 DEF Matches, RequestRecord
<1>4. /\ r.completed_at * Grain \in Int /\ r.admitted_at * Grain \in Int
      /\ w.deadline * Grain \in Int /\ LongestTick * Grain \in Int
      /\ r.deadline_at * Grain = r.admitted_at * Grain + w.deadline * Grain
      /\ (w.deadline + LongestTick) * Grain = w.deadline * Grain + LongestTick * Grain
      /\ r.completed_at <= r.deadline_at <=> r.completed_at * Grain <= r.deadline_at * Grain
      /\ (w.deadline + 0) * Grain = w.deadline * Grain
  <2>1. w.deadline + 0 = w.deadline
    BY <1>1
  <2> QED BY <1>1, <1>3, <2>1, ScaledTimes
<1>5. OnTime(i, workload[i].arrival, 0) => MetDeadline(r)
  BY <1>1, <1>2, <1>3, <1>4 DEF MetDeadline
<1>6. MetDeadline(r) => OnTime(i, ArrivesAt(workload[i]), LongestTick)
  BY <1>1, <1>2, <1>3, <1>4 DEF MetDeadline
<1> QED BY <1>5, <1>6 DEF r

\* The requests that count as attaining are those of docs/adr/010, and some that
\* are late by no more than one tick.
THEOREM AttainmentWithinOneTickAlways == Spec => []AttainmentWithinOneTick
<1>1. SimInv => AttainmentWithinOneTick
  <2> SUFFICES ASSUME SimInv
               PROVE  /\ OnTimeFromArrival \subseteq Attaining(reqs)
                      /\ \A i \in Attaining(reqs) :
                           OnTime(i, ArrivesAt(workload[i]), LongestTick)
    BY ZenonT(30) DEF AttainmentWithinOneTick
  <2>1. ASSUME NEW i \in OnTimeFromArrival PROVE i \in Attaining(reqs)
    <3>1. i \in DOMAIN reqs /\ OnTime(i, workload[i].arrival, 0)
      BY DEF OnTimeFromArrival
    <3>2. reqs[i].completed_at # Never
      BY <3>1 DEF OnTime
    <3>3. IsTerminal(reqs[i].state)
      BY <3>1, <3>2, Milestones DEF IsTerminal, TerminalStates
    <3>4. MetDeadline(reqs[i])
      BY ZenonT(30), <3>1, OnTimeBounds
    <3> QED BY <3>1, <3>3, <3>4 DEF Attaining, Terminal
  <2>2. ASSUME NEW i \in Attaining(reqs)
        PROVE  OnTime(i, ArrivesAt(workload[i]), LongestTick)
    <3>1. i \in DOMAIN reqs /\ MetDeadline(reqs[i])
      BY DEF Attaining, Terminal
    <3> QED BY ZenonT(30), <3>1, OnTimeBounds
  <2> QED BY <2>1, <2>2
<1> QED BY <1>1, SimulationInvariance, PTL


-----------------------------------------------------------------------------
(* The trace and the summaries.                                            *)

BegunSet == {i \in DOMAIN reqs : reqs[i].decoding_at # Never}
DecodeTokens == [i \in DOMAIN reports |-> reports[i].decode_tokens]
PrefillTokens == [i \in DOMAIN reports |-> reports[i].prefill_tokens]
Emitted == [i \in DOMAIN reqs |-> reqs[i].emitted]
PromptOf == [i \in DOMAIN reqs |-> reqs[i].prompt]

\* The two sums of the trace, against those of the summaries.
Books ==
  /\ SumFunctionOnSet(DecodeTokens, DOMAIN reports) = SumFunctionOnSet(Emitted, DOMAIN reqs)
  /\ SumFunctionOnSet(PrefillTokens, DOMAIN reports) = SumFunctionOnSet(PromptOf, BegunSet)

\* The terms of the sums are natural numbers, and there are finitely many.
LEMMA BooksTypes ==
  ASSUME Types
  PROVE  /\ \A i \in DOMAIN reqs : Emitted[i] = reqs[i].emitted /\ Emitted[i] \in Nat
                                   /\ PromptOf[i] = reqs[i].prompt /\ PromptOf[i] \in Nat
         /\ \A i \in DOMAIN reports :
              /\ DecodeTokens[i] = reports[i].decode_tokens /\ DecodeTokens[i] \in Nat
              /\ PrefillTokens[i] = reports[i].prefill_tokens /\ PrefillTokens[i] \in Nat
         /\ IsFiniteSet(DOMAIN reports) /\ IsFiniteSet(DOMAIN reqs) /\ IsFiniteSet(BegunSet)
         /\ BegunSet \subseteq DOMAIN reqs
<1>1. ASSUME NEW i \in DOMAIN reqs PROVE reqs[i].emitted \in Nat /\ reqs[i].prompt \in Nat
  BY Domains DEF RequestRecord
<1>2. ASSUME NEW i \in DOMAIN reports
      PROVE  reports[i].decode_tokens \in Nat /\ reports[i].prefill_tokens \in Nat
  <2>1. reports[i] \in ReportRecord
    BY DEF Types
  <2> QED BY <2>1 DEF ReportRecord
<1>3. DOMAIN reports = 1 .. Len(reports) /\ Len(reports) \in Nat
  BY DEF Types
<1>4. IsFiniteSet(DOMAIN reports)
  BY <1>3, FS_Interval
<1>5. BegunSet \subseteq DOMAIN reqs
  BY DEF BegunSet
<1>6. IsFiniteSet(DOMAIN reqs) /\ IsFiniteSet(BegunSet)
  BY <1>5, Domains, FS_Subset
<1> QED BY <1>1, <1>2, <1>4, <1>5, <1>6 DEF Emitted, PromptOf, DecodeTokens, PrefillTokens

\* Nothing has happened: all four sums are empty.
LEMMA InitBooks == ASSUME Init PROVE Books
<1>1. DOMAIN reqs = {} /\ DOMAIN reports = {} /\ BegunSet = {}
  BY DEF Init, BegunSet
<1> QED BY <1>1, SumEmpty DEF Books

\* A new request has no token and has not begun.
LEMMA SubmitBooks == ASSUME SimInv, Books, Submit PROVE Books'
<1> DEFINE n == Len(reqs)
           d == Enqueue(NewRequest(workload[n + 1]))
<1>1. Types /\ Types'
  BY SubmitSim DEF SimInv
<1>2. reqs' = Append(reqs, d) /\ reports' = reports /\ n + 1 <= Len(workload)
  BY DEF Submit, Due, MoreToSubmit, NextToSubmit
<1>3. workload[n + 1] \in Entries /\ clock \in Nat /\ n \in Nat /\ DOMAIN reqs = 1 .. n
  BY <1>1, <1>2, Domains DEF Types
<1>4. d \in RequestRecord /\ d.emitted = 0 /\ d.decoding_at = Never
  BY ZenonT(30), <1>3, EnqueueFields
<1> HIDE DEF d
<1>5. /\ DOMAIN reqs' = DOMAIN reqs \cup {n + 1} /\ n + 1 \notin DOMAIN reqs
      /\ \A i \in DOMAIN reqs : reqs'[i] = reqs[i]
      /\ reqs'[n + 1] = d
  BY <1>1, <1>2, <1>3, <1>4 DEF Types
<1> HIDE DEF n
<1>6. BegunSet' = BegunSet
  BY <1>4, <1>5 DEF BegunSet
<1>7. \A i \in DOMAIN reqs : Emitted'[i] = Emitted[i] /\ PromptOf'[i] = PromptOf[i]
  BY <1>5 DEF Emitted, PromptOf
<1>8. Emitted'[n + 1] = 0
  BY <1>4, <1>5 DEF Emitted
<1>9. SumFunctionOnSet(Emitted', DOMAIN reqs') = SumFunctionOnSet(Emitted, DOMAIN reqs)
  <2>1. SumFunctionOnSet(Emitted', DOMAIN reqs \cup {n + 1})
          = Emitted'[n + 1] + SumFunctionOnSet(Emitted, DOMAIN reqs)
    BY <1>1, <1>5, <1>7, <1>8, BooksTypes, SumOneMore
  <2>2. SumFunctionOnSet(Emitted, DOMAIN reqs) \in Nat
    BY <1>1, BooksTypes, SumType
  <2> QED BY <1>5, <1>8, <2>1, <2>2
<1>10. SumFunctionOnSet(PromptOf', BegunSet) = SumFunctionOnSet(PromptOf, BegunSet)
  BY <1>1, <1>7, BooksTypes, SumCongruence
<1>11. DecodeTokens' = DecodeTokens /\ PrefillTokens' = PrefillTokens
  BY <1>2 DEF DecodeTokens, PrefillTokens
<1> QED BY ZenonT(30), <1>2, <1>6, <1>9, <1>10, <1>11 DEF Books

\* A tick gives a token to each request it serves, and every request it
\* prefills begins.
LEMMA TickBooks == ASSUME SimInv, Books, Tick PROVE Books'
<1> DEFINE n == Len(reports)
<1>1. Types /\ Types'
  BY TickSim DEF SimInv
<1>2. /\ DOMAIN reports = 1 .. n /\ DOMAIN reports' = 1 .. n + 1 /\ n \in Nat
      /\ \A i \in DOMAIN reports : reports'[i] = reports[i]
      /\ reports'[n + 1] = Report
  BY ReportsStep
<1>3. DOMAIN reports' = DOMAIN reports \cup {n + 1} /\ n + 1 \notin DOMAIN reports
  BY <1>2
<1> HIDE DEF n
<1>4. /\ \A i \in DOMAIN reports : /\ DecodeTokens'[i] = DecodeTokens[i]
                                   /\ PrefillTokens'[i] = PrefillTokens[i]
      /\ DecodeTokens'[n + 1] = Cardinality(Served) /\ PrefillTokens'[n + 1] = Prompts
  BY <1>2, <1>3, ReportType DEF DecodeTokens, PrefillTokens
<1>5. Cardinality(Served) \in Nat /\ Prompts \in Nat
  <2>1. Served \subseteq DOMAIN reqs
    BY DEF Served, Live, Waiting, Decoding
  <2>2. Cardinality(Served) \in Nat
    BY <1>1, <2>1, Domains, FS_Subset, FS_CardinalityType
  <2> QED BY <2>2, TickTimes DEF SimInv
<1>6. /\ SumFunctionOnSet(DecodeTokens', DOMAIN reports')
           = Cardinality(Served) + SumFunctionOnSet(DecodeTokens, DOMAIN reports)
      /\ SumFunctionOnSet(PrefillTokens', DOMAIN reports')
           = Prompts + SumFunctionOnSet(PrefillTokens, DOMAIN reports)
  BY <1>1, <1>3, <1>4, <1>5, BooksTypes, SumOneMore
<1>7. /\ DOMAIN reqs' = DOMAIN reqs
      /\ \A i \in DOMAIN reqs : reqs'[i] = AfterTick(i)
  BY DEF Tick
<1>8. Served \subseteq DOMAIN reqs /\ Fresh \subseteq DOMAIN reqs
  BY DEF Served, Fresh, Live, Waiting, Decoding
<1>9. SumFunctionOnSet(Emitted', DOMAIN reqs)
        = SumFunctionOnSet(Emitted, DOMAIN reqs) + Cardinality(Served)
  <2>1. \A i \in DOMAIN reqs :
          Emitted'[i] = IF i \in Served THEN Emitted[i] + 1 ELSE Emitted[i]
    BY <1>7, AfterTickInv DEF Emitted
  <2> QED BY <1>1, <1>8, <2>1, BooksTypes, SumCount
<1>10. BegunSet' = BegunSet \cup Fresh
  BY <1>7, <1>8, AfterTickInv DEF BegunSet
<1>11. BegunSet \cap Fresh = {}
  <2> SUFFICES ASSUME NEW i \in Fresh PROVE reqs[i].decoding_at = Never
    BY DEF BegunSet
  <2>1. i \in DOMAIN reqs /\ reqs[i].state = "WaitingPrefill"
    BY DEF Fresh, Waiting
  <2> QED BY <2>1 DEF SimInv, RequestsInv, RequestOK, NotBegun, Begun
<1>12. \A i \in DOMAIN reqs : PromptOf'[i] = PromptOf[i]
  BY <1>7, AfterTickInv DEF PromptOf
<1>13. IsFiniteSet(Fresh)
  BY <1>1, <1>8, Domains, FS_Subset
<1>14. SumFunctionOnSet(PromptOf, BegunSet \cup Fresh)
         = SumFunctionOnSet(PromptOf, BegunSet) + SumFunctionOnSet(PromptOf, Fresh)
  BY <1>1, <1>8, <1>11, <1>13, BooksTypes, SumUnion
<1>15. SumFunctionOnSet(PromptOf', BegunSet \cup Fresh)
         = SumFunctionOnSet(PromptOf, BegunSet \cup Fresh)
  <2>1. IsFiniteSet(BegunSet \cup Fresh) /\ BegunSet \cup Fresh \subseteq DOMAIN reqs
    <3>1. BegunSet \cup Fresh \subseteq DOMAIN reqs
      BY <1>8 DEF BegunSet
    <3>2. IsFiniteSet(DOMAIN reqs)
      BY <1>1, Domains
    <3> QED BY ZenonT(30), <3>1, <3>2, FS_Subset
  <2> QED BY <1>1, <1>12, <2>1, BooksTypes, SumCongruence
<1>16. Prompts = SumFunctionOnSet(PromptOf, Fresh)
  <2> DEFINE p == [i \in Fresh |-> reqs[i].prompt]
  <2>1. Prompts = SumFunctionOnSet(p, Fresh)
    BY DEF Prompts, SumFunction
  <2>2. \A i \in Fresh : PromptOf[i] \in Nat /\ PromptOf[i] = p[i]
    BY <1>1, <1>8, BooksTypes
  <2> HIDE DEF p
  <2> QED BY <1>13, <2>1, <2>2, SumCongruence
<1>17. /\ SumFunctionOnSet(Emitted, DOMAIN reqs) \in Nat
       /\ SumFunctionOnSet(PromptOf, BegunSet) \in Nat
  BY <1>1, BooksTypes, SumType
<1>18. SumFunctionOnSet(DecodeTokens', DOMAIN reports') = SumFunctionOnSet(Emitted', DOMAIN reqs')
  BY <1>5, <1>6, <1>7, <1>9, <1>17 DEF Books
<1>19. SumFunctionOnSet(PrefillTokens', DOMAIN reports') = SumFunctionOnSet(PromptOf', BegunSet')
  BY <1>5, <1>6, <1>10, <1>14, <1>15, <1>16, <1>17 DEF Books
<1> QED BY <1>18, <1>19 DEF Books

\* The trace and the request summaries agree, after every step.
THEOREM TraceAddsUpAlways == Spec => []TraceAddsUp
<1>1. Init => Books
  BY InitBooks
<1>2. SimInv /\ Books /\ [Next]_vars => Books'
  <2> SUFFICES ASSUME SimInv, Books, [Next]_vars PROVE Books'
    OBVIOUS
  <2>1. CASE Submit BY <2>1, SubmitBooks
  <2>2. CASE Tick BY <2>2, TickBooks
  <2>3. CASE SubmitDone \/ Jump \/ UNCHANGED vars
    <3>1. reqs' = reqs /\ reports' = reports
      BY <2>3 DEF SubmitDone, Jump, vars
    <3> QED BY ZenonT(30), <3>1 DEF Books, BegunSet, DecodeTokens, PrefillTokens, Emitted, PromptOf
  <2> QED BY <2>1, <2>2, <2>3 DEF Next
<1>3. SimInv /\ Books => TraceAddsUp
  <2> SUFFICES ASSUME SimInv, Books PROVE TraceAddsUp
    OBVIOUS
  <2> DEFINE trace == [i \in DOMAIN reports |-> MakeTraceEvent(reports[i], i - 1)]
             begun == {i \in DOMAIN reqs : reqs[i].decoding_at # Never}
  <2>1. /\ DOMAIN trace = DOMAIN reports
        /\ \A i \in DOMAIN reports :
             /\ trace[i].decode_tokens = reports[i].decode_tokens
             /\ trace[i].prefill_tokens = reports[i].prefill_tokens
             /\ trace[i].timestamp = reports[i].timestamp
    BY DEF MakeTraceEvent
  <2> HIDE DEF trace
  <2>2. /\ [i \in DOMAIN trace |-> trace[i].decode_tokens] = DecodeTokens
        /\ [i \in DOMAIN trace |-> trace[i].prefill_tokens] = PrefillTokens
    BY <2>1 DEF DecodeTokens, PrefillTokens
  <2>3. ThroughputStats(reqs).total_tokens = SumFunctionOnSet(Emitted, DOMAIN reqs)
    BY DEF ThroughputStats, TokensOf, SumFunction, Emitted
  <2>4. SumFunction([i \in begun |-> reqs[i].prompt]) = SumFunctionOnSet(PromptOf, BegunSet)
    <3> DEFINE p == [i \in begun |-> reqs[i].prompt]
    <3>1. SumFunction(p) = SumFunctionOnSet(p, BegunSet)
      BY DEF SumFunction, BegunSet
    <3>2. \A i \in BegunSet : PromptOf[i] \in Nat /\ PromptOf[i] = p[i]
      BY BooksTypes DEF SimInv, BegunSet
    <3> HIDE DEF p
    <3>3. SumFunctionOnSet(p, BegunSet) = SumFunctionOnSet(PromptOf, BegunSet)
      BY <3>2, BooksTypes, SumCongruence DEF SimInv
    <3> QED BY <3>1, <3>3 DEF p
  <2>5. DOMAIN DecodeTokens = DOMAIN reports /\ DOMAIN PrefillTokens = DOMAIN reports
    BY DEF DecodeTokens, PrefillTokens
  <2>6. /\ SumFunction([i \in DOMAIN trace |-> trace[i].decode_tokens])
             = ThroughputStats(reqs).total_tokens
        /\ SumFunction([i \in DOMAIN trace |-> trace[i].prefill_tokens])
             = SumFunction([i \in begun |-> reqs[i].prompt])
    BY ZenonT(30), <2>2, <2>3, <2>4, <2>5 DEF Books, SumFunction
  <2>7. \A i, j \in DOMAIN trace : i < j => trace[i].timestamp < trace[j].timestamp
    BY <2>1 DEF SimInv, ReportsInv
  <2> QED BY ZenonT(30), <2>6, <2>7 DEF TraceAddsUp, trace
<1> QED BY <1>1, <1>2, <1>3, SimulationInvariance, PTL DEF Spec

\* The latency figures are the percentiles of the requests that reached the
\* milestone: what compute_latency_stats() sorts and interpolates is a sample of
\* durations that are not negative.
THEOREM PercentilesExactAlways == Spec => []PercentilesExact
<1>1. ASSUME SimInv, NEW milestone \in {"first_token_at", "completed_at"}
      PROVE  IsSample(Sample(reqs, milestone))
  <2> DEFINE sample == Sample(reqs, milestone)
             reached == {i \in DOMAIN reqs :
                           reqs[i].admitted_at # Never /\ reqs[i][milestone] # Never}
  <2>1. /\ DOMAIN sample = reached
        /\ \A i \in reached : sample[i] = reqs[i][milestone] - reqs[i].admitted_at
    BY ZenonT(30) DEF Sample
  <2>2. IsFiniteSet(DOMAIN reqs)
    BY <1>1, Domains, FS_Interval DEF SimInv, Types
  <2>3. IsFiniteSet(reached)
    BY <2>2, FS_Subset
  <2>4. ASSUME NEW i \in reached PROVE sample[i] \in Nat
    <3>1. /\ 0 <= reqs[i].admitted_at /\ reqs[i] \in RequestRecord
          /\ WallTime(reports) \in Nat
          /\ reqs[i].first_token_at \in {Never} \cup (reqs[i].admitted_at .. WallTime(reports))
          /\ reqs[i].completed_at \in {Never} \cup (reqs[i].admitted_at .. WallTime(reports))
      BY <1>1, Milestones
    <3>2. reqs[i].admitted_at \in Int
      BY <3>1 DEF RequestRecord
    <3>3. CASE milestone = "first_token_at"
      <4>1. reqs[i].first_token_at # Never
        BY <3>3
      <4>2. sample[i] = reqs[i].first_token_at - reqs[i].admitted_at
        BY ZenonT(30), <2>1, <3>3
      <4> HIDE DEF sample, reached
      <4> QED BY <3>1, <3>2, <4>1, <4>2
    <3>4. CASE milestone = "completed_at"
      <4>1. reqs[i].completed_at # Never
        BY <3>4
      <4>2. sample[i] = reqs[i].completed_at - reqs[i].admitted_at
        BY ZenonT(30), <2>1, <3>4
      <4> HIDE DEF sample, reached
      <4> QED BY <3>1, <3>2, <4>1, <4>2
    <3> QED BY <3>3, <3>4
  <2> QED BY ZenonT(30), <2>1, <2>3, <2>4 DEF IsSample
<1>2. SimInv => PercentilesExact
  BY ZenonT(30), <1>1, LatencyStatsExact DEF PercentilesExact
<1> QED BY <1>2, SimulationInvariance, PTL

=============================================================================
