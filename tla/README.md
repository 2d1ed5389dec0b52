# Tokamak: a TLA+ model of the serving runtime

This directory models the runtime core of Tokamak: the request lifecycle, the
FIFO scheduler over the mock backend, the token channel, the engine thread
that connects clients to the scheduler, the HTTP server, and the simulation loop
with what the program reports of a run. TLC checks the models on small instances;
TLAPS proves every safety property of the passing runs, and that the scheduler
implements its contract, for all instances.
`PROJECT.json` maps every definition to the lines it models.

## The system

| Part | State | Operations | What is hard about it |
|---|---|---|---|
| Request lifecycle (`request/state.*`) | state, timestamps | `transition_to`, `cancel`, `record_first_token` | an illegal edge ends the process |
| Request (`request/request.*`) | deadline, output limit, tokens | `emit_token` | one token over the limit ends the process |
| FIFO scheduler (`scheduler/*`) | all requests, `waiting_`, `decoding_`, `handles_` | `submit`, `cancel`, `tick` (expire, prefill, decode) | loops that change the queues they walk; partial failure of a batch; handles keyed by id |
| Backend (`backend/*`) | live sequences, next handle | `prefill`, `decode`, `release` | panics on a handle it does not know |
| Token channel (`http/token_channel.*`) | bounded buffer, closed flag, condition variable | `try_push`, `pop`, `close` | lost wakeups, delivery after close |
| Engine (`http/engine.*`) | two pending queues, `active_`, per-entry progress and timer | `start`, `stop`, `submit`, `cancel`, the `run` loop | a thread against clients, consumers and an owner; notify without the mutex; backpressure; restart |
| HTTP server (`http/server.*`) | flags, thread pool, io_context | `start`, `stop`, listener, two endpoints | stop against handlers that run or wait; idle and vanished clients; not connected to the engine yet |
| Simulation (`apps/tokamak/simulation.*`) | fake clock, workload index | event loop | truncation of times; termination |
| Analysis (`apps/tokamak/analysis.*`) | none | percentiles, invariant checks, throughput | ends of the sample; agreement with the trace and with what happened |
| Workload loader, telemetry, command line | files | parse, format, print | input and output only |

The engine thread (or the simulation loop) is the only caller of the scheduler;
the scheduler is the only caller of the backend. Client threads reach the engine
through the two pending queues under `submission_mutex_`; the engine reaches the
consumers through one channel per request.

What makes the system correct: a request reaches exactly one terminal state and
emits nothing afterwards; every backend handle is released exactly once; service
is oldest first; nothing panics; a stream holds the request's tokens in order,
complete unless it was cut off, with the finish reason on the last one; every
stream ends; `stop()` returns. The hazards to each of these, with the line where
they bite, are listed in `PROJECT.json`.

## Modules

- `RequestState`: the ten states, the transition table and legal chains of
  transitions.
- `FifoScheduler`: scheduler and backend. One variable per member, plus a
  program counter for `tick()`: `idle`, `expire`, `prefill` (the backend is
  answering), `prefilled` (its outcomes are being handled), `decode`, and
  `panicked`. A step handles one request of the running loop. Each chain of
  `transition_to` calls is checked edge by edge against `RequestState`; a call
  that would panic or throw leads to `panicked`. The history variables `minted`
  (which request a handle was made for) and `late` (what was overdue when the tick
  began) are used only by properties. The clock is reduced to the set of requests
  whose deadline has passed, which may grow at any point of a tick.
- `SchedulerContract`: what the scheduler promises its callers, with a tick as
  one step: every live request ends the tick one token further or terminal.
- `SchedulerRefinement`: how the scheduler implements it. While a tick is running the
  contract's variables are mapped to what was visible before it, which the history
  variable `before` holds, and otherwise to the current values.
- `TokenChannel`: the channel at the granularity of its critical sections. A
  consumer sleeps, is notified, and takes the mutex again as separate steps. The
  repository gives each channel one consumer; the model allows any number, which
  includes that case.
- `Engine`: the engine thread, clients, consumers and owner. A step is one
  access to something shared; the mutex appears only where the engine thread
  holds it across two steps, between finding nothing to do and falling asleep
  (`pc = "sleepy"`). The scheduler is used through `SchedulerContract`, and a
  channel through the atomic operations that `TokenChannel` justifies. Time is
  the aging of a backpressure timer from `fresh` to `old` and the timeout of
  `wait_for`.
- `Server`: the owner, the threads in `ioc_.run()`, one listener coroutine for each
  `start()` and one handler coroutine for each connection. A thread takes a
  coroutine that can go on and executes it up to its next `co_await`, so a step is
  the code between two of them. The `io_context`, the kernel and the clients are
  modelled from how `server.cpp` uses them: a stopped context starts no handler; a
  context without work stops and lets its threads return; a suspended listener
  keeps its acceptor open, so clients can connect to the backlog of a server that
  has been stopped; a client sends a request, or something `http::async_read` reports
  as an error, when the one before was answered, and may hang up at any time. `bind()`
  and a pending accept may fail. A request is its method, target and keep-alive.
- `Analysis`: `check_invariants`, the percentiles, the counts behind throughput,
  goodput and attainment, the times and exit code of `main.cpp`, and
  `make_trace_event`, as operators on request summaries and tick reports. A
  percentile is a number of hundredths, so that interpolation is exact. A sample is a
  function on the requests that reached the milestone, and `Sorted` any listing of its
  values by size, which is all that `std::sort` promises.
- `Simulation`: `run_simulation` over a numeric clock, with every milestone of a
  summary, followed by `Analysis`. The submission loop, the tick and the idle jump
  are steps; the loop condition is tested where it can be false, after the due
  requests are submitted. A tick here is the scheduler's tick with its costs and
  report, and without backend failures, which the runner does not configure.
  Arrivals are in units of `1 / Grain` of a clock tick, because `arrival_ms` is a
  double; the jump divides, which is the truncating `duration_cast`. They may be
  negative, which the loader does not refuse.
- `FifoInvariant`, `FifoService_proofs`, `FifoScheduler_proofs`, `Engine_proofs`,
  `TokenChannel_proofs`, `Server_proofs`, `Analysis_proofs`, `Simulation_proofs`: proofs.
  `FifoScheduler` and `Engine` stay clear of `SequencesExt`: it brings in `Bags`, whose
  definitions make every obligation of these large proofs several times slower. The
  three operators on queues that the scheduler needs are its own.
- `MC...`: instances for TLC. Definitions named `X_Something`, placed before `X`,
  are mutants: plausible mistakes in the code of `X`, each of which makes the
  property it was written for fail.

## Runs

| Run | Shows | Distinct states |
|---|---|---|
| `scheduler` | nine properties of the scheduler, and that it implements `SchedulerContract` | 100,057 |
| `channel` | five properties of the channel | 401 |
| `engine` | streams and entries of two submissions | 2,169,800 |
| `engine_one` | one submission of three tokens, with liveness | 53,636 |
| `simulation` | ten properties of the event loop and its reports | 204,672 |
| `server` | six properties of the HTTP server | 140,226 |
| `scheduler_shared_ids`, `engine_cancel`, `engine_stop_reason`, `engine_shutdown`, `simulation_attainment`, `simulation_jump` | disagreements with the documents, below | stop at the counterexample |

**scheduler.** Three requests, of which one reuses the id of another, with output
limits 2, 1 and 1. This is enough for a batch in which some sequences fail and
others go on, for a request promoted behind one that is decoding, for a deadline
inside each phase, and for an id whose first owner ended in every possible way.
Checked: no panic; queues agree with lifecycles; one live handle per decoding
request, made for it, and no other; submission order; a request that was late
when the tick began is served no more; the tick report adds up; terminal
requests never change; every request ends; and `ImplementsContract`.

**channel.** Three consumers and a capacity of two, so that a consumer can overtake
another that was notified and the buffer can be full; four events. This is more than
the one consumer of each channel in the repository.

**engine**, **engine_one.** Channels of capacity one make backpressure happen on
every second token. Two submissions interact in the drains and loops; a single
one with three tokens has two tokens held back at once. `start()` may be called
twice, so a second run meets what the first one left. Consumers may stop reading
or hang up at any time; a client may cancel once its `submit()` has returned.
Deadlock is not checked in the engine, channel, simulation and server runs, because
a stopped engine or server, a closed channel and a finished simulation do come to
rest.

**simulation.** All sorted workloads of three records: arrivals before the
start, inside the first tick and after an idle gap; empty and longer prompts; one or two tokens;
deadlines that have passed at the submission, that pass in the first tick, and that
fall on the end of a second.
Arrivals are on clock ticks, where the run is shown to end, to pass
`check_invariants`, to submit each request in the first iteration after its arrival,
and to overrun a deadline by no more than one tick. What is reported of it is
compared with what happened: percentiles with order statistics (`PercentilesExact`;
samples of one, two and three values, with ties), the printed times of a request with
each other, with its end-to-end time and, if it never began, with its deadline
(`BreakdownAddsUp`), and the trace with the summaries. Attainment is measured from the
submission, where ADR-010 counts from the arrival: `simulation_attainment` shows that the
two differ, and `AttainmentWithinOneTick` that no request is judged wrongly by more than
the longest tick. `simulation_attainment` has arrivals at the start and inside the first
tick, `simulation_jump` between clock ticks.

**server.** Two threads, so that the listener and a handler, or `stop()` and both, run
at once; a connection of two requests (the second tells whether keep-alive is
honoured) and one that never sends anything; a request with another method than GET and
one with GET, one to be kept alive and one not, and a malformed one; two calls of
`start()`. Checked: from the first `start()` to `stop()` the server listens and has its
threads; a request is answered once; connections end; `stop()` returns, and nothing is
answered after it. `StillListening` excepts a server that was started again, which is
deaf (see Observations); `SilentAfterStop` covers that one. `EveryRequestAnswered` is
about well-formed requests; `ConnectionsEnd` covers what is malformed, for which the code
ends the connection without an answer. Both except a server that was stopped or failed,
and the first a client that hangs up before its request is read.

**Fairness.** The scheduler: a tick that has begun goes on (it is straight-line
code on one thread), and ticks are called while requests are queued (`Engine::run`
and `run_simulation` do so). The channel: a consumer calls `pop()` until it returns
nothing. The engine: its thread is scheduled, `wait_for` times out, time passes for
the backpressure timer, and a `stop()` that was called goes on. Nothing is assumed
of clients and consumers in the engine. The simulation: its one thread goes on. The
server: its threads are scheduled (weak fairness for each), a coroutine that can go on
again and again is taken in the end (strong fairness, because the queue of ready
handlers is first in, first out), and a `stop()` that was called goes on. Clients owe
nothing, and neither does the kernel owe a failure: `AcceptError` has no fairness, and a
coroutine is never ready because it might fail.

**Bounds.** `MaxStarts` bounds the calls of `start()`, `MaxPushes` the events of the
channel run; each request is submitted at most once and cancelled at most once
through the engine. `Size` bounds the workload, `MaxRequests` the requests of a
connection, and `Starts` the calls of `Server::start()`. The other constants are sets of
objects or costs.

## Disagreements found

1. `scheduler_shared_ids`: `handles_` is keyed by id and filled with `emplace`.
   When two live requests have one id, the second handle is neither stored nor
   released. ADR-007 asks for exactly one release on every path.
2. `engine_cancel`: the engine drains submissions, then cancels. A client whose
   `submit()` and `cancel()` both fall in between has its cancel dropped.
3. `engine_stop_reason`: a request that fails while its last token is held back is
   streamed with `kStop`, which is documented as the backend's end of sequence.
4. `engine_shutdown`: `stop()` leaves accepted requests where they are, with
   their channels open.
5. `simulation_attainment`: ADR-010 defines attainment as
   `completed_at <= arrival_ms + deadline_ms`. `compute_throughput_stats` compares with
   `deadline_at`, which is counted from the submission. In the trace a request arrives at
   3, inside a tick that ends at 7, with a deadline of 10. It is submitted at 7, completes
   at 14, after 3 + 10, and is counted.
6. `simulation_jump`: the idle jump truncates the arrival, the arrival test does
   not. With `arrival_ms` 4.1 the clock stops at 4099999 ns, the request is never
   due, and the loop does not end.

## Proofs

All theorems hold for every value of the constants.

The proofs about the scheduler assume `CallerDuties`: callers keep ids unique among
live requests and ask for at least one token. Neither duty can be dropped: see
disagreement 1 for the first, and Observations for the second. `FifoScheduler_proofs` shows that `TypeOK`, `NoPanic`,
`QueuesMatchState` and `HandlesExact` are invariants. None is inductive alone. `IInv`
(in `FifoInvariant`) adds that queued requests have distinct ids (so `handles_` can
tell them apart), that a request that is not terminal has output left (so
`emit_token` cannot panic), and `LoopInv`: during the outcome loops the snapshot being
walked is still the queue (prefill) or a part of it (decode), and the outcomes line up
with it. `RetireFacts`, `RetireKeepsHandles` and `RetireStepInv` carry the argument
shared by all five ways out of the scheduler. `FifoInvariant` has what is needed about
erasing from a queue and the steps of the backend phases, `FifoService_proofs` the other
steps and the lemmas for the next paragraph, and `FifoScheduler_proofs` the theorems.

`TerminalForGood` shows that each step leaves terminal requests alone. `OldestFirst`
needs `OrderInv`, that everything queued has been submitted, and from `LoopInv` that the
snapshot walked after a prefill is the waiting queue: the request promoted is the oldest
one that waits. `LateNeverServed` needs `ExpiryInv`: while expiry runs, what was late and
is still queued is in the list being walked. `ReportAddsUp` needs `ReportInv`: in the
middle of a loop the counters and what is left of the snapshot together are the batch.

`ContractKept` proves `ImplementsContract`: seen from between two ticks, the many steps of
a tick are the one step of `SchedulerContract` on which the engine's model rests. The
argument is `TickInv`, about the middle of a tick. A request that was live when it began
either has its turn ahead (`ToGo`: live, with the tokens it had, and still to be reached
by a loop) or behind it (`Served`: one token further or terminal); any other request is
as it was (`Untouched`). When the decode loop is through, nobody has a turn ahead, so the
step that ends the tick is a tick of the contract. All other steps of a tick are hidden
by `before`; `submit` and `cancel` are steps of the contract as they stand. TLC checked
`TickInv` on the instance of the run first.

`Engine_proofs` shows the safety properties of the engine's runs for any set of
requests, any channel capacities (zero included), any output limits of at least one
token (`EngineAssumption`) and any number of restarts: `BoundedChannels` (`TypeOK`),
`TokensInOrder` (`StreamInOrder`), `ReasonIsLast` (`FinishOnlyLast`), `ReapedInFull`
(`CompletedIsDelivered`), `ErasedIsOver` (`ForgottenIsOver`), `ClosedIsErased`
(`NoTouchAfterClose`) and `TimerMeansBehind` (`TimerOnlyWhenBehind`). They rest on the
scheduler as `SchedulerContract` describes it. `IInv` (in `Engine_proofs`) has four
parts. `LoopInv`: what a loop of the engine thread collected, the timers that ran out or
the requests that finished, is still so when the loop gets to it, whatever clients and
consumers did in between. `CancelInv`: whoever is in the hands of `drain_cancels()` was
cancelled by its client. `Streamed`: the stream of a request, read or buffered, agrees
with the engine's count, the scheduler's count and the lifecycle; `GoodPush` shows that a
push keeps this, and `PopKeepsStream` that reading does. `Accounted`: where a request
stands in `active_`, with its channel and its timer. It is needed because `TickStep`
moves the counts and the lifecycles of all requests at once, and a stream stays right only
if terminal requests get no more tokens. TLC checked `IInv` on the instances of both
engine runs before it was proved.

`Server_proofs`: for any numbers of threads, connections, requests and calls of
`start()`, `OneAnswerEach` (`TypeOK`), `ListensWhileRunning` (`StillListening`) and
`StoppedIsSilent` (`SilentAfterStop`). `IInv` adds that a request in a socket may still
be answered (`RoomForAnswer`), where the owner stands and what that says of the context
(`RunInv`: outside of a run it is stopped if it was ever started, and a restarted server
has a stopped context in which no thread executes anything), that a thread has returned
only from a stopped context (`ThreadsInv`), and that a first listener is at work unless
an error shows in `failed` (`ListenerInv`).

`TokenChannel_proofs`: `TypeOK`, `Fifo`, `NoLostWakeup` and `EndMeansDrained` are
inductive together, for any number of consumers, any capacity and any number of
events.

`Simulation_proofs`: for workloads of any size, any costs and any grain of the clock,
under `SimulationAssumption` (arrivals and deadlines are integers, sizes and costs
natural numbers, every request may emit a token, and a decode takes time), each invariant of the run: `SimulationTypes`
(`TypeOK`), and with the suffix `Always` `EndsClean`, `SubmittedOnArrival`,
`WallTimeCoversRun`, `OverrunBounded`, `BreakdownAddsUp`, `AttainmentWithinOneTick`,
`TraceAddsUp` and `PercentilesExact`. They do not need arrivals on clock ticks, which only
`SimulationEnds` does. `SimInv` is inductive:

- `RequestsInv`: a request agrees with its workload record, was submitted no earlier than
  it could be (`ArrivesAt`: its arrival, or the beginning of the run for a negative one)
  and no more than a tick later. Either it has not begun to decode, and if it is over its
  deadline had passed, or it has its milestones in order, none after the last report. A
  completed one is no more than a tick late.
- `LoopInv`: where the loop stands. The bound on the submission needs it: before the
  submission loop, the clock is no more than the longest tick past any arrival still to
  come, because before the tick none of them was due.
- `ReportsInv`: reports are stamped in order, and not in the future.

TLC found no violation of `SimInv` on the instances of `simulation` and
`simulation_jump`.
`TraceAddsUpAlways` adds `Books`, that at every moment the tokens of all reports are the
tokens of all requests; a tick adds the same amount to both sides.

`Analysis_proofs` has the lemmas on sums over finite sets that `Books` needs (removing an
element, splitting, adding one to some of the terms), and `LatencyStatsExact`: for a
sample of any size, what `compute_latency_stats` reports are the percentiles, and they are
in order. `SortedIsOrderStatistic` counts: the values below that at a place of the sorted
sample have smaller ranks, so there are few enough of them. Interpolation is then a mean
of two neighbours (`PercentileIsMean`), and the reference, a mean of a hundred
nearest-rank values, takes the same two with the same weights (`RankShares`,
`RankElsewhere`). Induction over a finite set is replaced by a smallest
counterexample, whose existence is `MinimalSubset`.

Only model-checked are the liveness properties (`EveryRequestTerminates`,
`EverythingDelivered`, `EveryStreamEnds`, `SimulationEnds`, `EveryRequestAnswered`,
`ConnectionsEnd`, and `StopReturns` of the engine and of the server): liveness under
fairness is out of the prover's reach.

## Observations

What the models show of the code without contradicting a property that is checked:

- The three transitions of a successful prefill are made after the backend has
  returned, so `prefill_time` is always zero and `queue_time` contains the cost of the
  prefill; `BreakdownAddsUp` shows that nothing is lost or counted twice. Project.md
  asks for queue and prefill time to be measured separately.
- A request with an output limit of zero, which neither `load_workload()` nor
  `Engine::submit()` refuses, is prefilled and decoded like any other, and `emit_token()`
  ends the process on its first token.
- `Server::stop()` leaves `ioc_` stopped, so the threads of a second `start()` return at
  once and a server whose `is_running()` is true answers nobody. It leaves the suspended listener and its acceptor in place: clients still reach
  the backlog and hang. It does not clear `ready_`.
- After an error of `bind()` or accept `is_running()` is true and nobody listens.

## Not modelled

- Reading and parsing of files and arguments, formatting, printing, JSON and the trace
  writer: no state that a property could be about.
- Prompt contents, token values and priorities, which the code stores and never looks
  at; `tokenize()` and `capabilities()`, which nothing calls from the scheduler.
- Floating point: arrivals between clock ticks are modelled by `Grain`, percentiles and
  rates are exact.
- The lifetime of objects the caller owns, and the destructors.
- `RequestLifecycle::cancel()`, which has no caller.
- Two owners: one thread calls `start()` and `stop()` of the engine and of the server, as
  all callers in the repository do.
- Shared ids outside of the scheduler: the engine and the simulation model give every
  request an id of its own (disagreement 1 covers the other case).
- Output limits of zero: see Observations.
- Growth: the scheduler keeps every request it ever saw. The instances are finite, and
  the repository states no bound.
- The admission controller, the KV cache and other policies, which are designed in the
  documents and not written yet; signal handling and the connection between server and
  engine, likewise.
