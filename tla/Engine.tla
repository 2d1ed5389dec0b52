------------------------------- MODULE Engine -------------------------------
(***************************************************************************)
(* src/http/engine.cpp: the engine thread that owns the scheduler, the     *)
(* client threads that call submit() and cancel(), the consumers of the    *)
(* token channels, and the owner that calls start() and stop().            *)
(*                                                                         *)
(* A step is one access to what threads share: running_, the two pending   *)
(* queues (guarded by submission_mutex_), submission_cv_, or a channel.    *)
(* Work on the engine thread's own state joins the access before it.  The  *)
(* scheduler is used through SchedulerContract.                            *)
(***************************************************************************)
EXTENDS RequestState, Functions

CONSTANTS
  Requests,    \* submissions, each with an id and a channel of its own
  MaxOutput,   \* MaxOutput[r] is the submission's max_tokens
  Capacity,    \* Capacity[r] is the capacity of r's channel
  MaxStarts    \* bound on the calls of start()

ASSUME EngineAssumption ==
  /\ MaxOutput \in [Requests -> Nat \ {0}]
  /\ Capacity \in [Requests -> Nat]
  /\ MaxStarts \in Nat

VARIABLES
  running,     \* running_
  owner,       \* what the owner is doing: "out" of a run, "in" one, or in
               \* stop(), before its notify or before its join
  starts,      \* calls of start() so far
  submitCall,  \* progress of each submission's submit()
  cancelCall,  \* progress of each request's cancel()
  subs,        \* pending_submissions_
  cancels,     \* pending_cancels_
  pc,          \* where the engine thread is in run()
  batch,       \* cancels swapped out and still to be handled
  todo,        \* entries the running loop has yet to handle
  cur,         \* the entry push_tokens() is in the middle of, as a set
  state,       \* the scheduler's requests, as in SchedulerContract
  emitted,
  active,      \* keys of active_
  lastSeen,    \* last_seen_tokens of each entry
  since,       \* backpressure_since: "none", "fresh", or "old" once the
               \* backpressure timeout has passed
  buffer,      \* the events in each channel
  closed,      \* channels that are closed
  hungUp,      \* channels whose consumer closed them itself
  received     \* the events each consumer has popped

clients == <<submitCall, cancelCall>>
queues == <<subs, cancels>>
loop == <<batch, todo, cur>>
sched == <<state, emitted>>
entries == <<active, lastSeen, since>>
channels == <<buffer, closed, hungUp, received>>
vars == <<running, owner, starts, clients, queues, pc, loop, sched, entries,
          channels>>

Sched == INSTANCE SchedulerContract

Init ==
  /\ running = FALSE /\ owner = "out" /\ starts = 0
  /\ submitCall = [r \in Requests |-> "none"]
  /\ cancelCall = [r \in Requests |-> "none"]
  /\ subs = <<>> /\ cancels = <<>>
  /\ pc = "done" /\ batch = <<>> /\ todo = {} /\ cur = {}
  /\ Sched!Init
  /\ active = {}
  /\ lastSeen = [r \in Requests |-> 0]
  /\ since = [r \in Requests |-> "none"]
  /\ buffer = [r \in Requests |-> <<>>]
  /\ closed = {} /\ hungUp = {}
  /\ received = [r \in Requests |-> <<>>]

-----------------------------------------------------------------------------
(* submission_mutex_ and submission_cv_.                                   *)

\* The engine thread keeps the mutex from finding nothing to do until the
\* wait has put it to sleep; every other critical section is one step.
MutexFree == pc # "sleepy"

\* notify_one(): the engine thread is the only one that waits.
Notify == pc' = IF pc = "blocked" THEN "awake" ELSE pc

-----------------------------------------------------------------------------
(* The owner: start(), stop() and the destructor, which calls stop().      *)

Start ==
  /\ owner = "out" /\ starts < MaxStarts
  /\ running' = TRUE /\ owner' = "in" /\ starts' = starts + 1
  /\ pc' = "check"
  /\ UNCHANGED <<clients, queues, loop, sched, entries, channels>>

\* running_ is cleared without the mutex.
Stop ==
  /\ owner = "in"
  /\ running' = FALSE /\ owner' = "notify"
  /\ UNCHANGED <<starts, clients, queues, pc, loop, sched, entries, channels>>

StopNotify ==
  /\ owner = "notify"
  /\ Notify
  /\ owner' = "join"
  /\ UNCHANGED <<running, starts, clients, queues, loop, sched, entries, channels>>

Join ==
  /\ owner = "join" /\ pc = "done"
  /\ owner' = "out"
  /\ UNCHANGED <<running, starts, clients, queues, pc, loop, sched, entries,
                 channels>>

-----------------------------------------------------------------------------
(* The clients: submit() and cancel().                                     *)

\* Engine::submit() reads running_ before it takes the mutex.
SubmitCheck(r) ==
  /\ submitCall[r] = "none"
  /\ submitCall' = [submitCall EXCEPT ![r] = IF running THEN "checked" ELSE "refused"]
  /\ UNCHANGED <<running, owner, starts, cancelCall, queues, pc, loop, sched,
                 entries, channels>>

SubmitPush(r) ==
  /\ submitCall[r] = "checked" /\ MutexFree
  /\ subs' = Append(subs, r)
  /\ submitCall' = [submitCall EXCEPT ![r] = "pushed"]
  /\ UNCHANGED <<running, owner, starts, cancelCall, cancels, pc, loop, sched,
                 entries, channels>>

SubmitNotify(r) ==
  /\ submitCall[r] = "pushed"
  /\ Notify
  /\ submitCall' = [submitCall EXCEPT ![r] = "accepted"]
  /\ UNCHANGED <<running, owner, starts, cancelCall, queues, loop, sched,
                 entries, channels>>

\* Engine::cancel(), once for each request whose submit() has returned true.
CancelPush(r) ==
  /\ submitCall[r] = "accepted" /\ cancelCall[r] = "none" /\ MutexFree
  /\ cancels' = Append(cancels, r)
  /\ cancelCall' = [cancelCall EXCEPT ![r] = "pushed"]
  /\ UNCHANGED <<running, owner, starts, submitCall, subs, pc, loop, sched,
                 entries, channels>>

CancelNotify(r) ==
  /\ cancelCall[r] = "pushed"
  /\ Notify
  /\ cancelCall' = [cancelCall EXCEPT ![r] = "done"]
  /\ UNCHANGED <<running, owner, starts, submitCall, queues, loop, sched,
                 entries, channels>>

-----------------------------------------------------------------------------
(* The consumers, and time.                                                *)

\* TokenChannel::pop() returns an event.  A consumer may be slow or stop.
Pop(r) ==
  /\ buffer[r] # <<>>
  /\ received' = [received EXCEPT ![r] = Append(@, Head(buffer[r]))]
  /\ buffer' = [buffer EXCEPT ![r] = Tail(@)]
  /\ UNCHANGED <<running, owner, starts, clients, queues, pc, loop, sched,
                 entries, closed, hungUp>>

\* A consumer whose client is gone closes its end of the channel.
HangUp(r) ==
  /\ submitCall[r] = "accepted" /\ r \notin closed
  /\ closed' = closed \cup {r} /\ hungUp' = hungUp \cup {r}
  /\ UNCHANGED <<running, owner, starts, clients, queues, pc, loop, sched,
                 entries, buffer, received>>

\* config_.backpressure_timeout passes for an entry.
Age(r) ==
  /\ r \in active /\ since[r] = "fresh"
  /\ since' = [since EXCEPT ![r] = "old"]
  /\ UNCHANGED <<running, owner, starts, clients, queues, pc, loop, sched,
                 active, lastSeen, channels>>

-----------------------------------------------------------------------------
(* The engine thread: run() up to the drains.                              *)

\* The loop condition, and the test after the wait.
CheckRunning ==
  /\ pc \in {"check", "recheck"}
  /\ pc' = IF ~running THEN "done"
           ELSE IF pc = "check" THEN "lock" ELSE "drain_submissions"
  /\ UNCHANGED <<running, owner, starts, clients, queues, loop, sched, entries,
                 channels>>

\* The predicate of wait_for().
Wakeable == ~running \/ subs # <<>> \/ cancels # <<>>

\* Take the mutex, for the first time or again after a notification: go on,
\* or find nothing to do.
LookForWork ==
  /\ pc \in {"lock", "awake"}
  /\ pc' = IF Wakeable \/ active # {} THEN "recheck" ELSE "sleepy"
  /\ UNCHANGED <<running, owner, starts, clients, queues, loop, sched, entries,
                 channels>>

\* Give the mutex up and start to wait.
Block ==
  /\ pc = "sleepy"
  /\ pc' = "blocked"
  /\ UNCHANGED <<running, owner, starts, clients, queues, loop, sched, entries,
                 channels>>

\* Mutant: wait() instead of wait_for().
Timeout_Never == FALSE /\ UNCHANGED vars

\* config_.tick_interval has passed: wait_for() returns whatever holds.
Timeout ==
  /\ pc = "blocked"
  /\ pc' = "recheck"
  /\ UNCHANGED <<running, owner, starts, clients, queues, loop, sched, entries,
                 channels>>

\* Engine::drain_submissions().
DrainSubmissions ==
  /\ pc = "drain_submissions"
  /\ Sched!SubmitAll(Range(subs))
  /\ active' = active \cup Range(subs)
  /\ subs' = <<>>
  /\ pc' = "drain_cancels"
  /\ UNCHANGED <<running, owner, starts, clients, cancels, loop, lastSeen,
                 since, channels>>

\* Engine::drain_cancels(): swap the queue out, then handle each id.
DrainCancels ==
  /\ pc = "drain_cancels"
  /\ batch' = cancels /\ cancels' = <<>>
  /\ pc' = "cancel"
  /\ UNCHANGED <<running, owner, starts, clients, subs, todo, cur, sched,
                 entries, channels>>

\* Close an entry's channel and erase the entry.
Forget(r) ==
  /\ closed' = closed \cup {r}
  /\ active' = active \ {r}
  /\ UNCHANGED <<lastSeen, since, buffer, hungUp, received>>

\* Mutant: the entry is not erased.
CancelOne_KeepsEntry ==
  LET r == Head(batch) IN
  /\ pc = "cancel" /\ batch # <<>>
  /\ Sched!Cancel(r)
  /\ closed' = IF r \in active THEN closed \cup {r} ELSE closed
  /\ batch' = Tail(batch)
  /\ UNCHANGED <<running, owner, starts, clients, queues, pc, todo, cur, entries,
                 buffer, hungUp, received>>

\* An id that is not active is dropped.
CancelOne ==
  LET r == Head(batch) IN
  /\ pc = "cancel" /\ batch # <<>>
  /\ Sched!Cancel(r)
  /\ IF r \in active THEN Forget(r) ELSE UNCHANGED <<entries, channels>>
  /\ batch' = Tail(batch)
  /\ UNCHANGED <<running, owner, starts, clients, queues, pc, todo, cur>>

\* With nothing active the loop starts over.
CancelsDone ==
  /\ pc = "cancel" /\ batch = <<>>
  /\ pc' = IF active = {} THEN "check" ELSE "tick"
  /\ UNCHANGED <<running, owner, starts, clients, queues, loop, sched, entries,
                 channels>>

-----------------------------------------------------------------------------
(* The engine thread: tick, push, backpressure, reap.                      *)

\* scheduler_.tick(), then the iteration of push_tokens() begins.
Tick ==
  /\ pc = "tick"
  /\ Sched!Tick
  /\ pc' = "push" /\ todo' = active
  /\ UNCHANGED <<running, owner, starts, clients, queues, batch, cur, entries,
                 channels>>

\* Mutant: every token of a finished request carries the reason.
FinishReason_Every(r) ==
  IF ~IsTerminal(state[r]) THEN "none"
  ELSE IF emitted[r] >= MaxOutput[r] THEN "length" ELSE "stop"

\* The finish_reason of the next event of r.
FinishReason(r) ==
  IF ~IsTerminal(state[r]) \/ lastSeen[r] + 1 < emitted[r] THEN "none"
  ELSE IF emitted[r] >= MaxOutput[r] THEN "length" ELSE "stop"

\* Mutant: one event too many fits.
HasRoom_OffByOne(r) == r \notin closed /\ Len(buffer[r]) <= Capacity[r]

\* TokenChannel::try_push() succeeds.
HasRoom(r) == r \notin closed /\ Len(buffer[r]) < Capacity[r]

\* The entry's loop is over: all its tokens are pushed.
EntryDone(r) ==
  /\ lastSeen[r] >= emitted[r]
  /\ todo' = todo \ {r} /\ cur' = {}
  /\ UNCHANGED <<lastSeen, since, buffer>>

\* Mutant: a token that got through leaves the backpressure timer armed.
PushToken_KeepsTimer(r) ==
  /\ lastSeen[r] < emitted[r] /\ HasRoom(r)
  /\ buffer' = [buffer EXCEPT ![r] =
                  Append(@, [token |-> lastSeen[r] + 1, reason |-> FinishReason(r)])]
  /\ lastSeen' = [lastSeen EXCEPT ![r] = @ + 1]
  /\ cur' = {r}
  /\ UNCHANGED <<todo, since>>

\* The next token goes out and the backpressure timer is reset.
PushToken(r) ==
  /\ lastSeen[r] < emitted[r] /\ HasRoom(r)
  /\ buffer' = [buffer EXCEPT ![r] =
                  Append(@, [token |-> lastSeen[r] + 1, reason |-> FinishReason(r)])]
  /\ lastSeen' = [lastSeen EXCEPT ![r] = @ + 1]
  /\ since' = [since EXCEPT ![r] = "none"]
  /\ cur' = {r}
  /\ UNCHANGED todo

\* Mutant: the token that did not fit counts as seen.
PushRefused_Skips(r) ==
  /\ lastSeen[r] < emitted[r] /\ ~HasRoom(r)
  /\ since' = [since EXCEPT ![r] = IF @ = "none" THEN "fresh" ELSE @]
  /\ lastSeen' = [lastSeen EXCEPT ![r] = @ + 1]
  /\ todo' = todo \ {r} /\ cur' = {}
  /\ UNCHANGED buffer

\* The channel is full or closed: the timer starts unless it runs already.
PushRefused(r) ==
  /\ lastSeen[r] < emitted[r] /\ ~HasRoom(r)
  /\ since' = [since EXCEPT ![r] = IF @ = "none" THEN "fresh" ELSE @]
  /\ todo' = todo \ {r} /\ cur' = {}
  /\ UNCHANGED <<lastSeen, buffer>>

\* Engine::push_tokens(): entries in any order, one after the other.
Push ==
  /\ pc = "push"
  /\ \E r \in todo :
       /\ cur \subseteq {r}
       /\ EntryDone(r) \/ PushToken(r) \/ PushRefused(r)
  /\ UNCHANGED <<running, owner, starts, clients, queues, pc, batch, sched,
                 active, closed, hungUp, received>>

\* Mutant: the timeout is never found to have passed.
Stuck_Never(r) == FALSE

\* The entry has been under backpressure for config_.backpressure_timeout.
Stuck(r) == since[r] = "old"

\* Engine::check_backpressure() reads the clock once and collects.
CollectStuck ==
  /\ pc = "push" /\ todo = {}
  /\ todo' = {r \in active : Stuck(r)}
  /\ pc' = "backpressure"
  /\ UNCHANGED <<running, owner, starts, clients, queues, batch, cur, sched,
                 entries, channels>>

\* Mutant: the scheduler is not told.
CancelStuck_NotScheduler ==
  /\ pc = "backpressure"
  /\ \E r \in todo : Forget(r) /\ todo' = todo \ {r}
  /\ UNCHANGED <<running, owner, starts, clients, queues, pc, batch, cur, sched>>

CancelStuck ==
  /\ pc = "backpressure"
  /\ \E r \in todo : Sched!Cancel(r) /\ Forget(r) /\ todo' = todo \ {r}
  /\ UNCHANGED <<running, owner, starts, clients, queues, pc, batch, cur>>

\* Mutant: unpushed tokens do not hold the entry back.
Finished_Undelivered(r) == IsTerminal(state[r])

\* The request is terminal and all its tokens are in the channel.
Finished(r) == IsTerminal(state[r]) /\ lastSeen[r] >= emitted[r]

\* Engine::reap_terminal().
CollectFinished ==
  /\ pc = "backpressure" /\ todo = {}
  /\ todo' = {r \in active : Finished(r)}
  /\ pc' = "reap"
  /\ UNCHANGED <<running, owner, starts, clients, queues, batch, cur, sched,
                 entries, channels>>

Reap ==
  /\ pc = "reap"
  /\ \E r \in todo : Forget(r) /\ todo' = todo \ {r}
  /\ UNCHANGED <<running, owner, starts, clients, queues, pc, batch, cur, sched>>

ReapDone ==
  /\ pc = "reap" /\ todo = {}
  /\ pc' = "check"
  /\ UNCHANGED <<running, owner, starts, clients, queues, loop, sched, entries,
                 channels>>

-----------------------------------------------------------------------------
EngineStep ==
  \/ CheckRunning \/ LookForWork \/ Block \/ Timeout
  \/ DrainSubmissions \/ DrainCancels \/ CancelOne \/ CancelsDone
  \/ Tick \/ Push \/ CollectStuck \/ CancelStuck
  \/ CollectFinished \/ Reap \/ ReapDone

ClientStep(r) ==
  \/ SubmitCheck(r) \/ SubmitPush(r) \/ SubmitNotify(r)
  \/ CancelPush(r) \/ CancelNotify(r)

Next ==
  \/ Start \/ Stop \/ StopNotify \/ Join
  \/ EngineStep
  \/ \E r \in Requests : ClientStep(r) \/ Pop(r) \/ HangUp(r) \/ Age(r)

Spec == Init /\ [][Next]_vars

\* The engine thread is scheduled, a wait_for() ends with its timeout, time
\* passes, and a stop() that was called goes on.  Clients and consumers owe
\* nothing.
Fairness ==
  /\ WF_vars(EngineStep)
  /\ WF_vars(StopNotify \/ Join)
  /\ \A r \in Requests : WF_vars(Age(r))
FairSpec == Spec /\ Fairness

-----------------------------------------------------------------------------
(* Properties.                                                             *)

\* Everything that was put into r's channel, in order.
Stream(r) == received[r] \o buffer[r]

EnginePcs ==
  {"done", "check", "lock", "sleepy", "blocked", "awake", "recheck",
   "drain_submissions", "drain_cancels", "cancel", "tick", "push",
   "backpressure", "reap"}

Events == [token : Nat, reason : {"none", "stop", "length"}]

\* Every variable keeps its type, and no channel exceeds its capacity: a slow
\* consumer costs bounded memory.
TypeOK ==
  /\ running \in BOOLEAN /\ owner \in {"out", "in", "notify", "join"}
  /\ starts \in 0 .. MaxStarts
  /\ submitCall \in
       [Requests -> {"none", "checked", "pushed", "accepted", "refused"}]
  /\ cancelCall \in [Requests -> {"none", "pushed", "done"}]
  /\ subs \in Seq(Requests) /\ cancels \in Seq(Requests) /\ batch \in Seq(Requests)
  /\ pc \in EnginePcs
  /\ cur \subseteq todo /\ todo \subseteq active /\ active \subseteq Requests
  /\ state \in [Requests -> RequestStates]
  /\ emitted \in [Requests -> Nat] /\ lastSeen \in [Requests -> Nat]
  /\ since \in [Requests -> {"none", "fresh", "old"}]
  /\ hungUp \subseteq closed /\ closed \subseteq Requests
  /\ received \in [Requests -> Seq(Events)]
  /\ buffer \in [Requests -> Seq(Events)]
  /\ \A r \in Requests : Len(buffer[r]) <= Capacity[r]

\* Streaming frames stay in order: what a consumer has popped and what is still
\* in its channel are the request's first lastSeen tokens, with none lost,
\* doubled or overtaken when try_push() refuses and push_tokens() tries again.
StreamInOrder ==
  \A r \in Requests :
    /\ lastSeen[r] <= emitted[r]
    /\ Len(Stream(r)) = lastSeen[r]
    /\ \A i \in DOMAIN Stream(r) : Stream(r)[i].token = i

\* A finish reason ends the stream: only the last token of a terminal request
\* carries one, even when backpressure held its tokens back and several are
\* pushed at once.
FinishOnlyLast ==
  \A r \in Requests : \A i \in DOMAIN Stream(r) :
    Stream(r)[i].reason # "none" => i = emitted[r] /\ IsTerminal(state[r])

\* A completed request that nobody cancelled and that was not cut off by
\* backpressure is reaped only when its stream holds every token it emitted and
\* ends with a finish reason.
CompletedIsDelivered ==
  \A r \in Requests \ active :
    state[r] = "Completed" /\ cancelCall[r] = "none" /\ since[r] # "old" =>
      /\ lastSeen[r] = emitted[r]
      /\ Stream(r)[Len(Stream(r))].reason # "none"

\* A request that left active_ is terminal in the scheduler and its channel is
\* closed: no request keeps running with nobody to stream it to, and no consumer
\* is left waiting.
ForgottenIsOver ==
  \A r \in Requests \ active :
    state[r] # "Received" => IsTerminal(state[r]) /\ r \in closed

\* The engine keeps no entry for a channel it has closed: the caller owns the
\* channel and may destroy it once pop() has returned nothing.
NoTouchAfterClose == \A r \in active : r \in closed => r \in hungUp

\* The backpressure timer runs only for an entry with a token still to push: it is
\* not left running from an earlier jam when push_tokens() has caught up.  A
\* consumer that drains its channel after a refused push is still behind until the
\* next push_tokens(), and check_backpressure() may cut it off before.
TimerOnlyWhenBehind ==
  \A r \in active : since[r] # "none" => lastSeen[r] < emitted[r]

\* While the engine runs, every submission it took is streamed to its end and
\* its channel closed, though its consumer stop reading or hang up.
EveryStreamEnds ==
  \A r \in Requests :
    submitCall[r] = "pushed" ~>
      ~running \/ (IsTerminal(state[r]) /\ r \in closed /\ r \notin active)

\* stop() returns: its notification may come between the engine thread's test
\* and its wait and be lost, and the timeout of wait_for() makes up for it.
StopReturns == owner = "notify" ~> owner = "out"

\* Once the engine has handled a cancel() of a request whose submit() returned,
\* the request is neither active nor about to become so.
CancelHonoured ==
  \A r \in Requests :
    cancelCall[r] # "none" /\ r \notin Range(cancels) \cup Range(batch) =>
      r \notin active \cup Range(subs)

\* The stop reason means that the backend ended the sequence.
StopMeansEos ==
  \A r \in Requests : \A i \in DOMAIN Stream(r) :
    Stream(r)[i].reason = "stop" => state[r] = "Completed"

\* When stop() has returned no work is left active: what was accepted is over
\* and its consumer has been told.
StopEndsStreams ==
  owner = "out" =>
    \A r \in Requests : submitCall[r] = "accepted" => r \in closed
=============================================================================
