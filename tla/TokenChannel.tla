---------------------------- MODULE TokenChannel ----------------------------
(***************************************************************************)
(* src/http/token_channel.cpp: a bounded queue under one mutex, with a     *)
(* condition variable for the threads blocked in pop().                    *)
(*                                                                         *)
(* A critical section is one step.  pop() is three: the test that finds    *)
(* nothing and goes to sleep (wait() gives the mutex up in the same step), *)
(* the notification, and the wakeup that takes the mutex and tests again.  *)
(***************************************************************************)
EXTENDS SequencesExt, FiniteSets

CONSTANTS
  Consumers,   \* threads that call pop()
  Capacity,    \* capacity()
  MaxPushes    \* bound on the events the producer has to send

ASSUME ChannelAssumption ==
  /\ IsFiniteSet(Consumers)
  /\ Capacity \in Nat
  /\ MaxPushes \in Nat

VARIABLES
  buffer,      \* buffer_
  closed,      \* closed_
  asleep,      \* consumers waiting on non_empty_cv_
  awake,       \* consumers notified that have yet to take the mutex
  ended,       \* consumers whose pop() has returned nothing
  sent,        \* the events try_push() has accepted (history)
  taken        \* the events pop() has returned (history)

vars == <<buffer, closed, asleep, awake, ended, sent, taken>>

Init ==
  /\ buffer = <<>> /\ closed = FALSE
  /\ asleep = {} /\ awake = {} /\ ended = {}
  /\ sent = <<>> /\ taken = <<>>

-----------------------------------------------------------------------------
\* Mutant: the producer notifies only when the buffer was empty.
NotifyOne_IfEmpty ==
  IF asleep = {} \/ buffer # <<>> THEN UNCHANGED <<asleep, awake>>
  ELSE \E c \in asleep : asleep' = asleep \ {c} /\ awake' = awake \cup {c}

\* non_empty_cv_.notify_one().
NotifyOne ==
  IF asleep = {} THEN UNCHANGED <<asleep, awake>>
  ELSE \E c \in asleep : asleep' = asleep \ {c} /\ awake' = awake \cup {c}

\* Mutant: one event too many fits.
Accepts_OffByOne == ~closed /\ Len(buffer) <= Capacity

Accepts == ~closed /\ Len(buffer) < Capacity

\* TokenChannel::try_push() of the next event; a refusal changes nothing.
TryPush ==
  /\ Accepts /\ Len(sent) < MaxPushes
  /\ LET event == Len(sent) + 1 IN
       buffer' = Append(buffer, event) /\ sent' = Append(sent, event)
  /\ NotifyOne
  /\ UNCHANGED <<closed, ended, taken>>

\* Mutant: close() wakes one consumer.
Close_NotifyOne ==
  /\ ~closed /\ closed' = TRUE
  /\ NotifyOne
  /\ UNCHANGED <<buffer, ended, sent, taken>>

\* TokenChannel::close(), with notify_all().  A second call changes nothing.
Close ==
  /\ ~closed /\ closed' = TRUE
  /\ asleep' = {} /\ awake' = awake \cup asleep
  /\ UNCHANGED <<buffer, ended, sent, taken>>

-----------------------------------------------------------------------------
\* Has the mutex and runs: between two calls of pop(), or woken inside one.
Runs(c) == c \in Consumers \ (asleep \cup ended)

\* Mutant: the last event is taken first.
PopEvent_Back(c) ==
  /\ Runs(c) /\ buffer # <<>>
  /\ taken' = Append(taken, Last(buffer)) /\ buffer' = Front(buffer)
  /\ awake' = awake \ {c}
  /\ UNCHANGED <<closed, asleep, ended, sent>>

\* pop() finds an event and returns it.
PopEvent(c) ==
  /\ Runs(c) /\ buffer # <<>>
  /\ taken' = Append(taken, Head(buffer)) /\ buffer' = Tail(buffer)
  /\ awake' = awake \ {c}
  /\ UNCHANGED <<closed, asleep, ended, sent>>

\* Mutant: close() discards what has not been read.
PopEnd_Early(c) ==
  /\ Runs(c) /\ closed
  /\ ended' = ended \cup {c} /\ awake' = awake \ {c}
  /\ UNCHANGED <<buffer, closed, asleep, sent, taken>>

\* pop() finds the channel closed and empty: its caller stops calling.
PopEnd(c) ==
  /\ Runs(c) /\ buffer = <<>> /\ closed
  /\ ended' = ended \cup {c} /\ awake' = awake \ {c}
  /\ UNCHANGED <<buffer, closed, asleep, sent, taken>>

\* pop() finds nothing and waits, for the first time or again.
PopWait(c) ==
  /\ Runs(c) /\ buffer = <<>> /\ ~closed
  /\ asleep' = asleep \cup {c} /\ awake' = awake \ {c}
  /\ UNCHANGED <<buffer, closed, ended, sent, taken>>

Pop(c) == PopEvent(c) \/ PopEnd(c) \/ PopWait(c)

Next == TryPush \/ Close \/ \E c \in Consumers : Pop(c)

Spec == Init /\ [][Next]_vars

\* A consumer calls pop() until it returns nothing, as the connection that
\* streams the events does.  Nothing is asked of the producer.
FairSpec == Spec /\ \A c \in Consumers : WF_vars(Pop(c))

-----------------------------------------------------------------------------
(* Properties.                                                             *)

\* Every variable keeps its type, a consumer is in one place, and the buffer
\* never exceeds the capacity.
TypeOK ==
  /\ buffer \in Seq(Nat) /\ sent \in Seq(Nat) /\ taken \in Seq(Nat)
  /\ closed \in BOOLEAN
  /\ asleep \subseteq Consumers /\ awake \subseteq Consumers /\ ended \subseteq Consumers
  /\ asleep \cap awake = {} /\ asleep \cap ended = {} /\ awake \cap ended = {}
  /\ Len(buffer) <= Capacity

\* Events leave in the order they were accepted, none lost and none doubled,
\* whichever consumer takes them.
Fifo == sent = taken \o buffer

\* No wakeup is lost: nobody sleeps once the channel is closed, and while
\* somebody sleeps there is a consumer on its way for every event in the
\* buffer, although a consumer that was never asleep may get there first.
NoLostWakeup ==
  /\ closed => asleep = {}
  /\ asleep # {} => Len(buffer) <= Cardinality(awake)

\* Once a pop() has returned nothing the channel is closed, everything that was
\* ever accepted has been returned, and nothing is accepted any more.
EndMeansDrained == ended # {} => closed /\ taken = sent

\* Every event that was accepted is returned by some pop(), and every consumer
\* of a closed channel learns that it is over.
EverythingDelivered ==
  /\ \A n \in 1 .. MaxPushes : Len(sent) >= n ~> Len(taken) >= n
  /\ closed ~> ended = Consumers
=============================================================================
