------------------------ MODULE TokenChannel_proofs ------------------------
(***************************************************************************)
(* Proofs about TokenChannel, for every number of consumers, every capacity*)
(* and every number of events.  The four invariants are inductive together.*)
(***************************************************************************)
EXTENDS TokenChannel, SequenceTheorems, FiniteSetTheorems, TLAPS

USE SMTT(30)

IInv == TypeOK /\ Fifo /\ NoLostWakeup /\ EndMeansDrained

\* Concatenation, as try_push() and pop() use it: an event appended to the
\* buffer extends the whole stream, and the head of the buffer moved behind
\* what was taken leaves the stream as it was.
LEMMA StreamFacts ==
  ASSUME NEW t \in Seq(Nat), NEW b \in Seq(Nat)
  PROVE  /\ t \o <<>> = t
         /\ \A e \in Nat : t \o Append(b, e) = Append(t \o b, e)
         /\ b # <<>> => /\ Head(b) \in Nat /\ Tail(b) \in Seq(Nat)
                        /\ Len(Tail(b)) = Len(b) - 1
                        /\ Append(t, Head(b)) \o Tail(b) = t \o b
                        /\ t # t \o b
<1>1. t \o <<>> = t
  OBVIOUS
<1>2. ASSUME NEW e \in Nat PROVE t \o Append(b, e) = Append(t \o b, e)
  OBVIOUS
<1>3. ASSUME b # <<>>
      PROVE  /\ Head(b) \in Nat /\ Tail(b) \in Seq(Nat)
             /\ Len(Tail(b)) = Len(b) - 1
             /\ Append(t, Head(b)) \o Tail(b) = t \o b
             /\ t # t \o b
  <2>1. Head(b) \in Nat /\ Tail(b) \in Seq(Nat) /\ Len(Tail(b)) = Len(b) - 1
    BY <1>3
  <2>2. Len(b) # 0
    BY <1>3, EmptySeq
  <2>3. t # t \o b
    BY <2>2
  <2>4. Append(t, Head(b)) \o Tail(b) = t \o b
    BY <1>3
  <2> QED BY ZenonT(30), <2>1, <2>3, <2>4
<1> QED BY ZenonT(30), <1>1, <1>2, <1>3

\* notify_one() moves at most one sleeper, and exactly one if there is any: the
\* number of consumers on their way grows with the buffer.
LEMMA NotifyFacts ==
  ASSUME IInv, NotifyOne
  PROVE  /\ asleep' \subseteq Consumers /\ awake' \subseteq Consumers
         /\ asleep' \cap awake' = {}
         /\ asleep' \cap ended = {} /\ awake' \cap ended = {}
         /\ asleep = {} => asleep' = {}
         /\ asleep # {} => Cardinality(awake') = Cardinality(awake) + 1
         /\ Cardinality(awake) \in Nat
<1>1. IsFiniteSet(awake) /\ Cardinality(awake) \in Nat
  BY ChannelAssumption, FS_Subset, FS_CardinalityType DEF IInv, TypeOK
<1>2. CASE asleep = {}
  BY <1>1, <1>2 DEF NotifyOne, IInv, TypeOK
<1>3. CASE asleep # {}
  <2>1. PICK c \in asleep : asleep' = asleep \ {c} /\ awake' = awake \cup {c}
    BY <1>3 DEF NotifyOne
  <2>2. c \notin awake
    BY DEF IInv, TypeOK
  <2>3. Cardinality(awake') = Cardinality(awake) + 1
    BY ZenonT(30), <1>1, <2>1, <2>2, FS_AddElement
  <2> QED BY <1>1, <1>3, <2>1, <2>3 DEF IInv, TypeOK
<1> QED BY <1>2, <1>3

\* try_push() keeps the invariant: it adds one event and one consumer on its
\* way, and never succeeds after close().
LEMMA TryPushInv ==
  ASSUME IInv, TryPush PROVE IInv'
<1> DEFINE e == Len(sent) + 1
<1>1. /\ buffer' = Append(buffer, e) /\ sent' = Append(sent, e) /\ NotifyOne
      /\ ~closed /\ Len(buffer) < Capacity
      /\ closed' = closed /\ ended' = ended /\ taken' = taken
  BY DEF TryPush, Accepts
<1>2. e \in Nat
  BY DEF IInv, TypeOK
<1> HIDE DEF e
<1>3. /\ Len(buffer') = Len(buffer) + 1 /\ Len(buffer) \in Nat
      /\ buffer' \in Seq(Nat) /\ sent' \in Seq(Nat)
  BY <1>1, <1>2 DEF IInv, TypeOK
<1>4. TypeOK'
  <2>1. Len(buffer') <= Capacity
    BY <1>1, <1>3, ChannelAssumption
  <2> QED BY <1>1, <1>3, <2>1, NotifyFacts DEF IInv, TypeOK
<1>5. Fifo'
  <2>1. taken \in Seq(Nat) /\ buffer \in Seq(Nat) /\ sent = taken \o buffer
    BY DEF IInv, TypeOK, Fifo
  <2>2. taken \o Append(buffer, e) = Append(taken \o buffer, e)
    BY <1>2, <2>1, StreamFacts
  <2> QED BY <1>1, <2>1, <2>2 DEF Fifo
<1>6. NoLostWakeup'
  BY <1>1, <1>3, NotifyFacts DEF IInv, NoLostWakeup
<1>7. EndMeansDrained'
  BY <1>1 DEF IInv, EndMeansDrained
<1> QED BY <1>4, <1>5, <1>6, <1>7 DEF IInv

\* close() keeps the invariant: notify_all() leaves nobody asleep.
LEMMA CloseInv ==
  ASSUME IInv, Close PROVE IInv'
<1>1. TypeOK'
  BY DEF IInv, TypeOK, Close
<1>2. Fifo' /\ NoLostWakeup' /\ EndMeansDrained'
  BY DEF IInv, Fifo, NoLostWakeup, EndMeansDrained, Close
<1> QED BY <1>1, <1>2 DEF IInv

\* A pop() that returns an event keeps the invariant: the buffer and the number
\* of consumers on their way go down by at most one, the buffer always.
LEMMA PopEventInv ==
  ASSUME IInv, NEW c \in Consumers, PopEvent(c) PROVE IInv'
<1>1. /\ buffer # <<>> /\ taken' = Append(taken, Head(buffer))
      /\ buffer' = Tail(buffer) /\ awake' = awake \ {c}
      /\ closed' = closed /\ asleep' = asleep /\ ended' = ended /\ sent' = sent
  BY DEF PopEvent
<1>2. buffer \in Seq(Nat) /\ taken \in Seq(Nat) /\ Len(buffer) \in Nat
  BY DEF IInv, TypeOK
<1>3. /\ Head(buffer) \in Nat /\ buffer' \in Seq(Nat)
      /\ Len(buffer') = Len(buffer) - 1
      /\ taken' \o buffer' = taken \o buffer
      /\ taken # taken \o buffer
  BY <1>1, <1>2, StreamFacts
<1>4. TypeOK'
  <2>1. Len(buffer') <= Capacity /\ taken' \in Seq(Nat)
    BY <1>1, <1>2, <1>3, ChannelAssumption DEF IInv, TypeOK
  <2> QED BY <1>1, <1>3, <2>1 DEF IInv, TypeOK
<1>5. Fifo'
  BY <1>1, <1>3 DEF IInv, Fifo
<1>6. NoLostWakeup'
  <2>1. IsFiniteSet(awake) /\ Cardinality(awake) \in Nat
    BY ChannelAssumption, FS_Subset, FS_CardinalityType DEF IInv, TypeOK
  <2>2. Cardinality(awake') \in {Cardinality(awake), Cardinality(awake) - 1}
    BY ZenonT(30), <1>1, <2>1, FS_RemoveElement
  <2>3. asleep' # {} => Len(buffer') <= Cardinality(awake')
    BY <1>1, <1>2, <1>3, <2>1, <2>2 DEF IInv, NoLostWakeup
  <2> QED BY <1>1, <2>3 DEF IInv, NoLostWakeup
<1>7. EndMeansDrained'
  BY <1>1, <1>3 DEF IInv, EndMeansDrained, Fifo
<1> QED BY <1>4, <1>5, <1>6, <1>7 DEF IInv

\* A pop() that returns nothing, or goes to sleep, keeps the invariant: both
\* need an empty buffer, and sleeping an open channel.
LEMMA PopEmptyInv ==
  ASSUME IInv, NEW c \in Consumers, PopEnd(c) \/ PopWait(c) PROVE IInv'
<1>1. /\ buffer = <<>> /\ buffer' = buffer /\ closed' = closed
      /\ sent' = sent /\ taken' = taken /\ awake' = awake \ {c}
      /\ c \in Consumers \ (asleep \cup ended)
  BY DEF PopEnd, PopWait, Runs
<1>2. TypeOK'
  BY <1>1 DEF IInv, TypeOK, PopEnd, PopWait
<1>3. Fifo' /\ taken = sent
  BY <1>1, StreamFacts DEF IInv, TypeOK, Fifo
<1>4. Len(buffer') = 0
  BY <1>1
<1>5. Cardinality(awake') \in Nat
  BY <1>2, ChannelAssumption, FS_Subset, FS_CardinalityType DEF TypeOK
<1>6. NoLostWakeup'
  <2>1. asleep' # {} => Len(buffer') <= Cardinality(awake')
    BY <1>4, <1>5
  <2>2. closed' => asleep' = {}
    BY ZenonT(30) DEF IInv, NoLostWakeup, PopEnd, PopWait
  <2> QED BY <2>1, <2>2 DEF NoLostWakeup
<1>7. EndMeansDrained'
  BY <1>1, <1>3 DEF IInv, EndMeansDrained, PopEnd, PopWait
<1> QED BY <1>2, <1>3, <1>6, <1>7 DEF IInv

\* The four invariants hold in every reachable state of the channel.
THEOREM Invariance == Spec => []IInv
<1>1. Init => IInv
  <2> SUFFICES ASSUME Init PROVE IInv
    OBVIOUS
  <2>1. TypeOK
    <3>1. buffer \in Seq(Nat) /\ Len(buffer) = 0
      BY EmptySeq DEF Init
    <3>2. Len(buffer) <= Capacity
      BY <3>1, ChannelAssumption
    <3> QED BY ZenonT(30), <3>1, <3>2 DEF Init, TypeOK
  <2>2. Fifo
    BY DEF Init, Fifo
  <2>3. NoLostWakeup /\ EndMeansDrained
    BY DEF Init, NoLostWakeup, EndMeansDrained
  <2> QED BY <2>1, <2>2, <2>3 DEF IInv
<1>2. IInv /\ [Next]_vars => IInv'
  <2> SUFFICES ASSUME IInv, [Next]_vars PROVE IInv'
    OBVIOUS
  <2>1. CASE UNCHANGED vars
    BY <2>1 DEF IInv, TypeOK, Fifo, NoLostWakeup, EndMeansDrained, vars
  <2>2. CASE TryPush
    BY <2>2, TryPushInv
  <2>3. CASE Close
    BY <2>3, CloseInv
  <2>4. ASSUME NEW c \in Consumers, Pop(c) PROVE IInv'
    BY <2>4, PopEventInv, PopEmptyInv DEF Pop
  <2> QED BY <2>1, <2>2, <2>3, <2>4 DEF Next
<1> QED BY <1>1, <1>2, PTL DEF Spec

\* The buffer of a channel never exceeds its capacity, whatever the calls.
THEOREM TypeCorrect == Spec => []TypeOK
<1>1. IInv => TypeOK
  BY DEF IInv
<1> QED BY <1>1, Invariance, PTL

\* try_push() and pop() together neither lose, nor double, nor reorder events.
THEOREM FifoCorrect == Spec => []Fifo
<1>1. IInv => Fifo
  BY DEF IInv
<1> QED BY <1>1, Invariance, PTL

\* notify_one() in try_push() and notify_all() in close() leave no consumer
\* asleep with something to do, for any number of consumers.
THEOREM WakeupsNotLost == Spec => []NoLostWakeup
<1>1. IInv => NoLostWakeup
  BY DEF IInv
<1> QED BY <1>1, Invariance, PTL

\* A pop() that returned nothing has seen the end: everything accepted was
\* returned before.
THEOREM EndCorrect == Spec => []EndMeansDrained
<1>1. IInv => EndMeansDrained
  BY DEF IInv
<1> QED BY <1>1, Invariance, PTL
=============================================================================
