------------------------- MODULE FifoService_proofs -------------------------
(***************************************************************************)
(* The actions outside the backend phases keep IInv, and what each step of *)
(* the scheduler does for the requests: terminal states are final, service *)
(* is oldest first, nothing is spent on what was late when the tick began, *)
(* and the tick report adds up.                                            *)
(***************************************************************************)
EXTENDS FifoInvariant

USE SMTT(30)

-----------------------------------------------------------------------------
(* The other actions keep IInv.                                            *)

\* A newly constructed scheduler satisfies the invariant.
LEMMA InitInv ==
  ASSUME CallerDuties, Init
  PROVE  IInv
<1>1. Range(waiting) = {} /\ Range(decoding) = {} /\ Queued = {}
  BY DEF Init, Range, Queued
<1>2. TypeOK
  BY DEF Init, TypeOK, RequestStates, PcValues, NoHandle, EmptyReport
<1>3. QueuesMatchState /\ UniqueIds
  BY <1>1 DEF Init, QueuesMatchState, UniqueIds, IsInjective
<1>4. OutputLeft
  BY ConstantsAssumption DEF Init, OutputLeft, CallerDuties
<1>5. HandlesExact
  BY <1>1 DEF Init, HandlesExact, InFlight
<1> QED
  BY <1>2, <1>3, <1>4, <1>5 DEF Init, IInv, NoPanic, LoopInv

\* submit() keeps the invariant: the id of the new request is free, and the
\* request joins waiting_ without a handle.
LEMMA SubmitInv ==
  ASSUME CallerDuties, IInv, NEW r \in Requests, Submit(r)
  PROVE  IInv'
<1>1. /\ waiting' = Append(waiting, r) /\ decoding' = decoding
      /\ state' = [state EXCEPT ![r] = "WaitingPrefill"]
      /\ pc = "idle" /\ state[r] = "Received"
      /\ \A q \in Queued : IdOf[q] # IdOf[r]
      /\ UNCHANGED <<emitted, overdue, handles, sequences, minted, expired,
                     late, pending, results, report>>
  BY DEF Submit, CallerDuties
<1>2. pc' = "idle"
  BY <1>1, LegalPaths DEF Submit, Proceed
<1>3. r \notin Queued
  BY <1>1, QueuedState DEF IInv, Queued
<1>4. /\ waiting' \in Seq(Requests) /\ IsInjective(waiting')
      /\ Range(waiting') = Range(waiting) \cup {r}
  BY <1>1, <1>3, AppendFacts DEF IInv, TypeOK, QueuesMatchState, Queued
<1>5. TypeOK'
  <2>1. requests' \in Seq(Requests)
    BY AppendFacts DEF Submit, IInv, TypeOK
  <2>2. state' \in [Requests -> RequestStates]
    BY <1>1 DEF IInv, TypeOK, RequestStates
  <2> QED BY <1>1, <1>2, <1>4, <2>1, <2>2 DEF IInv, TypeOK, PcValues
<1>6. QueuesMatchState'
  BY <1>1, <1>3, <1>4 DEF IInv, TypeOK, QueuesMatchState, Queued
<1>7. UniqueIds'
  BY <1>1, <1>4 DEF IInv, UniqueIds, Queued
<1>8. OutputLeft'
  BY <1>1 DEF IInv, OutputLeft, TypeOK, IsTerminal, TerminalStates
<1>9. HandlesExact'
  BY <1>1, <1>2 DEF IInv, HandlesExact, InFlight
<1> QED
  BY <1>1, <1>2, <1>5, <1>6, <1>7, <1>8, <1>9 DEF IInv, NoPanic, LoopInv

\* cancel() retires the one queued request with the id, wherever it is, and
\* keeps the invariant.
LEMMA CancelInv ==
  ASSUME CallerDuties, IInv, NEW id \in Ids, Cancel(id)
  PROVE  IInv' /\ \E r \in Queued : Retire(r, "Cancelled")
<1> DEFINE victims == FirstWithId(waiting, id) \cup FirstWithId(decoding, id)
<1>1. pc = "idle" /\ victims # {}
  BY DEF Cancel
<1>2. \A q \in victims : q \in Queued /\ IdOf[q] = id
  BY DEF FirstWithId, Queued, Range
<1>3. PICK r \in victims : TRUE
  BY <1>1
<1>4. /\ r \in Queued /\ r \in Requests /\ IdOf[r] = id /\ victims = {r}
      /\ \A q \in Queued : IdOf[q] = id <=> q = r
  BY <1>2, <1>3, QueuedState DEF IInv, UniqueIds
<1>5. /\ waiting' = RemoveFirst(waiting, r)
      /\ decoding' = RemoveFirst(decoding, r)
  <2>1. ASSUME NEW s \in {waiting, decoding}
        PROVE  WithoutId(s, id) = RemoveFirst(s, r)
    <3>1. s \in Seq(Requests) /\ IsInjective(s) /\ Range(s) \subseteq Queued
      BY DEF IInv, TypeOK, QueuesMatchState, Queued
    <3>2. CASE r \in Range(s)
      BY <3>1, <3>2, <1>4, WithoutIdFacts
    <3>3. CASE r \notin Range(s)
      <4>1. \A x \in Range(s) : IdOf[x] # id
        BY <3>1, <3>3, <1>4
      <4> QED BY <3>1, <3>3, <4>1, WithoutIdFacts, RemoveFirstIsRemoveAt
    <3> QED BY <3>2, <3>3
  <2> QED BY <2>1 DEF Cancel
<1>6. Retire(r, "Cancelled")
  <2>1. state' = [state EXCEPT ![r] = "Cancelled"]
    BY ZenonT(30), <1>4 DEF Cancel, IInv, TypeOK
  <2>2. sequences' = sequences \ HandlesOf(r)
    <3>1. NoHandle \notin sequences
      <4>1. DOMAIN minted = 1 .. Len(minted)
        BY LenProperties DEF IInv, TypeOK
      <4> QED BY <4>1, <1>1 DEF IInv, HandlesExact, InFlight, NoHandle
    <3> QED BY <1>4, <3>1 DEF Cancel, HandlesOf
  <2> QED BY ZenonT(30), <1>4, <1>5, <2>1, <2>2 DEF Cancel, Retire
<1>7. /\ "Cancelled" \in TerminalStates
      /\ UNCHANGED <<requests, emitted, overdue, minted, expired, late,
                     pending, results, report>>
  BY DEF Cancel, TerminalStates
<1>8. pc' = "idle"
  <2>1. LegalPath(<<state[r], "Cancelled">>)
    BY <1>4, LegalPaths, QueuedState DEF IInv, Queued
  <2>2. CanRelease(r)
    BY <1>4, HandleOfQueued
  <2> QED BY <1>4, <2>1, <2>2 DEF Cancel, Proceed
<1>9. /\ waiting' \in Seq(Requests) /\ decoding' \in Seq(Requests)
      /\ state' \in [Requests -> RequestStates]
      /\ handles' \in [Ids -> Nat] /\ sequences' \subseteq Nat
      /\ QueuesMatchState' /\ UniqueIds'
      /\ \A q \in Requests : state'[q] = IF q = r THEN "Cancelled" ELSE state[q]
  BY <1>4, <1>6, <1>7, RetireFacts
<1>10. TypeOK'
  BY <1>7, <1>8, <1>9 DEF IInv, TypeOK, PcValues
<1>11. OutputLeft'
  BY ZenonT(30), <1>7, <1>9 DEF IInv, OutputLeft, IsTerminal
<1>12. HandlesExact'
  <2>1. InFlight' = InFlight
    BY <1>1, <1>8 DEF InFlight
  <2> QED BY <1>4, <1>6, <1>7, <2>1, RetireKeepsHandles
<1> QED
  BY <1>1, <1>4, <1>6, <1>7, <1>8, <1>9, <1>10, <1>11, <1>12
  DEF IInv, NoPanic, LoopInv

\* The clock may pass a deadline at any point of a tick: nothing the invariant
\* talks about depends on it.
LEMMA PassDeadlineInv ==
  ASSUME IInv, NEW r \in Requests, PassDeadline(r)
  PROVE  IInv'
<1>1. /\ overdue' = overdue \cup {r}
      /\ UNCHANGED <<requests, state, emitted, waiting, decoding, handles,
                     sequences, minted, pc, expired, late, pending, results,
                     report>>
  BY DEF PassDeadline
<1>2. TypeOK'
  BY <1>1 DEF IInv, TypeOK
<1>3. QueuesMatchState' /\ UniqueIds' /\ OutputLeft'
  BY <1>1 DEF IInv, QueuesMatchState, UniqueIds, Queued, OutputLeft
<1>4. HandlesExact'
  BY <1>1 DEF IInv, HandlesExact, InFlight
<1>5. LoopInv'
  BY <1>1 DEF IInv, LoopInv
<1> QED
  BY <1>1, <1>2, <1>3, <1>4, <1>5 DEF IInv, NoPanic

\* A round of the retire loops of expire_deadlines() retires a queued request
\* along a legal path and keeps the invariant.
LEMMA ExpireOneInv ==
  ASSUME IInv, ExpireOne
  PROVE  IInv' /\ \E r \in Queued \cap expired : Retire(r, "Failed")
<1> DEFINE queue == waiting \o decoding
<1>1. /\ pc = "expire"
      /\ UNCHANGED <<requests, emitted, overdue, minted, expired, late,
                     pending, results, report>>
  BY DEF ExpireOne
<1>2. PICK i \in DOMAIN queue :
        /\ queue[i] \in expired
        /\ Retire(queue[i], "Failed")
        /\ Proceed(LegalPath(ExpiryPath(queue[i])) /\ CanRelease(queue[i]), "expire")
  BY DEF ExpireOne
<1> DEFINE r == queue[i]
<1>3. r \in Queued
  <2>1. /\ queue \in Seq(Requests) /\ Len(queue) = Len(waiting) + Len(decoding)
        /\ \A k \in 1 .. Len(waiting) + Len(decoding) : queue[k] =
             IF k <= Len(waiting) THEN waiting[k] ELSE decoding[k - Len(waiting)]
    BY ConcatProperties DEF IInv, TypeOK
  <2>2. /\ Len(waiting) \in Nat /\ DOMAIN waiting = 1 .. Len(waiting)
        /\ Len(decoding) \in Nat /\ DOMAIN decoding = 1 .. Len(decoding)
        /\ DOMAIN queue = 1 .. Len(queue)
    BY <2>1, LenProperties DEF IInv, TypeOK
  <2>3. CASE i <= Len(waiting)
    <3>1. i \in DOMAIN waiting /\ r = waiting[i]
      BY <2>1, <2>2, <2>3
    <3> QED BY <3>1 DEF Queued, Range
  <2>4. CASE ~(i <= Len(waiting))
    <3>1. i - Len(waiting) \in DOMAIN decoding /\ r = decoding[i - Len(waiting)]
      BY <2>1, <2>2, <2>4
    <3> QED BY <3>1 DEF Queued, Range
  <2> QED BY <2>3, <2>4
<1> HIDE DEF r, queue
<1>4. pc' = "expire"
  <2>1. LegalPath(ExpiryPath(r))
    BY <1>3, LegalPaths, QueuedState DEF ExpiryPath, IInv, Queued
  <2>2. CanRelease(r)
    BY <1>3, HandleOfQueued
  <2> QED BY <1>2, <2>1, <2>2 DEF Proceed, r
<1>5. Retire(r, "Failed") /\ "Failed" \in TerminalStates
  BY <1>2 DEF r, TerminalStates
<1>6. InFlight' = InFlight
  BY <1>1, <1>4 DEF InFlight
<1>7. emitted' \in [Requests -> Nat] /\ emitted' = emitted
  BY <1>1 DEF IInv, TypeOK
<1>8. /\ QueuesMatchState' /\ UniqueIds' /\ OutputLeft' /\ HandlesExact'
      /\ requests' \in Seq(Requests) /\ minted' \in Seq(Requests)
      /\ waiting' \in Seq(Requests) /\ decoding' \in Seq(Requests)
      /\ state' \in [Requests -> RequestStates]
      /\ handles' \in [Ids -> Nat] /\ sequences' \subseteq Nat
      /\ overdue' \subseteq Requests /\ expired' \subseteq Requests
      /\ late' \subseteq Requests
  BY <1>1, <1>3, <1>5, <1>6, <1>7, RetireStepInv
<1>9. TypeOK'
  BY <1>1, <1>4, <1>7, <1>8 DEF IInv, TypeOK, PcValues
<1> QED
  BY <1>1, <1>2, <1>3, <1>4, <1>5, <1>8, <1>9 DEF IInv, NoPanic, LoopInv, r

-----------------------------------------------------------------------------
(* The four ways in which a step treats the queues.                        *)

\* A step leaves the queues and the lifecycles alone, appends a new request,
\* retires a queued one, or promotes the oldest that waits.
LEMMA StepShape ==
  ASSUME CallerDuties, IInv, [Next]_vars
  PROVE  \/ UNCHANGED <<requests, waiting, decoding, state>>
         \/ \E r \in Requests : Submit(r)
         \/ \E r \in Queued, to \in TerminalStates :
              Retire(r, to) /\ UNCHANGED requests
         \/ PrefillSucceeded
<1>0. {"Failed", "Cancelled", "Completed"} \subseteq TerminalStates
  BY DEF TerminalStates
<1>1. CASE UNCHANGED vars
  BY <1>1 DEF vars
<1>2. ASSUME NEW r \in Requests, PassDeadline(r)
      PROVE  UNCHANGED <<requests, waiting, decoding, state>>
  BY <1>2 DEF PassDeadline
<1>3. ASSUME NEW id \in Ids, Cancel(id)
      PROVE  \E r \in Queued : Retire(r, "Cancelled") /\ UNCHANGED requests
  <2>1. UNCHANGED requests
    BY <1>3 DEF Cancel
  <2> QED BY <1>3, <2>1, CancelInv
<1>4. CASE ExpireOne
  <2>1. UNCHANGED requests
    BY <1>4 DEF ExpireOne
  <2> QED BY <1>0, <1>4, <2>1, ExpireOneInv
<1>5. CASE PrefillFailed
  <2>1. UNCHANGED requests
    BY <1>5 DEF PrefillFailed
  <2> QED BY <1>0, <1>5, <2>1, PrefillFailedInv
<1>6. CASE DecodeToken
  <2>1. UNCHANGED requests /\ Head(pending) \in Queued
    BY <1>6, DecodeLoop DEF DecodeToken
  <2>2. \/ Retire(Head(pending), "Completed")
        \/ UNCHANGED <<waiting, decoding, state>>
    BY <1>6 DEF DecodeToken
  <2> QED BY <1>0, <2>1, <2>2
<1>7. CASE DecodeFailed
  <2>1. UNCHANGED requests /\ Head(pending) \in Queued /\ Retire(Head(pending), "Failed")
    BY <1>7, DecodeLoop DEF DecodeFailed
  <2> QED BY <1>0, <2>1
<1>8. CASE BeginTick \/ BeginPrefill \/ BackendDecode \/ EndTick
  BY ZenonT(30), <1>8 DEF BeginTick, BeginPrefill, BackendDecode, EndTick
<1>9. ASSUME NEW ok \in BOOLEAN, BackendPrefill(ok)
      PROVE  UNCHANGED <<requests, waiting, decoding, state>>
  BY <1>9 DEF BackendPrefill
<1> QED
  BY <1>0, <1>1, <1>2, <1>3, <1>4, <1>5, <1>6, <1>7, <1>8, <1>9 DEF Next, TickStep

-----------------------------------------------------------------------------
(* Terminal states are final.                                              *)

\* Only a decoding request is given a token.
LEMMA OnlyDecodingEmits ==
  ASSUME CallerDuties, IInv, [Next]_vars, NEW r \in Requests,
         emitted'[r] # emitted[r]
  PROVE  state[r] = "Decoding"
<1>1. CASE DecodeToken
  <2>1. /\ emitted' = [emitted EXCEPT ![Head(pending)] = @ + 1]
        /\ Head(pending) \in Range(decoding)
    BY <1>1, DecodeLoop DEF DecodeToken
  <2>2. r = Head(pending)
    BY <2>1 DEF IInv, TypeOK
  <2> QED BY <2>1, <2>2, QueuedState DEF IInv
<1>2. CASE ~DecodeToken
  <2>1. UNCHANGED emitted
    BY ZenonT(30), <1>2 DEF Next, TickStep, vars, Submit, PassDeadline, Cancel, BeginTick,
       ExpireOne, BeginPrefill, BackendPrefill, PrefillSucceeded, PrefillFailed,
       BackendDecode, DecodeFailed, EndTick
  <2> QED BY <2>1
<1> QED BY <1>1, <1>2

\* No step of the scheduler touches a terminal request.
LEMMA TerminalStep ==
  ASSUME CallerDuties, IInv, [Next]_vars
  PROVE  \A r \in Requests : IsTerminal(state[r]) =>
           state'[r] = state[r] /\ emitted'[r] = emitted[r]
<1> SUFFICES ASSUME NEW r \in Requests, IsTerminal(state[r])
             PROVE  state'[r] = state[r] /\ emitted'[r] = emitted[r]
  OBVIOUS
<1>1. emitted'[r] = emitted[r]
  BY OnlyDecodingEmits DEF IsTerminal, TerminalStates
<1>2. state'[r] = state[r]
  <2>1. ASSUME NEW q \in Requests, Submit(q)
        PROVE  state'[r] = state[r]
    <3>1. state[q] = "Received" /\ state' = [state EXCEPT ![q] = "WaitingPrefill"]
      BY <2>1 DEF Submit
    <3>2. q # r
      BY <3>1 DEF IsTerminal, TerminalStates
    <3> QED BY <3>1, <3>2 DEF IInv, TypeOK
  <2>2. ASSUME NEW q \in Queued, NEW to \in TerminalStates, Retire(q, to)
        PROVE  state'[r] = state[r]
    <3>1. q # r
      BY QueuedState DEF IInv
    <3> QED BY <2>2, <3>1, RetireFacts
  <2>3. CASE PrefillSucceeded
    <3>1. /\ state' = [state EXCEPT ![Head(pending)] = "Decoding"]
          /\ Head(pending) \in Range(waiting)
      BY <2>3, OutcomeLoop DEF PrefillSucceeded
    <3>2. Head(pending) # r
      BY <3>1, QueuedState DEF IInv, Queued
    <3> QED BY <3>1, <3>2 DEF IInv, TypeOK
  <2> QED BY <2>1, <2>2, <2>3, StepShape
<1> QED BY <1>1, <1>2

-----------------------------------------------------------------------------
(* Oldest first.                                                           *)

\* Every queued request is in requests_, so a new one comes after all of them.
OrderInv == FifoOrder /\ Queued \subseteq Range(requests)

\* Erasing a request from the queues keeps them in order.
LEMMA RetireKeepsOrder ==
  ASSUME IInv, OrderInv, NEW r \in Queued, NEW to \in TerminalStates,
         Retire(r, to), UNCHANGED requests
  PROVE  OrderInv'
<1>1. /\ Range(waiting') = Range(waiting) \ {r}
      /\ Range(decoding') = Range(decoding) \ {r}
  BY RetireFacts
<1>2. ASSUME NEW s \in Seq(Requests), IsInjective(s), InOrder(s)
      PROVE  InOrder(RemoveFirst(s, r))
  BY <1>2, RemoveFirstFacts DEF InOrder
<1>3. /\ InOrder(RemoveFirst(waiting, r)) /\ InOrder(RemoveFirst(decoding, r))
  BY <1>2 DEF IInv, TypeOK, QueuesMatchState, OrderInv, FifoOrder
<1>4. \A a, b : Precedes(a, b)' <=> Precedes(a, b)
  BY DEF Precedes
<1>5. InOrder(waiting)' /\ InOrder(decoding)'
  BY <1>3, <1>4 DEF InOrder, Retire
<1> QED
  BY <1>1, <1>4, <1>5 DEF OrderInv, FifoOrder, Queued

\* A submitted request comes last, in requests_ and in waiting_.
LEMMA SubmitKeepsOrder ==
  ASSUME IInv, OrderInv, NEW r \in Requests, Submit(r)
  PROVE  OrderInv'
<1>1. /\ requests' = Append(requests, r) /\ waiting' = Append(waiting, r)
      /\ decoding' = decoding
      /\ requests \in Seq(Requests) /\ waiting \in Seq(Requests)
  BY DEF Submit, IInv, TypeOK
<1>2. /\ Len(requests) \in Nat /\ DOMAIN requests = 1 .. Len(requests)
      /\ DOMAIN requests' = 1 .. Len(requests) + 1
      /\ \A i \in 1 .. Len(requests) : requests'[i] = requests[i]
      /\ requests'[Len(requests) + 1] = r
      /\ Range(requests') = Range(requests) \cup {r}
  BY <1>1, AppendFacts, LenProperties
<1>3. /\ Len(waiting) \in Nat /\ DOMAIN waiting = 1 .. Len(waiting)
      /\ DOMAIN waiting' = 1 .. Len(waiting) + 1
      /\ \A i \in 1 .. Len(waiting) : waiting'[i] = waiting[i]
      /\ waiting'[Len(waiting) + 1] = r
      /\ Range(waiting') = Range(waiting) \cup {r}
  BY <1>1, AppendFacts, LenProperties
<1> DEFINE Before(a, b) ==
      \E i, j \in DOMAIN requests' : i < j /\ requests'[i] = a /\ requests'[j] = b
<1>4. \A a, b : Precedes(a, b) => Before(a, b)
  BY <1>2 DEF Precedes
<1>5. \A q \in Queued : Before(q, r)
  <2>1. ASSUME NEW i \in 1 .. Len(requests)
        PROVE  Before(requests[i], r)
    BY <1>2
  <2> QED BY <1>2, <2>1 DEF OrderInv, Range
<1> HIDE DEF Before
<1>6. \A i, j \in DOMAIN waiting' : i < j => Before(waiting'[i], waiting'[j])
  <2> SUFFICES ASSUME NEW i \in DOMAIN waiting', NEW j \in DOMAIN waiting', i < j
               PROVE  Before(waiting'[i], waiting'[j])
    OBVIOUS
  <2>1. i \in 1 .. Len(waiting) /\ waiting'[i] = waiting[i] /\ waiting[i] \in Queued
    BY <1>3 DEF Queued, Range
  <2>2. CASE j \in 1 .. Len(waiting)
    BY <1>3, <1>4, <2>1, <2>2 DEF OrderInv, FifoOrder, InOrder
  <2>3. CASE j = Len(waiting) + 1
    BY <1>3, <1>5, <2>1, <2>3
  <2> QED BY <1>3, <2>2, <2>3
<1>7. \A i, j \in DOMAIN decoding' : i < j => Before(decoding'[i], decoding'[j])
  BY <1>1, <1>4 DEF OrderInv, FifoOrder, InOrder
<1>8. \A d \in Range(decoding'), w \in Range(waiting') : Before(d, w)
  BY <1>1, <1>3, <1>4, <1>5 DEF OrderInv, FifoOrder, Queued
<1>9. Queued' \subseteq Range(requests')
  BY <1>1, <1>2, <1>3 DEF OrderInv, Queued
<1> QED
  BY <1>6, <1>7, <1>8, <1>9 DEF OrderInv, FifoOrder, InOrder, Precedes, Before

\* A successful outcome moves the head of waiting_ to the end of decoding_.
LEMMA PromoteFacts ==
  ASSUME IInv, PrefillSucceeded
  PROVE  /\ waiting # <<>> /\ waiting' = Tail(waiting)
         /\ decoding' = Append(decoding, Head(waiting)) /\ requests' = requests
         /\ waiting \in Seq(Requests) /\ decoding \in Seq(Requests)
         /\ IsInjective(waiting)
<1>1. /\ Head(pending) = Head(waiting) /\ waiting # <<>>
      /\ RemoveFirst(waiting, Head(pending)) = Tail(waiting)
  BY OutcomeLoop DEF PrefillSucceeded
<1>2. /\ waiting' = RemoveFirst(waiting, Head(pending))
      /\ decoding' = Append(decoding, Head(pending)) /\ requests' = requests
  BY DEF PrefillSucceeded
<1> QED BY <1>1, <1>2 DEF IInv, TypeOK, QueuesMatchState

\* The request that prefill_phase() promotes is the oldest that waits, and
\* younger than all that are decoding.
LEMMA PromoteKeepsOrder ==
  ASSUME IInv, OrderInv, PrefillSucceeded
  PROVE  OrderInv'
<1> DEFINE r == Head(waiting)
<1>1. /\ waiting # <<>> /\ waiting' = Tail(waiting)
      /\ decoding' = Append(decoding, r) /\ requests' = requests
      /\ waiting \in Seq(Requests) /\ decoding \in Seq(Requests)
      /\ IsInjective(waiting)
  BY PromoteFacts
<1>2. /\ r = waiting[1] /\ r \in Requests /\ r \in Range(waiting)
      /\ Len(waiting) \in Nat /\ DOMAIN waiting = 1 .. Len(waiting)
      /\ DOMAIN waiting' = 1 .. Len(waiting) - 1
      /\ \A i \in 1 .. Len(waiting) - 1 : waiting'[i] = waiting[i + 1]
      /\ Range(waiting') = Range(waiting) \ {r}
  <2>1. /\ r \in Requests /\ r \in Range(waiting) /\ r = waiting[1]
        /\ Range(waiting') = Range(waiting) \ {r}
    BY <1>1, TailFacts
  <2>2. /\ Len(waiting) \in Nat /\ DOMAIN waiting = 1 .. Len(waiting)
        /\ waiting' \in Seq(Requests) /\ Len(waiting') = Len(waiting) - 1
        /\ \A i \in 1 .. Len(waiting') : waiting'[i] = waiting[i + 1]
    BY <1>1, HeadTailProperties, LenProperties
  <2>3. DOMAIN waiting' = 1 .. Len(waiting')
    BY <2>2, LenProperties
  <2> QED BY <2>1, <2>2, <2>3
<1>3. /\ Len(decoding) \in Nat /\ DOMAIN decoding = 1 .. Len(decoding)
      /\ DOMAIN decoding' = 1 .. Len(decoding) + 1
      /\ \A i \in 1 .. Len(decoding) : decoding'[i] = decoding[i]
      /\ decoding'[Len(decoding) + 1] = r
      /\ Range(decoding') = Range(decoding) \cup {r}
  BY <1>1, <1>2, AppendFacts, LenProperties
<1> HIDE DEF r
<1>4. \A a, b : Precedes(a, b)' <=> Precedes(a, b)
  BY <1>1 DEF Precedes
<1>5. InOrder(waiting)'
  BY <1>2, <1>4 DEF OrderInv, FifoOrder, InOrder
<1>6. InOrder(decoding)'
  <2> SUFFICES ASSUME NEW i \in DOMAIN decoding', NEW j \in DOMAIN decoding', i < j
               PROVE  Precedes(decoding'[i], decoding'[j])
    BY <1>4 DEF InOrder
  <2>1. i \in 1 .. Len(decoding) /\ decoding'[i] = decoding[i]
        /\ decoding[i] \in Range(decoding)
    BY <1>3 DEF Range
  <2>2. CASE j \in 1 .. Len(decoding)
    BY <1>3, <2>1, <2>2 DEF OrderInv, FifoOrder, InOrder
  <2>3. CASE j = Len(decoding) + 1
    BY <1>2, <1>3, <2>1, <2>3 DEF OrderInv, FifoOrder
  <2> QED BY <1>3, <2>2, <2>3
<1>7. \A w \in Range(waiting') : Precedes(r, w)
  <2> SUFFICES ASSUME NEW i \in 1 .. Len(waiting) - 1
               PROVE  Precedes(waiting[1], waiting[i + 1])
    BY <1>2 DEF Range
  <2> QED BY <1>2 DEF OrderInv, FifoOrder, InOrder
<1>8. \A d \in Range(decoding'), w \in Range(waiting') : Precedes(d, w)
  BY <1>2, <1>3, <1>7 DEF OrderInv, FifoOrder
<1>9. Queued' \subseteq Range(requests')
  BY <1>1, <1>2, <1>3 DEF OrderInv, Queued
<1> QED
  BY <1>4, <1>5, <1>6, <1>8, <1>9 DEF OrderInv, FifoOrder

\* Every step keeps the order.
LEMMA OrderStep ==
  ASSUME CallerDuties, IInv, OrderInv, [Next]_vars
  PROVE  OrderInv'
<1>1. CASE UNCHANGED <<requests, waiting, decoding, state>>
  BY <1>1 DEF OrderInv, FifoOrder, InOrder, Precedes, Queued
<1> QED BY <1>1, StepShape, SubmitKeepsOrder, RetireKeepsOrder, PromoteKeepsOrder

-----------------------------------------------------------------------------
(* Nothing is spent on what is late.                                       *)

\* While expire_deadlines() runs, what is late and still queued is collected.
ExpiryInv ==
  ExpiredNeverServed /\ (pc = "expire" => late \cap Queued \subseteq expired)

\* The steps of the outcome loops only take requests away.
LEMMA LoopsShrink ==
  ASSUME IInv, PrefillSucceeded \/ PrefillFailed \/ DecodeToken \/ DecodeFailed
  PROVE  /\ Queued' \subseteq Queued /\ Range(pending') \subseteq Range(pending)
         /\ UNCHANGED late /\ pc \in {"prefilled", "decode"}
<1>1. /\ pending' = Tail(pending) /\ UNCHANGED late /\ pending # <<>>
      /\ pc \in {"prefilled", "decode"}
  BY ZenonT(30) DEF PrefillSucceeded, PrefillFailed, DecodeToken, DecodeFailed
<1>2. Range(pending') \subseteq Range(pending)
  <2>1. pending \in Seq(Requests) /\ IsInjective(pending)
    BY <1>1 DEF IInv, TypeOK, LoopInv, QueuesMatchState
  <2> QED BY <1>1, <2>1, TailFacts
<1>3. ASSUME NEW r \in Queued, NEW to \in TerminalStates, Retire(r, to)
      PROVE  Queued' \subseteq Queued
  BY <1>3, RetireFacts DEF Queued
<1>4. "Failed" \in TerminalStates /\ "Completed" \in TerminalStates
  BY DEF TerminalStates
<1>5. CASE PrefillSucceeded
  <2>1. /\ waiting' = Tail(waiting) /\ decoding' = Append(decoding, Head(waiting))
        /\ waiting # <<>> /\ waiting \in Seq(Requests) /\ IsInjective(waiting)
        /\ decoding \in Seq(Requests)
    BY <1>5, PromoteFacts
  <2>2. /\ Range(waiting') \subseteq Range(waiting) /\ Head(waiting) \in Range(waiting)
        /\ Head(waiting) \in Requests
    BY <2>1, TailFacts
  <2>3. Range(decoding') = Range(decoding) \cup {Head(waiting)}
    BY <2>1, <2>2, AppendFacts
  <2> QED BY <1>1, <1>2, <2>2, <2>3 DEF Queued
<1>6. CASE PrefillFailed
  BY <1>1, <1>2, <1>3, <1>4, <1>6, PrefillFailedInv
<1>7. CASE DecodeToken \/ DecodeFailed
  <2>1. pc = "decode" /\ Head(pending) \in Queued
    <3>1. pc = "decode"
      BY ZenonT(30), <1>7 DEF DecodeToken, DecodeFailed
    <3> QED BY <1>1, <3>1, DecodeLoop
  <2>2. \/ Retire(Head(pending), "Completed") \/ Retire(Head(pending), "Failed")
        \/ UNCHANGED <<waiting, decoding>>
    BY ZenonT(30), <1>7 DEF DecodeToken, DecodeFailed
  <2>3. UNCHANGED <<waiting, decoding>> => Queued' = Queued
    BY DEF Queued
  <2> QED BY <1>1, <1>2, <1>3, <1>4, <2>1, <2>2, <2>3
<1> QED BY <1>5, <1>6, <1>7

\* Every step keeps late requests away from the backend.
LEMMA ExpiryStep ==
  ASSUME CallerDuties, IInv, ExpiryInv, [Next]_vars
  PROVE  ExpiryInv'
<1> USE DEF ExpiryInv, ExpiredNeverServed
<1>1. CASE UNCHANGED vars
  BY <1>1 DEF vars, Queued
<1>2. ASSUME NEW r \in Requests, PassDeadline(r)
      PROVE  ExpiryInv'
  BY <1>2 DEF PassDeadline, Queued
<1>3. ASSUME NEW r \in Requests, Submit(r)
      PROVE  ExpiryInv'
  <2>1. pc' \in {"idle", "panicked"}
    BY <1>3 DEF Submit, Proceed
  <2> QED BY <2>1
<1>4. ASSUME NEW id \in Ids, Cancel(id)
      PROVE  ExpiryInv'
  <2>1. pc' \in {"idle", "panicked"}
    BY <1>4 DEF Cancel, Proceed
  <2> QED BY <2>1
<1>5. CASE BeginTick
  <2>1. pc' = "expire" /\ late' = overdue /\ expired' = Queued \cap overdue
        /\ UNCHANGED <<waiting, decoding>>
    BY <1>5 DEF BeginTick, Overdue
  <2> QED BY <2>1 DEF Queued
<1>6. CASE ExpireOne
  <2>1. pc = "expire" /\ pc' \in {"expire", "panicked"} /\ UNCHANGED <<late, expired>>
    BY <1>6 DEF ExpireOne, Proceed
  <2>2. PICK r \in Queued : Retire(r, "Failed")
    BY <1>6, ExpireOneInv
  <2>3. Queued' \subseteq Queued
    BY <2>2, RetireFacts DEF Queued, TerminalStates
  <2> QED BY <2>1, <2>3
<1>7. CASE BeginPrefill
  <2>1. /\ pc = "expire" /\ pc' \in {"prefill", "prefilled"} /\ pending' = waiting
        /\ \A r \in Queued : r \notin expired
        /\ UNCHANGED <<waiting, decoding, late, expired>>
    BY <1>7 DEF BeginPrefill
  <2> QED BY <2>1 DEF Queued
<1>8. ASSUME NEW ok \in BOOLEAN, BackendPrefill(ok)
      PROVE  ExpiryInv'
  <2>1. /\ pc = "prefill" /\ pc' \in {"prefill", "prefilled"}
        /\ UNCHANGED <<waiting, decoding, pending, late>>
    BY <1>8 DEF BackendPrefill
  <2> QED BY <2>1 DEF Queued
<1>9. CASE PrefillSucceeded \/ PrefillFailed \/ DecodeToken \/ DecodeFailed
  <2>1. pc' # "expire"
    BY <1>9 DEF PrefillSucceeded, PrefillFailed, DecodeToken, DecodeFailed, Proceed
  <2> QED BY <1>9, <2>1, LoopsShrink
<1>10. CASE BackendDecode
  <2>1. /\ pc = "prefilled" /\ pc' \in {"decode", "panicked"} /\ pending' = decoding
        /\ UNCHANGED <<waiting, decoding, late>>
    BY ZenonT(30), <1>10 DEF BackendDecode, Proceed
  <2> QED BY <2>1 DEF Queued
<1>11. CASE EndTick
  BY <1>11 DEF EndTick
<1> QED
  BY <1>1, <1>2, <1>3, <1>4, <1>5, <1>6, <1>7, <1>8, <1>9, <1>10, <1>11
  DEF Next, TickStep

-----------------------------------------------------------------------------
(* The tick report.                                                        *)

\* What the report says while the loops run: the outcomes counted so far and
\* the requests still to come make up what was attempted.
ReportInv ==
  /\ pc = "expire" =>
       /\ report["prefill_succeeded"] = 0 /\ report["prefill_failed"] = 0
       /\ report["decode_completed"] = 0 /\ report["decode_failed"] = 0
  /\ pc \in {"prefill", "prefilled"} =>
       /\ report["prefill_attempted"] =
            report["prefill_succeeded"] + report["prefill_failed"] + Len(pending)
       /\ report["decode_completed"] = 0 /\ report["decode_failed"] = 0
  /\ pc = "decode" =>
       /\ report["prefill_attempted"] =
            report["prefill_succeeded"] + report["prefill_failed"]
       /\ report["decode_attempted"] =
            report["decode_completed"] + report["decode_failed"] + Len(decoding)

Fields ==
  {"expired_count", "prefill_attempted", "prefill_succeeded", "prefill_failed",
   "decode_attempted", "decode_completed", "decode_failed"}

\* Each counter of the report is a number, and a step that counts adds one to
\* one of them.
LEMMA CountFacts ==
  ASSUME IInv
  PROVE  /\ report \in [Fields -> Nat]
         /\ \A f \in Fields : Count(f) =>
              \A g \in Fields : report'[g] = IF g = f THEN report[g] + 1 ELSE report[g]
<1>1. report \in [Fields -> Nat]
  BY CountType DEF IInv, TypeOK, Fields
<1> QED BY <1>1 DEF Count

\* The steps of the prefill outcome loop count the request they handle.
LEMMA PrefillCounted ==
  ASSUME IInv, ReportInv, PrefillSucceeded \/ PrefillFailed, IInv'
  PROVE  ReportInv'
<1>1. /\ pc = "prefilled" /\ pending # <<>> /\ pending' = Tail(pending)
      /\ Count("prefill_succeeded") \/ Count("prefill_failed")
      /\ pc' \in {"prefilled", "panicked"}
  BY ZenonT(30) DEF PrefillSucceeded, PrefillFailed, Proceed
<1>2. pc' = "prefilled"
  BY <1>1 DEF IInv, NoPanic
<1>3. Len(Tail(pending)) = Len(pending) - 1 /\ Len(pending) \in Nat
  <2>1. pending \in Seq(Requests)
    BY DEF IInv, TypeOK
  <2> QED BY <1>1, <2>1, HeadTailProperties, LenProperties
<1>4. "prefill_succeeded" \in Fields /\ "prefill_failed" \in Fields
      /\ "prefill_attempted" \in Fields /\ "decode_completed" \in Fields
      /\ "decode_failed" \in Fields
  BY DEF Fields
<1>5. CASE Count("prefill_succeeded")
  <2>1. /\ report'["prefill_succeeded"] = report["prefill_succeeded"] + 1
        /\ report'["prefill_failed"] = report["prefill_failed"]
        /\ report'["prefill_attempted"] = report["prefill_attempted"]
        /\ report'["decode_completed"] = report["decode_completed"]
        /\ report'["decode_failed"] = report["decode_failed"]
        /\ report["prefill_succeeded"] \in Nat /\ report["prefill_failed"] \in Nat
    BY <1>4, <1>5, CountFacts
  <2> QED BY <1>1, <1>2, <1>3, <2>1 DEF ReportInv
<1>6. CASE Count("prefill_failed")
  <2>1. /\ report'["prefill_failed"] = report["prefill_failed"] + 1
        /\ report'["prefill_succeeded"] = report["prefill_succeeded"]
        /\ report'["prefill_attempted"] = report["prefill_attempted"]
        /\ report'["decode_completed"] = report["decode_completed"]
        /\ report'["decode_failed"] = report["decode_failed"]
        /\ report["prefill_succeeded"] \in Nat /\ report["prefill_failed"] \in Nat
    BY <1>4, <1>6, CountFacts
  <2> QED BY <1>1, <1>2, <1>3, <2>1 DEF ReportInv
<1> QED BY <1>1, <1>5, <1>6

\* The steps of the decode loop count the request they retire, which leaves
\* decoding_.
LEMMA DecodeCounted ==
  ASSUME IInv, ReportInv, DecodeToken \/ DecodeFailed, IInv'
  PROVE  ReportInv'
<1> DEFINE r == Head(pending)
<1>1. pc = "decode" /\ pending # <<>> /\ pc' \in {"decode", "panicked"}
  BY ZenonT(30) DEF DecodeToken, DecodeFailed, Proceed
<1>2. pc' = "decode"
  BY <1>1 DEF IInv, NoPanic
<1>3. \/ UNCHANGED <<decoding, report>>
      \/ /\ decoding' = RemoveFirst(decoding, r)
         /\ Count("decode_completed") \/ Count("decode_failed")
  BY ZenonT(30) DEF DecodeToken, DecodeFailed, Retire
<1>4. CASE UNCHANGED <<decoding, report>>
  BY <1>1, <1>2, <1>4 DEF ReportInv
<1>5. ASSUME decoding' = RemoveFirst(decoding, r)
      PROVE  Len(decoding') = Len(decoding) - 1 /\ Len(decoding) \in Nat
  <2>1. r \in Range(decoding) /\ decoding \in Seq(Requests) /\ IsInjective(decoding)
    BY <1>1, DecodeLoop DEF IInv, TypeOK, QueuesMatchState
  <2> QED BY <1>5, <2>1, RemoveFirstFacts, LenProperties
<1>6. "prefill_succeeded" \in Fields /\ "prefill_failed" \in Fields
      /\ "prefill_attempted" \in Fields /\ "decode_completed" \in Fields
      /\ "decode_failed" \in Fields /\ "decode_attempted" \in Fields
  BY DEF Fields
<1>7. report["decode_completed"] \in Nat /\ report["decode_failed"] \in Nat
  BY <1>6, CountFacts
<1>8. ASSUME decoding' = RemoveFirst(decoding, r), Count("decode_completed")
      PROVE  ReportInv'
  <2>1. /\ report'["decode_completed"] = report["decode_completed"] + 1
        /\ report'["decode_failed"] = report["decode_failed"]
        /\ report'["decode_attempted"] = report["decode_attempted"]
        /\ report'["prefill_succeeded"] = report["prefill_succeeded"]
        /\ report'["prefill_failed"] = report["prefill_failed"]
        /\ report'["prefill_attempted"] = report["prefill_attempted"]
    BY <1>6, <1>8, CountFacts
  <2>2. Len(decoding') = Len(decoding) - 1 /\ Len(decoding) \in Nat
    BY <1>5, <1>8
  <2> QED BY <1>1, <1>2, <1>7, <2>1, <2>2 DEF ReportInv
<1>9. ASSUME decoding' = RemoveFirst(decoding, r), Count("decode_failed")
      PROVE  ReportInv'
  <2>1. /\ report'["decode_failed"] = report["decode_failed"] + 1
        /\ report'["decode_completed"] = report["decode_completed"]
        /\ report'["decode_attempted"] = report["decode_attempted"]
        /\ report'["prefill_succeeded"] = report["prefill_succeeded"]
        /\ report'["prefill_failed"] = report["prefill_failed"]
        /\ report'["prefill_attempted"] = report["prefill_attempted"]
    BY <1>6, <1>9, CountFacts
  <2>2. Len(decoding') = Len(decoding) - 1 /\ Len(decoding) \in Nat
    BY <1>5, <1>9
  <2> QED BY <1>1, <1>2, <1>7, <2>1, <2>2 DEF ReportInv
<1> QED BY <1>3, <1>4, <1>8, <1>9

\* Every step keeps the books.
LEMMA ReportStep ==
  ASSUME CallerDuties, IInv, IInv', ReportInv, [Next]_vars
  PROVE  ReportInv'
<1>1. CASE UNCHANGED vars
  BY <1>1 DEF vars, ReportInv
<1>2. ASSUME NEW r \in Requests, PassDeadline(r)
      PROVE  ReportInv'
  BY <1>2 DEF PassDeadline, ReportInv
<1>3. ASSUME NEW r \in Requests, Submit(r)
      PROVE  ReportInv'
  <2>1. pc' \in {"idle", "panicked"}
    BY <1>3 DEF Submit, Proceed
  <2> QED BY <2>1 DEF ReportInv
<1>4. ASSUME NEW id \in Ids, Cancel(id)
      PROVE  ReportInv'
  <2>1. pc' \in {"idle", "panicked"}
    BY <1>4 DEF Cancel, Proceed
  <2> QED BY <2>1 DEF ReportInv
<1>5. CASE BeginTick
  <2>1. pc' = "expire"
        /\ report' = [EmptyReport EXCEPT !.expired_count = Cardinality(expired')]
    BY <1>5 DEF BeginTick
  <2>2. /\ report'["prefill_succeeded"] = 0 /\ report'["prefill_failed"] = 0
        /\ report'["decode_completed"] = 0 /\ report'["decode_failed"] = 0
    BY <2>1 DEF EmptyReport
  <2> QED BY <2>1, <2>2 DEF ReportInv
<1>6. CASE ExpireOne
  <2>1. pc = "expire" /\ pc' \in {"expire", "panicked"} /\ UNCHANGED report
    BY <1>6 DEF ExpireOne, Proceed
  <2> QED BY <2>1 DEF ReportInv
<1>7. CASE BeginPrefill
  <2>1. /\ pc = "expire" /\ pc' \in {"prefill", "prefilled"} /\ pending' = waiting
        /\ report' = [report EXCEPT !.prefill_attempted = Len(waiting)]
    BY <1>7 DEF BeginPrefill
  <2>2. report \in [Fields -> Nat] /\ Len(waiting) \in Nat
    BY CountFacts, LenProperties DEF IInv, TypeOK
  <2>3. /\ report'["prefill_attempted"] = Len(waiting)
        /\ report'["prefill_succeeded"] = report["prefill_succeeded"]
        /\ report'["prefill_failed"] = report["prefill_failed"]
        /\ report'["decode_completed"] = report["decode_completed"]
        /\ report'["decode_failed"] = report["decode_failed"]
    BY <2>1, <2>2 DEF Fields
  <2>4. report["prefill_succeeded"] = 0 /\ report["prefill_failed"] = 0
        /\ report["decode_completed"] = 0 /\ report["decode_failed"] = 0
    BY <2>1 DEF ReportInv
  <2>5. Len(pending') = Len(waiting)
    BY <2>1
  <2>6. pc' \in {"prefill", "prefilled"}
    BY <2>1
  <2> QED BY <2>2, <2>3, <2>4, <2>5, <2>6 DEF ReportInv
<1>8. ASSUME NEW ok \in BOOLEAN, BackendPrefill(ok)
      PROVE  ReportInv'
  <2>1. /\ pc = "prefill" /\ pc' \in {"prefill", "prefilled"}
        /\ UNCHANGED <<pending, report>>
    BY <1>8 DEF BackendPrefill
  <2> QED BY <2>1 DEF ReportInv
<1>9. CASE BackendDecode
  <2>1. /\ pc = "prefilled" /\ pending = <<>> /\ pc' \in {"decode", "panicked"}
        /\ report' = [report EXCEPT !.decode_attempted = Len(decoding)]
        /\ decoding' = decoding
    BY ZenonT(30), <1>9 DEF BackendDecode, Proceed
  <2>2. report \in [Fields -> Nat] /\ Len(decoding) \in Nat
    BY CountFacts, LenProperties DEF IInv, TypeOK
  <2>3. /\ report'["decode_attempted"] = Len(decoding)
        /\ report'["prefill_attempted"] = report["prefill_attempted"]
        /\ report'["prefill_succeeded"] = report["prefill_succeeded"]
        /\ report'["prefill_failed"] = report["prefill_failed"]
        /\ report'["decode_completed"] = report["decode_completed"]
        /\ report'["decode_failed"] = report["decode_failed"]
    BY <2>1, <2>2 DEF Fields
  <2>4. report["prefill_succeeded"] \in Nat /\ report["prefill_failed"] \in Nat
    BY <2>2 DEF Fields
  <2>5. Len(pending) = 0
    BY <2>1
  <2>6. /\ report["prefill_attempted"] =
             report["prefill_succeeded"] + report["prefill_failed"]
        /\ report["decode_completed"] = 0 /\ report["decode_failed"] = 0
    BY <2>1, <2>4, <2>5 DEF ReportInv
  <2>7. Len(decoding') = Len(decoding)
    BY <2>1
  <2>8. pc' \in {"decode", "panicked"}
    BY <2>1
  <2> QED BY <2>2, <2>3, <2>6, <2>7, <2>8 DEF ReportInv
<1>10. CASE EndTick
  <2>1. pc' = "idle"
    BY <1>10 DEF EndTick
  <2> QED BY <2>1 DEF ReportInv
<1> QED
  BY <1>1, <1>2, <1>3, <1>4, <1>5, <1>6, <1>7, <1>8, <1>9, <1>10,
     PrefillCounted, DecodeCounted
  DEF Next, TickStep
=============================================================================
