------------------------ MODULE FifoScheduler_proofs ------------------------
(***************************************************************************)
(* Proofs about FifoScheduler for any set of requests and ids, under the   *)
(* two duties of its callers: ids are unique among live requests, and      *)
(* every request may emit at least one token.                              *)
(***************************************************************************)
EXTENDS SchedulerRefinement, FifoService_proofs, FiniteSetTheorems

USE SMTT(30)

\* A sequence has finitely many elements.
LEMMA FiniteRange ==
  ASSUME NEW S, NEW s \in Seq(S)
  PROVE  IsFiniteSet(Range(s))
<1>1. Len(s) \in Nat /\ s \in [1 .. Len(s) -> S] /\ DOMAIN s = 1 .. Len(s)
  BY LenProperties
<1>2. s \in Surjection(1 .. Len(s), Range(s))
  BY <1>1 DEF Surjection, Range
<1>3. IsFiniteSet(1 .. Len(s))
  BY <1>1, FS_Interval
<1> QED BY <1>2, <1>3, FS_Surjection

\* Collecting what expire_deadlines() will retire keeps the invariant.
LEMMA BeginTickInv ==
  ASSUME IInv, BeginTick
  PROVE  IInv'
<1>1. /\ pc = "idle" /\ pc' = "expire"
      /\ UNCHANGED <<requests, state, emitted, overdue, waiting, decoding,
                     handles, sequences, minted, pending, results>>
      /\ expired' \subseteq Queued /\ late' = overdue
      /\ report' = [EmptyReport EXCEPT !.expired_count = Cardinality(expired')]
  BY DEF BeginTick, Overdue
<1>2. Cardinality(expired') \in Nat
  <2>1. IsFiniteSet(Queued)
    BY ZenonT(30), FiniteRange, FS_Union DEF IInv, TypeOK, Queued
  <2> QED BY <1>1, <2>1, FS_Subset, FS_CardinalityType
<1>3. TypeOK'
  <2>1. report' \in [DOMAIN EmptyReport -> Nat]
    BY <1>1, <1>2 DEF EmptyReport
  <2> QED BY ZenonT(30), <1>1, <2>1, QueuedState DEF IInv, TypeOK, PcValues
<1> QED
  BY <1>1, <1>3 DEF IInv, NoPanic, QueuesMatchState, UniqueIds, Queued,
     OutputLeft, HandlesExact, InFlight, LoopInv

-----------------------------------------------------------------------------
(* The inductive invariant and what follows from it.                       *)

\* Every step of the scheduler, of its callers and of the clock keeps the
\* invariant.
LEMMA NextInv ==
  ASSUME CallerDuties, IInv, [Next]_vars
  PROVE  IInv'
<1>1. CASE UNCHANGED vars
  <2>1. TypeOK' /\ NoPanic' /\ QueuesMatchState' /\ UniqueIds' /\ OutputLeft'
    BY <1>1 DEF vars, IInv, TypeOK, NoPanic, QueuesMatchState, UniqueIds, Queued,
       OutputLeft
  <2>2. HandlesExact' /\ LoopInv'
    BY <1>1 DEF vars, IInv, HandlesExact, InFlight, LoopInv
  <2> QED BY <2>1, <2>2 DEF IInv
<1>2. CASE \E r \in Requests : Submit(r) \/ PassDeadline(r)
  BY <1>2, SubmitInv, PassDeadlineInv
<1>3. CASE \E id \in Ids : Cancel(id)
  BY <1>3, CancelInv
<1>4. CASE BeginTick
  BY <1>4, BeginTickInv
<1>5. CASE TickStep
  BY <1>5, ExpireOneInv, BeginPrefillInv, BackendPrefillInv, PrefillSucceededInv,
     PrefillFailedInv, BackendDecodeInv, DecodeTokenInv, DecodeFailedInv, EndTickInv
  DEF TickStep
<1> QED BY <1>1, <1>2, <1>3, <1>4, <1>5 DEF Next

\* The strengthened invariant holds throughout every execution whose callers
\* keep ids unique among live requests and ask for at least one token.
THEOREM Invariance ==
  ASSUME CallerDuties
  PROVE  Spec => []IInv
<1>1. Init => IInv
  BY InitInv
<1>2. IInv /\ [Next]_vars => IInv'
  BY NextInv
<1> QED BY <1>1, <1>2, PTL DEF Spec

\* fifo_scheduler.cpp keeps every member at its type.
THEOREM TypeCorrect == ASSUME CallerDuties PROVE Spec => []TypeOK
<1>1. IInv => TypeOK
  BY DEF IInv
<1> QED BY <1>1, Invariance, PTL

\* No call of submit(), cancel() or tick() panics or throws, whatever fails and
\* whichever deadlines pass.
THEOREM NeverPanics == ASSUME CallerDuties PROVE Spec => []NoPanic
<1>1. IInv => NoPanic
  BY DEF IInv
<1> QED BY <1>1, Invariance, PTL

\* waiting_, decoding_ and the lifecycle states agree at every step.
THEOREM QueuesAgree == ASSUME CallerDuties PROVE Spec => []QueuesMatchState
<1>1. IInv => QueuesMatchState
  BY DEF IInv
<1> QED BY <1>1, Invariance, PTL

\* ADR-007: each handle is held for the one request it was made for, released
\* when that request ends, and never leaked.
THEOREM HandlesReleasedOnce ==
  ASSUME CallerDuties PROVE Spec => []HandlesExact
<1>1. IInv => HandlesExact
  BY DEF IInv
<1> QED BY <1>1, Invariance, PTL

\* retire() is for good: a terminal request keeps its state and its token count,
\* whatever the running tick still holds for it.
THEOREM TerminalForGood == ASSUME CallerDuties PROVE Spec => TerminalIsFinal
<1>1. IInv /\ [Next]_vars =>
        [\A r \in Requests : IsTerminal(state[r]) =>
           state'[r] = state[r] /\ emitted'[r] = emitted[r]]_vars
  BY TerminalStep
<1> QED BY <1>1, Invariance, PTL DEF Spec, TerminalIsFinal

\* waiting_ and decoding_ are in the order of submission, whatever was promoted,
\* failed, cancelled or expired: service is first come, first served.
THEOREM OldestFirst == ASSUME CallerDuties PROVE Spec => []FifoOrder
<1>1. Init => OrderInv
  BY DEF Init, OrderInv, FifoOrder, InOrder, Queued, Range
<1>2. IInv /\ OrderInv /\ [Next]_vars => OrderInv'
  BY OrderStep
<1>3. OrderInv => FifoOrder
  BY DEF OrderInv
<1> QED BY <1>1, <1>2, <1>3, Invariance, PTL DEF Spec

\* expire_deadlines() is thorough: once the backend is called, nothing that was
\* past its deadline when the tick began is queued or in a batch.
THEOREM LateNeverServed == ASSUME CallerDuties PROVE Spec => []ExpiredNeverServed
<1>1. Init => ExpiryInv
  BY DEF Init, ExpiryInv, ExpiredNeverServed
<1>2. IInv /\ ExpiryInv /\ [Next]_vars => ExpiryInv'
  BY ExpiryStep
<1>3. ExpiryInv => ExpiredNeverServed
  BY DEF ExpiryInv
<1> QED BY <1>1, <1>2, <1>3, Invariance, PTL DEF Spec

\* tick() reports what it did: at its end every attempted prefill is counted as
\* a success or a failure, every attempted decode as completed, failed or still
\* in decoding_, and nothing waits.
THEOREM ReportAddsUp == ASSUME CallerDuties PROVE Spec => []TickAccounting
<1>1. Init => ReportInv
  BY DEF Init, ReportInv
<1>2. IInv /\ IInv' /\ ReportInv /\ [Next]_vars => ReportInv'
  BY ReportStep
<1>3. IInv /\ ReportInv => TickAccounting
  BY DEF IInv, LoopInv, ReportInv, TickAccounting
<1> QED BY <1>1, <1>2, <1>3, Invariance, PTL DEF Spec

-----------------------------------------------------------------------------
(* The scheduler implements its contract.                                  *)

LiveStates == {"WaitingPrefill", "Decoding"}

\* The running tick has yet to decide about r.
ToGo(r) ==
  /\ state[r] \in LiveStates /\ emitted[r] = before.emitted[r]
  /\ pc = "decode" => r \in Range(pending)

\* The running tick has failed r, completed it, or given it a token.
Served(r) ==
  \/ state[r] = "Failed" /\ emitted[r] = before.emitted[r]
  \/ state[r] = "Completed" /\ emitted[r] = before.emitted[r] + 1
  \/ /\ state[r] = "Decoding" /\ emitted[r] = before.emitted[r] + 1
     /\ pc = "decode" /\ r \notin Range(pending)

Untouched(r) == state[r] = before.state[r] /\ emitted[r] = before.emitted[r]

\* What has become of r since the tick began.
Progress(r) ==
  IF before.state[r] \in LiveStates THEN ToGo(r) \/ Served(r) ELSE Untouched(r)

TickInv ==
  /\ before.state \in [Requests -> RequestStates]
  /\ before.emitted \in [Requests -> Nat]
  /\ pc # "idle" => \A r \in Requests : Progress(r)

\* A queued request has not had its turn in the running tick, unless it is
\* decoding and the decode loop has passed it.
LEMMA QueuedIsToGo ==
  ASSUME IInv, TickInv, pc # "idle", NEW r \in Queued,
         pc = "decode" => r \in Range(pending)
  PROVE  before.state[r] \in LiveStates /\ ToGo(r)
<1>1. r \in Requests /\ state[r] \in LiveStates
  BY QueuedState DEF IInv, Queued, LiveStates
<1> QED BY <1>1 DEF TickInv, Progress, ToGo, Served, Untouched, LiveStates

\* Failing a request, in any of the three phases, is a turn of it.
LEMMA FailProgress ==
  ASSUME IInv, TickInv, pc # "idle", pc' = pc, NEW q \in Queued,
         Retire(q, "Failed"), UNCHANGED <<emitted, before>>,
         pc = "decode" => /\ q \in Range(pending)
                          /\ Range(pending') = Range(pending) \ {q}
  PROVE  TickInv'
<1>1. /\ q \in Requests
      /\ \A r \in Requests : state'[r] = IF r = q THEN "Failed" ELSE state[r]
  BY RetireFacts, QueuedState DEF IInv, TerminalStates
<1>2. before.state[q] \in LiveStates /\ ToGo(q)
  BY QueuedIsToGo
<1>3. ASSUME NEW r \in Requests PROVE Progress(r)'
  <2>1. CASE r = q
    BY <1>1, <1>2, <2>1 DEF Progress, ToGo, Served
  <2>2. CASE r # q
    BY <1>1, <2>2 DEF TickInv, Progress, ToGo, Served, Untouched
  <2> QED BY <2>1, <2>2
<1> QED BY <1>3 DEF TickInv

\* Before the decode loop begins, a step that moves no token and takes no
\* request out of the live states is nobody's turn.
LEMMA QuietProgress ==
  ASSUME TickInv, pc # "idle", pc # "decode", UNCHANGED <<emitted, before>>,
         \A r \in Requests : \/ state'[r] = state[r]
                             \/ state[r] \in LiveStates /\ state'[r] \in LiveStates,
         pc' = "decode" => \A r \in Requests :
                             state'[r] \in LiveStates => r \in Range(pending')
  PROVE  TickInv'
<1>1. ASSUME NEW r \in Requests PROVE Progress(r)'
  <2>1. Progress(r)
    BY DEF TickInv
  <2>2. CASE before.state[r] \in LiveStates
    BY <2>1, <2>2 DEF Progress, ToGo, Served, LiveStates
  <2>3. CASE before.state[r] \notin LiveStates
    BY <2>1, <2>3 DEF Progress, Untouched
  <2> QED BY <2>2, <2>3
<1> QED BY <1>1 DEF TickInv

\* A token is a turn of the request at the head of the decode loop.
LEMMA TokenProgress ==
  ASSUME IInv, IInv', TickInv, DecodeToken, before' = before
  PROVE  TickInv'
<1> DEFINE q == Head(pending)
<1>1. /\ pc = "decode" /\ pending # <<>> /\ pending' = Tail(pending)
      /\ emitted' = [emitted EXCEPT ![q] = @ + 1]
      /\ Retire(q, "Completed") \/ UNCHANGED state
  BY DEF DecodeToken
<1>2. pc' = "decode"
  BY DEF DecodeToken, Proceed, IInv, NoPanic
<1>3. /\ q \in Queued /\ q \in Requests /\ q \in Range(pending)
      /\ state[q] = "Decoding" /\ Range(pending') = Range(pending) \ {q}
  <2>1. q \in Queued /\ q \in Requests /\ q \in Range(decoding)
    BY <1>1, DecodeLoop
  <2>2. q \in Range(pending) /\ Range(Tail(pending)) = Range(pending) \ {q}
    BY <1>1, TailFacts DEF IInv, TypeOK, LoopInv
  <2> QED BY <1>1, <2>1, <2>2, QueuedState DEF IInv
<1>4. before.state[q] \in LiveStates /\ ToGo(q)
  BY <1>1, <1>3, QueuedIsToGo
<1>5. \A r \in Requests : emitted'[r] = IF r = q THEN emitted[r] + 1 ELSE emitted[r]
  BY <1>1 DEF IInv, TypeOK
<1>6. \/ \A r \in Requests : state'[r] = IF r = q THEN "Completed" ELSE state[r]
      \/ UNCHANGED state
  BY <1>1, <1>3, RetireFacts DEF TerminalStates
<1> HIDE DEF q
<1>7. ASSUME NEW r \in Requests PROVE Progress(r)'
  <2>1. CASE r = q
    <3>1. emitted'[r] = before.emitted[r] + 1 /\ r \notin Range(pending')
      BY <1>3, <1>4, <1>5, <2>1 DEF ToGo
    <3>2. state'[r] = "Completed" \/ state'[r] = "Decoding"
      BY <1>3, <1>6, <2>1
    <3> QED BY <1>2, <1>4, <2>1, <3>1, <3>2 DEF Progress, Served
  <2>2. CASE r # q
    <3>1. /\ state'[r] = state[r] /\ emitted'[r] = emitted[r]
          /\ r \in Range(pending') <=> r \in Range(pending)
      BY <1>3, <1>5, <1>6, <2>2
    <3> QED BY <1>1, <1>2, <3>1 DEF TickInv, Progress, ToGo, Served, Untouched
  <2> QED BY <2>1, <2>2
<1> QED BY <1>7 DEF TickInv

\* Every step of a running tick keeps the account of what it has done.
LEMMA ProgressStep ==
  ASSUME CallerDuties, IInv, IInv', TickInv, Next, pc # "idle", before' = before,
         pc' # "idle"
  PROVE  TickInv'
<1>0. pc' # "panicked"
  BY DEF IInv, NoPanic
<1>1. ASSUME NEW r \in Requests, PassDeadline(r) PROVE TickInv'
  BY <1>1 DEF PassDeadline, TickInv, Progress, ToGo, Served, Untouched
<1>2. CASE ExpireOne
  <2>1. pc = "expire" /\ pc' = "expire" /\ UNCHANGED emitted
    BY <1>0, <1>2 DEF ExpireOne, Proceed
  <2> QED BY <1>2, <2>1, ExpireOneInv, FailProgress
<1>3. CASE BeginPrefill
  <2>1. pc = "expire" /\ pc' # "decode" /\ UNCHANGED <<state, emitted>>
    BY <1>3 DEF BeginPrefill
  <2> QED BY <2>1, QuietProgress
<1>4. ASSUME NEW ok \in BOOLEAN, BackendPrefill(ok) PROVE TickInv'
  <2>1. pc = "prefill" /\ pc' # "decode" /\ UNCHANGED <<state, emitted>>
    BY <1>4 DEF BackendPrefill
  <2> QED BY <2>1, QuietProgress
<1>5. CASE PrefillSucceeded
  <2>1. /\ pc = "prefilled" /\ pc' = "prefilled" /\ UNCHANGED emitted
        /\ state' = [state EXCEPT ![Head(pending)] = "Decoding"]
        /\ pending # <<>>
    BY <1>0, <1>5 DEF PrefillSucceeded, Proceed
  <2>2. state[Head(pending)] \in LiveStates
    <3>1. Head(pending) \in Range(waiting)
      BY <2>1, OutcomeLoop
    <3> QED BY <3>1, QueuedState DEF IInv, LiveStates
  <2>3. \A r \in Requests : \/ state'[r] = state[r]
                            \/ state[r] \in LiveStates /\ state'[r] \in LiveStates
    BY <2>1, <2>2 DEF IInv, TypeOK, LiveStates
  <2> QED BY <2>1, <2>3, QuietProgress
<1>6. CASE PrefillFailed
  <2>1. pc = "prefilled" /\ pc' = "prefilled" /\ UNCHANGED emitted
    BY <1>0, <1>6 DEF PrefillFailed, Proceed
  <2> QED BY <1>6, <2>1, PrefillFailedInv, FailProgress
<1>7. CASE BackendDecode
  <2>1. /\ pc = "prefilled" /\ pending = <<>> /\ pending' = decoding
        /\ UNCHANGED <<state, emitted>>
    BY <1>7 DEF BackendDecode
  <2>2. \A r \in Requests : state[r] \in LiveStates => r \in Range(decoding)
    BY <2>1 DEF IInv, LoopInv, QueuesMatchState, LiveStates, Range
  <2> QED BY <2>1, <2>2, QuietProgress
<1>8. CASE DecodeToken
  BY <1>8, TokenProgress
<1>9. CASE DecodeFailed
  <2>1. /\ pc = "decode" /\ pc' = "decode" /\ UNCHANGED emitted
        /\ pending # <<>> /\ pending' = Tail(pending) /\ Retire(Head(pending), "Failed")
    BY <1>0, <1>9 DEF DecodeFailed, Proceed
  <2>2. /\ Head(pending) \in Range(pending)
        /\ Range(Tail(pending)) = Range(pending) \ {Head(pending)}
    BY <2>1, TailFacts DEF IInv, TypeOK, LoopInv
  <2>3. Head(pending) \in Queued
    BY <2>1, DecodeLoop
  <2> QED BY <2>1, <2>2, <2>3, FailProgress
<1>10. CASE EndTick
  BY <1>10 DEF EndTick
<1>11. ASSUME NEW r \in Requests PROVE ~Submit(r)
  BY DEF Submit
<1>12. ASSUME NEW id \in Ids PROVE ~Cancel(id)
  BY ZenonT(30) DEF Cancel
<1>13. ~BeginTick
  BY DEF BeginTick
<1> QED
  BY <1>1, <1>2, <1>3, <1>4, <1>5, <1>6, <1>7, <1>8, <1>9, <1>10, <1>11, <1>12,
     <1>13 DEF Next, TickStep

\* Between ticks, only tick() leaves the idle state, and it begins by changing
\* nothing that callers see.
LEMMA IdleStep ==
  ASSUME IInv', Next, pc = "idle"
  PROVE  \/ BeginTick
         \/ /\ pc' = "idle"
            /\ \/ \E r \in Requests : Submit(r) \/ PassDeadline(r)
               \/ \E id \in Ids : Cancel(id)
<1>1. ~TickStep
  BY ZenonT(30) DEF TickStep, ExpireOne, BeginPrefill, BackendPrefill, PrefillSucceeded,
     PrefillFailed, BackendDecode, DecodeToken, DecodeFailed, EndTick
<1>2. ASSUME NEW r \in Requests, Submit(r) \/ PassDeadline(r) PROVE pc' = "idle"
  BY <1>2 DEF Submit, PassDeadline, Proceed, IInv, NoPanic
<1>3. ASSUME NEW id \in Ids, Cancel(id) PROVE pc' = "idle"
  BY <1>3 DEF Cancel, Proceed, IInv, NoPanic
<1> QED BY <1>1, <1>2, <1>3 DEF Next

\* TickInv holds of every step of the scheduler.
LEMMA TickInvStep ==
  ASSUME CallerDuties, IInv, IInv', TickInv, [RNext]_<<vars, before>>
  PROVE  TickInv'
<1>1. CASE UNCHANGED <<vars, before>>
  BY <1>1 DEF vars, TickInv, Progress, ToGo, Served, Untouched
<1>2. CASE RNext /\ pc = "idle"
  <2>1. Next /\ before'.state = state /\ before'.emitted = emitted
    BY <1>2 DEF RNext, Current
  <2>2. /\ before'.state \in [Requests -> RequestStates]
        /\ before'.emitted \in [Requests -> Nat]
    BY <2>1 DEF IInv, TypeOK
  <2>3. CASE pc' = "idle"
    BY <2>2, <2>3 DEF TickInv
  <2>4. CASE BeginTick
    <3>1. UNCHANGED <<state, emitted>> /\ pc' = "expire"
      BY <2>4 DEF BeginTick
    <3> QED BY <2>1, <2>2, <3>1 DEF TickInv, Progress, ToGo, Untouched
  <2> QED BY <1>2, <2>1, <2>3, <2>4, IdleStep
<1>3. CASE RNext /\ pc # "idle"
  <2>1. Next /\ before' = before
    BY <1>3 DEF RNext
  <2>2. CASE pc' = "idle"
    BY <2>1, <2>2 DEF TickInv
  <2> QED BY <1>3, <2>1, <2>2, ProgressStep
<1> QED BY <1>1, <1>2, <1>3

\* The contract submits a batch, submit() one request.
LEMMA BatchOfOne ==
  ASSUME NEW S, NEW T, NEW f \in [S -> T], NEW r \in S, NEW v
  PROVE  [f EXCEPT ![r] = v] = [q \in S |-> IF q \in {r} THEN v ELSE f[q]]
<1>1. [q \in S |-> IF q \in {r} THEN v ELSE f[q]] = [q \in S |-> IF q = r THEN v ELSE f[q]]
  BY ZenonT(30)
<1>2. [f EXCEPT ![r] = v] = [q \in S |-> IF q = r THEN v ELSE f[q]]
  BY ZenonT(30)
<1> QED BY <1>1, <1>2

\* submit(), cancel() and deadlines between ticks are the contract's, or change
\* nothing it can see.
LEMMA IdleRefines ==
  ASSUME CallerDuties, IInv, IInv', RNext, pc = "idle"
  PROVE  [Contract!Next]_<<VisibleState, VisibleEmitted>>
<1>0. state \in [Requests -> RequestStates] /\ emitted \in [Requests -> Nat]
  BY DEF IInv, TypeOK
<1>1. VisibleState = state /\ VisibleEmitted = emitted
  BY DEF VisibleState, VisibleEmitted
<1>2. CASE BeginTick
  <2>1. /\ UNCHANGED <<state, emitted>> /\ pc' = "expire"
        /\ before'.state = state /\ before'.emitted = emitted
    BY <1>2 DEF BeginTick, RNext, Current
  <2> QED BY <1>1, <2>1 DEF VisibleState, VisibleEmitted
<1>3. CASE pc' = "idle"
  <2>0. VisibleState' = state' /\ VisibleEmitted' = emitted'
    BY <1>3 DEF VisibleState, VisibleEmitted
  <2>1. ASSUME NEW r \in Requests, Submit(r) PROVE Contract!SubmitAll({r})
    <3>1. /\ state[r] = "Received" /\ state' = [state EXCEPT ![r] = "WaitingPrefill"]
          /\ UNCHANGED emitted
      BY <2>1 DEF Submit
    <3>2. state' = [q \in Requests |-> IF q \in {r} THEN "WaitingPrefill" ELSE state[q]]
      BY ZenonT(30), <1>0, <3>1, BatchOfOne
    <3>3. \A q \in {r} : VisibleState[q] = "Received"
      BY <1>1, <3>1
    <3>4. VisibleState' = [q \in Requests |->
             IF q \in {r} THEN "WaitingPrefill" ELSE VisibleState[q]]
      BY ZenonT(30), <1>1, <2>0, <3>2
    <3> QED BY ZenonT(30), <1>1, <2>0, <3>1, <3>3, <3>4 DEF Contract!SubmitAll
  <2>2. ASSUME NEW id \in Ids, Cancel(id) PROVE \E r \in Requests : Contract!Cancel(r)
    <3>1. PICK r \in Queued : Retire(r, "Cancelled")
      BY <2>2, CancelInv
    <3>2. UNCHANGED emitted /\ state' = [state EXCEPT ![r] = "Cancelled"]
      <4>1. UNCHANGED emitted
        BY ZenonT(30), <2>2 DEF Cancel
      <4> QED BY <3>1, <4>1 DEF Retire
    <3>3. r \in Requests /\ state[r] \in {"WaitingPrefill", "Decoding"}
      BY QueuedState DEF IInv, Queued
    <3>4. Contract!Live(r)
      BY <1>1, <3>3 DEF Contract!Live
    <3>5. Contract!Cancel(r)
      BY ZenonT(30), <1>1, <2>0, <3>2, <3>4 DEF Contract!Cancel
    <3> QED BY <3>3, <3>5
  <2>3. ASSUME NEW r \in Requests, PassDeadline(r) PROVE UNCHANGED <<state, emitted>>
    BY <2>3 DEF PassDeadline
  <2>4. \/ \E r \in Requests : Submit(r) \/ PassDeadline(r)
        \/ \E id \in Ids : Cancel(id)
    BY <1>3, IdleStep DEF RNext, BeginTick
  <2> QED BY <1>1, <2>0, <2>1, <2>2, <2>3, <2>4 DEF Contract!Next
<1> QED BY <1>2, <1>3, IdleStep DEF RNext

\* The end of a tick is the contract's tick: everybody who was live has had a
\* turn.
LEMMA EndRefines ==
  ASSUME IInv, TickInv, EndTick, before' = before
  PROVE  Contract!Tick
<1>1. /\ pc = "decode" /\ pending = <<>> /\ pc' = "idle" /\ UNCHANGED <<state, emitted>>
  BY DEF EndTick
<1>2. /\ VisibleState = before.state /\ VisibleEmitted = before.emitted
      /\ VisibleState' = state /\ VisibleEmitted' = emitted
  BY <1>1 DEF VisibleState, VisibleEmitted
<1>3. Range(pending) = {}
  BY <1>1 DEF Range
<1> DEFINE live == {r \in Requests : before.state[r] \in LiveStates}
           outcome == [r \in live |-> CASE state[r] = "Failed" -> "failed"
                                        [] state[r] = "Completed" -> "eos"
                                        [] OTHER -> "token"]
<1>4. ASSUME NEW r \in live
      PROVE  /\ outcome[r] \in Contract!Outcomes
             /\ state[r] = Contract!After(r, outcome[r])
             /\ emitted[r] = IF outcome[r] # "failed" THEN before.emitted[r] + 1
                                                      ELSE before.emitted[r]
  <2>1. Served(r)
    BY <1>1, <1>3 DEF TickInv, Progress, ToGo
  <2>2. before.emitted[r] \in Nat
    BY DEF TickInv
  <2>3. CASE state[r] = "Failed"
    BY <1>2, <2>1, <2>3 DEF Served, Contract!Outcomes, Contract!After
  <2>4. CASE state[r] = "Completed"
    BY <1>2, <2>1, <2>4 DEF Served, Contract!Outcomes, Contract!After
  <2>5. CASE state[r] = "Decoding"
    <3>1. emitted[r] < MaxOutput[r] /\ emitted[r] = before.emitted[r] + 1
      BY <2>1, <2>5 DEF Served, IInv, OutputLeft, IsTerminal, TerminalStates
    <3>2. ~(before.emitted[r] + 1 >= MaxOutput[r])
      BY <3>1, <2>2, ConstantsAssumption
    <3> QED BY <1>2, <2>5, <3>1, <3>2 DEF Contract!Outcomes, Contract!After
  <2> QED BY <2>1, <2>3, <2>4, <2>5 DEF Served
<1>5. ASSUME NEW r \in Requests \ live
      PROVE  state[r] = before.state[r] /\ emitted[r] = before.emitted[r]
  BY <1>1 DEF TickInv, Progress, Untouched
<1>6. \A r \in Requests : Contract!Live(r) <=> r \in live
  BY <1>2 DEF Contract!Live, LiveStates
<1>7. outcome \in [{r \in Requests : Contract!Live(r)} -> Contract!Outcomes]
  <2>1. {r \in Requests : Contract!Live(r)} = live
    BY <1>6
  <2>2. \A r \in live : outcome[r] \in Contract!Outcomes
    BY <1>4
  <2>3. outcome = [r \in live |-> outcome[r]]
    OBVIOUS
  <2> HIDE DEF live, outcome
  <2>4. outcome \in [live -> Contract!Outcomes]
    BY <2>2, <2>3
  <2> QED BY ZenonT(30), <2>1, <2>4
<1> HIDE DEF live, outcome
<1>8. VisibleState' = [r \in Requests |-> IF Contract!Live(r)
                          THEN Contract!After(r, outcome[r]) ELSE VisibleState[r]]
  BY <1>2, <1>4, <1>5, <1>6 DEF IInv, TypeOK
<1>9. VisibleEmitted' = [r \in Requests |->
         IF Contract!Live(r) /\ outcome[r] # "failed" THEN VisibleEmitted[r] + 1
                                                      ELSE VisibleEmitted[r]]
  BY <1>2, <1>4, <1>5, <1>6 DEF IInv, TypeOK
<1> QED BY <1>7, <1>8, <1>9 DEF Contract!Tick

\* Every step of the scheduler is a step of the contract or invisible to it.
LEMMA StepRefines ==
  ASSUME CallerDuties, IInv, IInv', TickInv, [RNext]_<<vars, before>>
  PROVE  [Contract!Next]_<<VisibleState, VisibleEmitted>>
<1>1. CASE UNCHANGED <<vars, before>>
  BY <1>1 DEF vars, VisibleState, VisibleEmitted
<1>2. CASE RNext /\ pc = "idle"
  BY <1>2, IdleRefines
<1>3. CASE RNext /\ pc # "idle"
  <2>1. Next /\ before' = before
    BY <1>3 DEF RNext
  <2>2. CASE pc' # "idle"
    BY <1>3, <2>1, <2>2 DEF VisibleState, VisibleEmitted
  <2>3. CASE pc' = "idle"
    <3>1. EndTick
      BY ZenonT(30), <1>3, <2>1, <2>3 DEF Next, TickStep, Submit, PassDeadline, Cancel,
         BeginTick, ExpireOne, BeginPrefill, BackendPrefill, PrefillSucceeded,
         PrefillFailed, BackendDecode, DecodeToken, DecodeFailed, Proceed
    <3> QED BY <2>1, <3>1, EndRefines DEF Contract!Next
  <2> QED BY <2>2, <2>3
<1> QED BY <1>1, <1>2, <1>3

\* FifoScheduler implements what Engine assumes of it: seen between ticks, the
\* three phases of tick() are one step that gives every live request a token or
\* an end, and submit() and cancel() touch one request.
THEOREM ContractKept == ASSUME CallerDuties PROVE RSpec => ImplementsContract
<1>1. RInit => Init /\ TickInv /\ Contract!Init
  BY DEF RInit, Init, TickInv, Current, VisibleState,
     VisibleEmitted, Contract!Init, RequestStates
<1>2. [RNext]_<<vars, before>> => [Next]_vars
  BY DEF RNext
<1>3. IInv /\ IInv' /\ TickInv /\ [RNext]_<<vars, before>> => TickInv'
  BY TickInvStep
<1>4. IInv /\ IInv' /\ TickInv /\ [RNext]_<<vars, before>>
        => [Contract!Next]_<<VisibleState, VisibleEmitted>>
  BY StepRefines
<1> QED
  BY <1>1, <1>2, <1>3, <1>4, Invariance, PTL DEF RSpec, Spec, ImplementsContract,
     Contract!Spec
=============================================================================
