--------------------------- MODULE FifoScheduler ---------------------------
(***************************************************************************)
(* src/scheduler/fifo_scheduler.cpp over the backend of                    *)
(* src/backend/mock_backend.cpp, with the lifecycle of RequestState and    *)
(* the token counter of request.cpp.                                       *)
(*                                                                         *)
(* The scheduler runs on one thread, so submit(), cancel() and tick() never*)
(* overlap.  tick() is split into the steps of its loops: a step handles   *)
(* one request, and the program counter pc says which loop is running.     *)
(* Only the clock moves in between.                                        *)
(***************************************************************************)
EXTENDS RequestState, Sequences, FiniteSetsExt, Functions

CONSTANTS
  Requests,    \* Request objects the callers can construct
  Ids,         \* RequestId values
  IdOf,        \* IdOf[r] is r's id(); two objects may carry the same id
  MaxOutput,   \* MaxOutput[r] is r's max_output_tokens()
  SharedIds    \* may a caller submit an id whose earlier request is live?

ASSUME ConstantsAssumption ==
  /\ IdOf \in [Requests -> Ids]
  /\ MaxOutput \in [Requests -> Nat]
  /\ SharedIds \in BOOLEAN

VARIABLES
  requests,    \* requests_: every submitted request, in submission order
  state,       \* lifecycle().state() of each request
  emitted,     \* output_tokens_emitted() of each request
  overdue,     \* requests whose deadline_at() the clock has passed
  waiting,     \* waiting_
  decoding,    \* decoding_
  handles,     \* handles_: the handle of each id, NoHandle when absent
  sequences,   \* handles live in the backend (keys of sequences_)
  minted,      \* minted[h] is the request handle h was made for (history);
               \* its length is the backend's next_sequence_id_
  pc,          \* where tick() is, "idle" between calls
  expired,     \* requests collected by expire_deadlines() in this tick
  late,        \* overdue as it was when this tick began (history)
  pending,     \* requests still to be handled by the running loop
  results,     \* the backend's outcomes for the running loop
  report       \* the TickReport of the running or last tick

vars == <<requests, state, emitted, overdue, waiting, decoding, handles,
          sequences, minted, pc, expired, late, pending, results, report>>

\* Handles are numbered from 1, so that 0 can stand for "no entry" and, in a
\* prefill outcome, for the error.
NoHandle == 0

\* The requests in either queue: submitted and not yet terminal.
Queued == Range(waiting) \cup Range(decoding)

EmptyReport ==
  [expired_count |-> 0, prefill_attempted |-> 0, prefill_succeeded |-> 0,
   prefill_failed |-> 0, decode_attempted |-> 0, decode_completed |-> 0,
   decode_failed |-> 0]

Init ==
  /\ requests = <<>> /\ waiting = <<>> /\ decoding = <<>>
  /\ state = [r \in Requests |-> "Received"]
  /\ emitted = [r \in Requests |-> 0]
  /\ overdue = {}
  /\ handles = [i \in Ids |-> NoHandle]
  /\ sequences = {} /\ minted = <<>>
  /\ pc = "idle" /\ expired = {} /\ late = {} /\ pending = <<>> /\ results = <<>>
  /\ report = EmptyReport

-----------------------------------------------------------------------------
(* Shared helpers.                                                         *)

\* A call that panics ends the process: nothing is enabled afterwards.
Proceed(ok, next) == pc' = IF ok THEN next ELSE "panicked"

\* Mutant: retirement erases the map entry without calling release().
HandlesOf_NotReleased(r) == {}

\* The handle a retirement hands back to the backend, if any.
HandlesOf(r) == IF handles[IdOf[r]] = NoHandle THEN {} ELSE {handles[IdOf[r]]}

\* backend_.release() panics on a handle it does not know.
CanRelease(r) == HandlesOf(r) \subseteq sequences

\* erase(begin() + k - 1).
RemoveAt(s, k) == SubSeq(s, 1, k - 1) \o SubSeq(s, k + 1, Len(s))

\* The search loops over a queue: of the positions that match, the first is
\* erased, if there is one, and the rest keep their order.
EraseFirst(s, matches) == IF matches = {} THEN s ELSE RemoveAt(s, Min(matches))

RemoveFirst(s, e) == EraseFirst(s, {i \in 1 .. Len(s) : s[i] = e})

\* Mutant: decoding_ is not searched.
Retire_KeepsDecoding(r, to) ==
  /\ state' = [state EXCEPT ![r] = to]
  /\ sequences' = sequences \ HandlesOf(r)
  /\ handles' = [handles EXCEPT ![IdOf[r]] = NoHandle]
  /\ waiting' = RemoveFirst(waiting, r)
  /\ decoding' = decoding

\* FifoScheduler::retire(): the lifecycle moves to `to', the handle stored
\* under the request's id is released and forgotten, and the request leaves
\* both queues.  requests_ keeps it.
Retire(r, to) ==
  /\ state' = [state EXCEPT ![r] = to]
  /\ sequences' = sequences \ HandlesOf(r)
  /\ handles' = [handles EXCEPT ![IdOf[r]] = NoHandle]
  /\ waiting' = RemoveFirst(waiting, r)
  /\ decoding' = RemoveFirst(decoding, r)

\* Mutants: a counter goes the wrong way; a phase's counts are lost when the
\* three reports are merged.
Count_Down(field) == report' = [report EXCEPT ![field] = @ - 1]
Count_Unmerged(field) == report' = [EmptyReport EXCEPT ![field] = report[field] + 1]

\* One more in a field of the TickReport.
Count(field) == report' = [report EXCEPT ![field] = @ + 1]

-----------------------------------------------------------------------------
(* The callers and the clock.                                              *)

\* FifoScheduler::submit().  handles_ is keyed by id, so callers are expected
\* to keep ids unique among live requests; SharedIds lifts that duty.
Submit(r) ==
  /\ pc = "idle" /\ state[r] = "Received"
  /\ SharedIds \/ \A q \in Queued : IdOf[q] # IdOf[r]
  /\ requests' = Append(requests, r)
  /\ state' = [state EXCEPT ![r] = "WaitingPrefill"]
  /\ waiting' = Append(waiting, r)
  /\ Proceed(LegalPath(<<state[r], "Admitted", "WaitingPrefill">>), "idle")
  /\ UNCHANGED <<emitted, overdue, decoding, handles, sequences, minted,
                 expired, late, pending, results, report>>

\* The first request of queue s with the given id, as a set of at most one.
FirstWithId(s, id) ==
  {s[i] : i \in {k \in DOMAIN s : /\ IdOf[s[k]] = id
                                  /\ \A j \in 1 .. k - 1 : IdOf[s[j]] # id}}

WithoutId(s, id) == EraseFirst(s, {i \in 1 .. Len(s) : IdOf[s[i]] = id})

\* FifoScheduler::cancel(): the first match in waiting_ is retired, then the
\* first match in decoding_.  An id in neither queue is ignored.
Cancel(id) ==
  LET victims == FirstWithId(waiting, id) \cup FirstWithId(decoding, id) IN
  /\ pc = "idle" /\ victims # {}
  /\ state' = [r \in Requests |-> IF r \in victims THEN "Cancelled" ELSE state[r]]
  /\ sequences' = sequences \ {handles[id]}
  /\ handles' = [handles EXCEPT ![id] = NoHandle]
  /\ waiting' = WithoutId(waiting, id)
  /\ decoding' = WithoutId(decoding, id)
  /\ Proceed(\A r \in victims : /\ LegalPath(<<state[r], "Cancelled">>)
                                /\ CanRelease(r), "idle")
  /\ UNCHANGED <<requests, emitted, overdue, minted, expired, late,
                 pending, results, report>>

\* The clock moves past r's deadline.  The backend advances a FakeClock while
\* it works and a SteadyClock never stops, so this may happen inside a tick.
PassDeadline(r) ==
  /\ r \notin overdue /\ ~IsTerminal(state[r]) /\ pc # "panicked"
  /\ overdue' = overdue \cup {r}
  /\ UNCHANGED <<requests, state, emitted, waiting, decoding, handles,
                 sequences, minted, pc, expired, late, pending, results,
                 report>>

-----------------------------------------------------------------------------
(* tick(), phase 1: expire_deadlines().                                    *)

\* Mutant: the loop over decoding_ is forgotten.
Overdue_WaitingOnly == Range(waiting) \cap overdue

\* expired_waiting and expired_decoding: clock_.now() > deadline_at().
Overdue == Queued \cap overdue

\* Collect what is past its deadline before any backend work.
BeginTick ==
  /\ pc = "idle"
  /\ expired' = Overdue /\ late' = overdue
  /\ report' = [EmptyReport EXCEPT !.expired_count = Cardinality(expired')]
  /\ pc' = "expire"
  /\ UNCHANGED <<requests, state, emitted, overdue, waiting, decoding,
                 handles, sequences, minted, pending, results>>

\* Mutant: no stop-over.
ExpiryPath_Direct(r) == <<state[r], "Failed">>

\* A waiting request has no edge to Failed and stops over at Prefilling.
ExpiryPath(r) ==
  IF r \in Range(waiting) THEN <<state[r], "Prefilling", "Failed">>
                          ELSE <<state[r], "Failed">>

\* One round of the two retire loops: the oldest collected request still
\* queued, those of waiting_ first.
ExpireOne ==
  LET queue == waiting \o decoding IN
  /\ pc = "expire"
  /\ \E i \in DOMAIN queue :
       LET r == queue[i] IN
       /\ r \in expired
       /\ \A j \in 1 .. i - 1 : queue[j] \notin expired
       /\ Retire(r, "Failed")
       /\ Proceed(LegalPath(ExpiryPath(r)) /\ CanRelease(r), "expire")
  /\ UNCHANGED <<requests, emitted, overdue, minted, expired, late,
                 pending, results, report>>

-----------------------------------------------------------------------------
(* tick(), phase 2: prefill_phase().  The backend answers for the whole    *)
(* batch before the outcome loop handles the first request.                *)

\* Mutant: newest first.
BeginPrefill_Lifo ==
  /\ pc = "expire"
  /\ \A r \in Queued : r \notin expired
  /\ pending' = [i \in DOMAIN waiting |-> waiting[Len(waiting) + 1 - i]]
  /\ results' = <<>>
  /\ report' = [report EXCEPT !.prefill_attempted = Len(waiting)]
  /\ pc' = IF waiting = <<>> THEN "prefilled" ELSE "prefill"
  /\ UNCHANGED <<requests, state, emitted, overdue, waiting, decoding,
                 handles, sequences, minted, expired, late>>

\* Snapshot waiting_ and call the backend.
BeginPrefill ==
  /\ pc = "expire"
  /\ \A r \in Queued : r \notin expired
  /\ pending' = waiting /\ results' = <<>>
  /\ report' = [report EXCEPT !.prefill_attempted = Len(waiting)]
  /\ pc' = IF waiting = <<>> THEN "prefilled" ELSE "prefill"
  /\ UNCHANGED <<requests, state, emitted, overdue, waiting, decoding,
                 handles, sequences, minted, expired, late>>

\* One round of MockBackend::prefill(): an injected error, or a new handle.
BackendPrefill(ok) ==
  /\ pc = "prefill" /\ Len(results) < Len(pending)
  /\ LET r == pending[Len(results) + 1]
         h == Len(minted) + 1
     IN IF ok THEN /\ minted' = Append(minted, r)
                   /\ sequences' = sequences \cup {h}
                   /\ results' = Append(results, h)
              ELSE /\ results' = Append(results, NoHandle)
                   /\ UNCHANGED <<minted, sequences>>
  /\ pc' = IF Len(results') = Len(pending) THEN "prefilled" ELSE "prefill"
  /\ UNCHANGED <<requests, state, emitted, overdue, waiting, decoding,
                 handles, expired, late, pending, report>>

\* A successful outcome: handles_.emplace() keeps an entry that is already
\* there, and the request goes straight to Decoding.
PrefillSucceeded ==
  LET r == Head(pending) IN
  /\ pc = "prefilled" /\ pending # <<>> /\ Head(results) # NoHandle
  /\ handles' = [handles EXCEPT ![IdOf[r]] = IF @ = NoHandle THEN Head(results)
                                                             ELSE @]
  /\ state' = [state EXCEPT ![r] = "Decoding"]
  /\ waiting' = RemoveFirst(waiting, r)
  /\ decoding' = Append(decoding, r)
  /\ Count("prefill_succeeded")
  /\ Proceed(LegalPath(<<state[r], "Prefilling", "WaitingDecode", "Decoding">>),
             "prefilled")
  /\ pending' = Tail(pending) /\ results' = Tail(results)
  /\ UNCHANGED <<requests, emitted, overdue, sequences, minted, expired, late>>

\* A failed outcome.
PrefillFailed ==
  LET r == Head(pending) IN
  /\ pc = "prefilled" /\ pending # <<>> /\ Head(results) = NoHandle
  /\ Retire(r, "Failed")
  /\ Count("prefill_failed")
  /\ Proceed(/\ LegalPath(<<state[r], "Prefilling", "Failed">>)
             /\ CanRelease(r), "prefilled")
  /\ pending' = Tail(pending) /\ results' = Tail(results)
  /\ UNCHANGED <<requests, emitted, overdue, minted, expired, late>>

-----------------------------------------------------------------------------
(* tick(), phase 3: decode_phase().                                        *)

\* A token, the token that ends the sequence, or a BackendError.
DecodeOutcomes == {"token", "eos", "error"}

\* The batch is built with handles_.at(), which throws on a missing id, and
\* MockBackend::decode() panics on an unknown handle unless an injected error
\* answers for that sequence first.
BackendDecode ==
  /\ pc = "prefilled" /\ pending = <<>>
  /\ pending' = decoding
  /\ results' \in [1 .. Len(decoding) -> DecodeOutcomes]
  /\ Proceed(\A i \in DOMAIN decoding :
               LET h == handles[IdOf[decoding[i]]] IN
               /\ h # NoHandle
               /\ results'[i] # "error" => h \in sequences, "decode")
  /\ report' = [report EXCEPT !.decode_attempted = Len(decoding)]
  /\ UNCHANGED <<requests, state, emitted, overdue, waiting, decoding,
                 handles, sequences, minted, expired, late>>

\* Request::emit_token() panics outside Decoding and at the output limit.
CanEmit(r) == state[r] = "Decoding" /\ emitted[r] < MaxOutput[r]

\* The token about to be emitted is the last: end of sequence or the output
\* limit.
IsLast(r, outcome) == outcome = "eos" \/ emitted[r] + 1 >= MaxOutput[r]

\* A token: the last one completes the request.
DecodeToken ==
  LET r == Head(pending)
      done == IsLast(r, Head(results))
  IN
  /\ pc = "decode" /\ pending # <<>> /\ Head(results) # "error"
  /\ emitted' = [emitted EXCEPT ![r] = @ + 1]
  /\ IF done THEN Retire(r, "Completed") /\ Count("decode_completed")
             ELSE UNCHANGED <<state, waiting, decoding, handles, sequences, report>>
  /\ Proceed(/\ CanEmit(r)
             /\ done => LegalPath(<<state[r], "Completed">>) /\ CanRelease(r),
             "decode")
  /\ pending' = Tail(pending) /\ results' = Tail(results)
  /\ UNCHANGED <<requests, overdue, minted, expired, late>>

\* Mutant: the request stays in decoding_, to be retried by the next tick.
DecodeFailed_Retry ==
  /\ pc = "decode" /\ pending # <<>> /\ Head(results) = "error"
  /\ pending' = Tail(pending) /\ results' = Tail(results)
  /\ UNCHANGED <<requests, state, emitted, overdue, waiting, decoding, handles,
                 sequences, minted, pc, expired, late, report>>

\* A failed outcome.
DecodeFailed ==
  LET r == Head(pending) IN
  /\ pc = "decode" /\ pending # <<>> /\ Head(results) = "error"
  /\ Retire(r, "Failed")
  /\ Count("decode_failed")
  /\ Proceed(LegalPath(<<state[r], "Failed">>) /\ CanRelease(r), "decode")
  /\ pending' = Tail(pending) /\ results' = Tail(results)
  /\ UNCHANGED <<requests, emitted, overdue, minted, expired, late>>

EndTick ==
  /\ pc = "decode" /\ pending = <<>>
  /\ pc' = "idle" /\ expired' = {} /\ late' = {}
  /\ UNCHANGED <<requests, state, emitted, overdue, waiting, decoding,
                 handles, sequences, minted, pending, results, report>>

TickStep ==
  \/ ExpireOne \/ BeginPrefill
  \/ \E ok \in BOOLEAN : BackendPrefill(ok)
  \/ PrefillSucceeded \/ PrefillFailed
  \/ BackendDecode \/ DecodeToken \/ DecodeFailed \/ EndTick

Next ==
  \/ \E r \in Requests : Submit(r) \/ PassDeadline(r)
  \/ \E id \in Ids : Cancel(id)
  \/ BeginTick \/ TickStep

Spec == Init /\ [][Next]_vars

\* The callers (Engine::run(), run_simulation()) keep calling tick() while a
\* request is queued, and a tick that has begun runs to its end.
Fairness ==
  /\ WF_vars(BeginTick /\ Queued # {})
  /\ WF_vars(TickStep)
FairSpec == Spec /\ Fairness

-----------------------------------------------------------------------------
(* Properties.                                                             *)

PcValues == {"idle", "expire", "prefill", "prefilled", "decode", "panicked"}

\* Every variable keeps the type of the member it stands for.
TypeOK ==
  /\ requests \in Seq(Requests) /\ waiting \in Seq(Requests)
  /\ decoding \in Seq(Requests) /\ pending \in Seq(Requests)
  /\ minted \in Seq(Requests)
  /\ state \in [Requests -> RequestStates]
  /\ emitted \in [Requests -> Nat]
  /\ overdue \subseteq Requests
  /\ expired \subseteq Requests /\ late \subseteq Requests
  /\ handles \in [Ids -> Nat]
  /\ sequences \subseteq Nat
  /\ pc \in PcValues
  /\ pc \in {"prefill", "prefilled"} => results \in Seq(Nat)
  /\ pc = "decode" => results \in Seq(DecodeOutcomes)
  /\ report \in [DOMAIN EmptyReport -> Nat]

\* No sequence of submissions, cancellations, deadlines and backend failures
\* makes transition_to(), emit_token(), release(), decode() or handles_.at()
\* panic or throw.
NoPanic == pc # "panicked"

\* waiting_ holds exactly the requests in WaitingPrefill and decoding_ those in
\* Decoding, each once: no retirement, promotion or cancellation forgets a
\* queue or a lifecycle, and no request rests in Prefilling or WaitingDecode.
QueuesMatchState ==
  /\ IsInjective(waiting) /\ IsInjective(decoding)
  /\ \A r \in Requests :
       /\ r \in Range(waiting) <=> state[r] = "WaitingPrefill"
       /\ r \in Range(decoding) <=> state[r] = "Decoding"
       /\ state[r] \notin {"Admitted", "Prefilling", "WaitingDecode"}

\* Handles the backend has made that the outcome loop has yet to store.
InFlight ==
  IF pc \in {"prefill", "prefilled"} THEN Range(results) \ {NoHandle} ELSE {}

\* handles_ holds exactly one live backend sequence for each decoding request,
\* the one made for that very request, and the backend holds no other: every
\* handle is released once, on every way out, and none leaks (ADR-007).
HandlesExact ==
  /\ \A r \in Range(decoding) :
       /\ handles[IdOf[r]] \in DOMAIN minted
       /\ minted[handles[IdOf[r]]] = r
  /\ \A id \in Ids : handles[id] # NoHandle =>
       \E r \in Range(decoding) : IdOf[r] = id
  /\ sequences = {handles[IdOf[r]] : r \in Range(decoding)} \cup InFlight

\* Once nothing is queued the backend holds no sequence at all.
NothingLeaks ==
  pc = "idle" /\ waiting = <<>> /\ decoding = <<>> => sequences = {}

\* a was submitted before b.
Precedes(a, b) ==
  \E i, j \in DOMAIN requests : i < j /\ requests[i] = a /\ requests[j] = b

InOrder(s) == \A i, j \in DOMAIN s : i < j => Precedes(s[i], s[j])

\* Oldest first: both queues are in submission order, and every request that
\* is being decoded was submitted before every request still waiting.
FifoOrder ==
  /\ InOrder(waiting) /\ InOrder(decoding)
  /\ \A d \in Range(decoding), w \in Range(waiting) : Precedes(d, w)

\* A terminal request keeps its state for good and emits no further token,
\* whatever is still queued for it in the running tick.
TerminalIsFinal ==
  [][\A r \in Requests : IsTerminal(state[r]) =>
       state'[r] = state[r] /\ emitted'[r] = emitted[r]]_vars

\* A request past its deadline when the tick begins is out of both queues before
\* the first backend call: no prefill or decode is spent on it.
ExpiredNeverServed ==
  pc \in {"prefill", "prefilled", "decode"} =>
    late \cap (Queued \cup Range(pending)) = {}

\* When a tick ends its report adds up: every prefill attempt is a success or
\* a failure, what decode attempted is what it finished plus what is still
\* decoding, and no request is left waiting for the next tick.
TickAccounting ==
  (pc = "decode" /\ pending = <<>>) =>
    /\ waiting = <<>>
    /\ report.prefill_attempted = report.prefill_succeeded + report.prefill_failed
    /\ report.decode_attempted =
         report.decode_completed + report.decode_failed + Len(decoding)

\* Every submitted request reaches a terminal state: each tick expires, fails
\* or prefills it, and then costs it one of its finitely many output tokens.
EveryRequestTerminates ==
  \A r \in Requests : state[r] = "WaitingPrefill" ~> IsTerminal(state[r])

=============================================================================
