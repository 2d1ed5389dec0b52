------------------------- MODULE SchedulerContract -------------------------
(***************************************************************************)
(* What FifoScheduler promises the threads that drive it, with its queues, *)
(* handles and backend hidden: submit(), cancel() and a tick() that is one *)
(* step.  MCSchedulerRefinement checks that FifoScheduler implements it;   *)
(* Engine is built on it.                                                  *)
(***************************************************************************)
EXTENDS RequestState, Naturals

CONSTANTS
  Requests,    \* Request objects, each with an id of its own
  MaxOutput    \* MaxOutput[r] is r's max_output_tokens()

VARIABLES
  state,       \* lifecycle().state() of each request
  emitted      \* output_tokens_emitted() of each request

Live(r) == state[r] \in {"WaitingPrefill", "Decoding"}

Init ==
  /\ state = [r \in Requests |-> "Received"]
  /\ emitted = [r \in Requests |-> 0]

\* FifoScheduler::submit() for each request of a batch.
SubmitAll(batch) ==
  /\ \A r \in batch : state[r] = "Received"
  /\ state' = [r \in Requests |-> IF r \in batch THEN "WaitingPrefill" ELSE state[r]]
  /\ UNCHANGED emitted

\* FifoScheduler::cancel(): ignored unless the request is queued.
Cancel(r) ==
  /\ state' = [state EXCEPT ![r] = IF Live(r) THEN "Cancelled" ELSE @]
  /\ UNCHANGED emitted

\* What one tick can make of a live request: a token, its last token, or
\* failure (a deadline, a failed prefill or a failed decode).
Outcomes == {"token", "eos", "failed"}

\* The state and the token count that an outcome leaves behind.
After(r, outcome) ==
  CASE outcome = "failed" -> "Failed"
    [] outcome = "eos" \/ (outcome = "token" /\ emitted[r] + 1 >= MaxOutput[r])
         -> "Completed"
    [] OTHER -> "Decoding"

\* FifoScheduler::tick(): every live request, waiting or decoding, ends the
\* tick one token further or in a terminal state; the others keep theirs.
Tick ==
  \E outcome \in [{r \in Requests : Live(r)} -> Outcomes] :
    /\ state' = [r \in Requests |->
                   IF Live(r) THEN After(r, outcome[r]) ELSE state[r]]
    /\ emitted' = [r \in Requests |->
                     IF Live(r) /\ outcome[r] # "failed" THEN emitted[r] + 1
                                                         ELSE emitted[r]]

Next ==
  \/ \E r \in Requests : SubmitAll({r}) \/ Cancel(r)
  \/ Tick

Spec == Init /\ [][Next]_<<state, emitted>>
=============================================================================
