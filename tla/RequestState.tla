---------------------------- MODULE RequestState ----------------------------
(***************************************************************************)
(* The request lifecycle of include/tokamak/request/state.h: ten states    *)
(* and the edges transition_to() accepts.  Every other module names its    *)
(* states through this one.                                                *)
(***************************************************************************)
EXTENDS Naturals, Sequences

\* enum class RequestState.
RequestStates ==
  {"Received", "Admitted", "WaitingPrefill", "Prefilling", "WaitingDecode",
   "Decoding", "Completed", "Cancelled", "Rejected", "Failed"}

\* is_terminal(RequestState).
TerminalStates == {"Completed", "Cancelled", "Rejected", "Failed"}

IsTerminal(s) == s \in TerminalStates

\* is_valid_transition(from, to): the successors of each state.
IsValidTransition(from, to) ==
  CASE from = "Received"       -> to \in {"Admitted", "Rejected", "Cancelled"}
    [] from = "Admitted"       -> to \in {"WaitingPrefill", "Cancelled"}
    [] from = "WaitingPrefill" -> to \in {"Prefilling", "Cancelled"}
    [] from = "Prefilling"     -> to \in {"WaitingDecode", "Failed", "Cancelled"}
    [] from = "WaitingDecode"  -> to \in {"Decoding", "Cancelled"}
    [] from = "Decoding"       -> to \in {"Completed", "Failed", "Cancelled"}
    [] OTHER                   -> FALSE

\* A chain of transition_to() calls panics at its first illegal edge; it
\* leaves the lifecycle in the last state of the chain when there is none.
LegalPath(path) ==
  \A i \in 1 .. Len(path) - 1 : IsValidTransition(path[i], path[i + 1])

=============================================================================
