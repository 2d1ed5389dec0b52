--------------------------- MODULE MCTokenChannel ---------------------------
(***************************************************************************)
(* Three consumers, so that one can overtake another that was notified, and*)
(* a buffer that fills up.                                                 *)
(***************************************************************************)
EXTENDS TokenChannel

CONSTANTS c1, c2, c3

MCConsumers == {c1, c2, c3}
=============================================================================
