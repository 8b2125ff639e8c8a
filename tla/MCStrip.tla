------------------------------ MODULE MCStrip ------------------------------
(***************************************************************************)
(* Requests for Strip.  A request that does not stream is answered from    *)
(* the whole text whatever the hold, and one with tools is, streaming or   *)
(* not; one that asked for reasoning is not gated whatever the hold.       *)
(***************************************************************************)
EXTENDS Strip

Wants(stream, tools, prefilled, hold, pairs) ==
  [stream |-> stream, tools |-> tools, prefilled |-> prefilled,
   hold |-> hold, strip |-> pairs]

Wishes ==
  { Wants(TRUE, FALSE, TRUE, Unbounded, FALSE), Wants(TRUE, FALSE, TRUE, 3, FALSE),
    Wants(TRUE, FALSE, TRUE, 0, FALSE), Wants(TRUE, FALSE, FALSE, Unbounded, TRUE),
    Wants(TRUE, FALSE, TRUE, Unbounded, TRUE), Wants(FALSE, FALSE, TRUE, Unbounded, TRUE),
    Wants(TRUE, TRUE, FALSE, Unbounded, FALSE) }
=============================================================================
