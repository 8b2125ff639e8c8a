--------------------------- MODULE MCSupervision ---------------------------
(***************************************************************************)
(* Values for the constants of Supervision: every limit is one tick, so an *)
(* age of two is over any of them.                                         *)
(***************************************************************************)
EXTENDS Supervision

CONSTANTS t1

Plain == {[prompt |-> <<"a">>, cap |-> 1, stop |-> NoStop,
           internal |-> FALSE, sampler |-> BundleSampler]}
=============================================================================
