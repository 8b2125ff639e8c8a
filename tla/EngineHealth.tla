---------------------------- MODULE EngineHealth ----------------------------
(***************************************************************************)
(* EngineHealth (src/src/genie_server.py): whether the resident engine can *)
(* serve, as a value and the operations on it.  The Python object keeps    *)
(* absolute timestamps and takes `now` as an argument; here every          *)
(* timestamp is the AGE of the event, advanced by Elapse and saturating at *)
(* MaxAge, which must lie above every limit so that no comparison of       *)
(* `assess` can tell the two apart.  The record is the state of the        *)
(* component; GenieEngine owns it as its variable `health` and calls these *)
(* operators where the code calls the methods.                             *)
(*                                                                         *)
(* Left out: the message texts, and `tokens` and `_stall_native`, which    *)
(* only those texts and the snapshot read.  The failure streak saturates   *)
(* at FailThreshold, since it is only ever compared with it.               *)
(***************************************************************************)
EXTENDS Integers

CONSTANTS
  FirstTokenTimeout,  \* GENIE_FIRST_TOKEN_TIMEOUT, in clock ticks
  StallTimeout,       \* GENIE_STALL_TIMEOUT
  WedgeGrace,         \* GENIE_WEDGE_GRACE
  FailThreshold,      \* GENIE_FAIL_THRESHOLD, floored at 1 by the code
  MaxAge              \* where ages saturate

ASSUME HealthAssumption ==
  /\ FirstTokenTimeout \in Nat /\ StallTimeout \in Nat /\ WedgeGrace \in Nat
  /\ FailThreshold \in Nat \ {0}
  /\ MaxAge \in Nat

Unset == -1
Age == Unset .. MaxAge

HealthState == {"ok", "failing", "stalled", "wedged"}

HealthType ==
  [started : Age, progress : Age, native : Age, signalled : Age,
   failures : 0 .. FailThreshold, generations : Nat]

HealthInit ==
  [started |-> Unset, progress |-> Unset, native |-> Unset,
   signalled |-> Unset, failures |-> 0, generations |-> 0]

(***************************************************************************)
(* The methods.                                                            *)
(***************************************************************************)
begin(h) ==
  [h EXCEPT !.started = 0, !.progress = Unset, !.signalled = Unset]

native_begin(h) == [h EXCEPT !.native = 0, !.signalled = Unset]

native_end(h) == [h EXCEPT !.native = Unset]

progress(h) == [h EXCEPT !.progress = 0]

end(h, ok, counted) ==
  [h EXCEPT !.started = Unset, !.progress = Unset, !.signalled = Unset,
            !.generations = IF counted THEN @ + 1 ELSE @,
            !.failures = IF ok THEN 0
                         ELSE IF @ < FailThreshold THEN @ + 1 ELSE @]

\* `age` is how long ago the caller read the `now` it passes.
Mutant_note_stall_signalled(h, age) == [h EXCEPT !.signalled = age]
note_stall_signalled(h, age) ==
  [h EXCEPT !.signalled = IF @ = Unset THEN age ELSE @]

\* The generation in flight has exceeded the limit that applies to it.
Stuck(h) ==
  h.started # Unset /\ IF h.progress = Unset THEN h.started > FirstTokenTimeout
                                             ELSE h.progress > StallTimeout

\* No generation is in flight, and a host-side native call is over its limit.
NativeStuck(h) == h.started = Unset /\ h.native > FirstTokenTimeout

assess(h) ==
  IF Stuck(h) \/ NativeStuck(h)
  THEN IF h.signalled > WedgeGrace THEN "wedged" ELSE "stalled"
  ELSE IF h.started = Unset /\ h.failures = FailThreshold THEN "failing"
                                                           ELSE "ok"

(***************************************************************************)
(* Time passing: one tick older, up to the bound.                          *)
(***************************************************************************)
Older(a) == IF a = Unset \/ a = MaxAge THEN a ELSE a + 1

Elapse(h) ==
  [h EXCEPT !.started = Older(@), !.progress = Older(@),
            !.native = Older(@), !.signalled = Older(@)]
=============================================================================
