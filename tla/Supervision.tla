----------------------------- MODULE Supervision -----------------------------
(***************************************************************************)
(* The watchdog thread over the engine: `watchdog` reads the clock, asks   *)
(* EngineHealth.assess, aborts a stall, notes that it did, and replaces    *)
(* the process when the stall outlives the grace period.  Each of those is *)
(* a step, since nothing is held from one to the next.                     *)
(*                                                                         *)
(* Here the watchdog acts only when the code does, so this module          *)
(* implements GenieEngine, where it may act at any time.  A tick is its    *)
(* polling interval: it acts at most once between two of them, and none    *)
(* passes over a watchdog that has yet to act.  Nor does one pass over a   *)
(* Python step that nothing holds up: a tick is seconds and the limits are *)
(* minutes, so what takes ticks is the driver and whoever waits for it.    *)
(* What the watchdog prints, and the latch that keeps it from printing     *)
(* again, are left out.                                                    *)
(***************************************************************************)
EXTENDS GenieEngine

CONSTANT WEDGE_EXIT  \* GENIE_WEDGE_EXIT

ASSUME SupervisionAssumption ==
  /\ WEDGE_EXIT \in BOOLEAN
  /\ MaxAge > FirstTokenTimeout /\ MaxAge > StallTimeout /\ MaxAge > WedgeGrace

VARIABLES
  dog,   \* where the watchdog is in its loop
  now    \* how long ago it read the clock

svars == <<vars, dog, now>>

DogInit == dog = "asleep" /\ now = 0

\* The verdicts it acts on; "ok" and "failing" do nothing.
Actionable ==
  \/ assess(health) = "stalled"
  \/ assess(health) = "wedged" /\ WEDGE_EXIT

\* The clock is read and the verdict formed.
Wake ==
  /\ dog = "asleep" /\ Actionable
  /\ dog' = assess(health) /\ now' = 0
  /\ UNCHANGED vars

\* signal_abort(any_turn=True, stalled=True), on that verdict.
Bark ==
  /\ dog = "stalled" /\ dog' = "barked"
  /\ WatchdogAbort /\ UNCHANGED now

\* Back from signal_abort: the grace clock starts at the clock read on waking.
Mutant_Note ==
  /\ dog = "barked" /\ signaller # Watchdog
  /\ dog' = "polled" /\ now' = 0
  /\ health' = [health EXCEPT !.signalled = now]
  /\ UNCHANGED clockless
Note ==
  /\ dog = "barked" /\ signaller # Watchdog
  /\ dog' = "polled" /\ now' = 0
  /\ health' = note_stall_signalled(health, now)
  /\ UNCHANGED clockless

\* The process ends under every thread, whatever it is doing.
_exit_for_supervisor ==
  /\ dog = "wedged" /\ dog' = "gone"
  /\ UNCHANGED <<vars, now>>

\* A Python step that could be taken now.
Prompt(t) ==
  \/ pc[t] \in {"armed", "left", "ended", "recounted"}
  \/ pc[t] \in {"refusing", "admitted", "capSet", "returned"} /\ AbortLockFree

Pass ==
  /\ \A t \in Turn : ~Prompt(t)
  /\ \/ dog = "asleep" /\ ~Actionable
     \/ dog = "polled"
     \/ dog \in {"stalled", "barked"} /\ ~AbortLockFree
  /\ dog' = IF dog = "polled" THEN "asleep" ELSE dog
  /\ now' = IF dog \in {"stalled", "barked"} THEN Older(now) ELSE now
  /\ Tick

watchdog == Wake \/ Bark \/ Note \/ _exit_for_supervisor

Exited == main = "exited" \/ dog = "gone"

SupervisedNext ==
  \/ ~Exited /\ \/ Inside /\ UNCHANGED <<dog, now>>
                \/ watchdog \/ Pass
  \/ (Exited \/ Rest) /\ UNCHANGED svars

Supervised == Init /\ DogInit /\ [][SupervisedNext]_svars

-----------------------------------------------------------------------------
(***************************************************************************)
(* Liveness.  Python's own steps happen, time passes, the watchdog runs.   *)
(* The driver owes nothing but the return of a signal and of the free: any *)
(* other call, by a turn or by count_tokens, may never return.             *)
(***************************************************************************)
SupervisedFairness ==
  /\ \A t \in Turn : SF_svars(Worker(t) /\ UNCHANGED <<dog, now>>)
  /\ SF_svars(Bark) /\ WF_svars(Wake) /\ WF_svars(Note)
  /\ WF_svars(_exit_for_supervisor) /\ WF_svars(Pass)
  /\ WF_svars(SignalReturns /\ UNCHANGED <<dog, now>>)

SupervisedFairly == Supervised /\ SupervisedFairness

\* Whatever call holds the engine lock and never returns, in a generation, in
\* the calls before it or in the tokenizer, the lock is given back or the
\* process is replaced ("if that does not take within %.0fs the process exits
\* %d for a supervisor to restart").
NoHolderForEver ==
  \A h \in Turn \cup {Counter} :
    lock = h ~> (lock # h \/ Exited)
=============================================================================
