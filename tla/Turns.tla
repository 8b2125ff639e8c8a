-------------------------------- MODULE Turns --------------------------------
(***************************************************************************)
(* What the engine promises its callers: one holder at a time; a turn that *)
(* is asked for waits, runs, ends in one of four ways and is told about it *)
(* once; a turn is cut only when it was asked to stop; and a turn the      *)
(* server had a reason to stop is never told that it is done.              *)
(* GenieEngine implements it; Server is built on it.                       *)
(***************************************************************************)
EXTENDS Integers, FiniteSets

CONSTANTS
  Turn,     \* the generations asked for
  Other,    \* who else may hold the engine
  Nobody

VARIABLES
  holder,   \* who holds the engine
  turn,     \* each turn: at, aborted, named, how, told
  stopping  \* shutdown has begun

service == <<holder, turn, stopping>>

\* `aborted`: asked to stop.  `named`: by the watchdog or by shutdown.
Unasked == [at |-> "idle", aborted |-> FALSE, named |-> FALSE, how |-> "none",
            told |-> "none"]
Queued == [Unasked EXCEPT !.at = "queued"]
Live == {"queued", "running"}

TurnsInit ==
  /\ holder = Nobody /\ stopping = FALSE
  /\ turn \in [Turn -> {Unasked, Queued}]

Becomes(t, r) == turn' = [turn EXCEPT ![t] = r]

Ask(t) ==
  /\ turn[t].at = "idle"
  /\ Becomes(t, Queued)
  /\ UNCHANGED <<holder, stopping>>

Take(t) ==
  /\ turn[t].at = "queued" /\ holder = Nobody
  /\ holder' = t
  /\ Becomes(t, [turn[t] EXCEPT !.at = "running"])
  /\ UNCHANGED stopping

Ways(t) == {"whole", "raised"} \cup IF turn[t].aborted THEN {"cut"} ELSE {}

Give(t) ==
  /\ turn[t].at = "running" /\ holder = t
  /\ holder' = Nobody
  /\ \E how \in Ways(t) : Becomes(t, [turn[t] EXCEPT !.at = "ended", !.how = how])
  /\ UNCHANGED stopping

Refuse(t) ==
  /\ turn[t].at = "running" /\ holder = t /\ stopping
  /\ holder' = Nobody
  /\ Becomes(t, [turn[t] EXCEPT !.at = "ended", !.how = "refused", !.told = "closing"])
  /\ UNCHANGED stopping

\* A worker that keeps the end of any turn asked to stop to itself.
Mutant_Tellable(t) ==
  IF turn[t].aborted THEN {"discarded"}
  ELSE {IF turn[t].how = "raised" THEN "error" ELSE "done"}
\* What a turn may be told; "discarded" is for the server's own.
Tellable(t) ==
  CASE turn[t].how = "raised" -> {"error"}
    [] turn[t].how # "raised" /\ ~turn[t].aborted -> {"done"}
    [] turn[t].how # "raised" /\ turn[t].aborted ->
         {"discarded", IF turn[t].named THEN "cut" ELSE "done"}

Tell(t) ==
  /\ turn[t].at = "ended" /\ turn[t].told = "none"
  /\ \E told \in Tellable(t) : Becomes(t, [turn[t] EXCEPT !.told = told])
  /\ UNCHANGED <<holder, stopping>>

\* Somebody who may asks it to stop, and may say why.
Abort(t, named) ==
  /\ turn[t].at \in Live
  /\ Becomes(t, [turn[t] EXCEPT !.aborted = TRUE, !.named = @ \/ named])
  /\ UNCHANGED <<holder, stopping>>

\* Shutdown begins, and marks the turn it finds running, if any.
Stop ==
  /\ stopping' = TRUE
  /\ \/ UNCHANGED turn
     \/ \E t \in Turn : turn[t].at = "running" /\ Becomes(t, [turn[t] EXCEPT !.named = TRUE])
  /\ UNCHANGED holder

Borrow(o) == holder = Nobody /\ holder' = o /\ UNCHANGED <<turn, stopping>>
Return(o) == holder = o /\ holder' = Nobody /\ UNCHANGED <<turn, stopping>>

TurnsNext ==
  \/ \E t \in Turn : \/ Ask(t) \/ Take(t) \/ Give(t) \/ Refuse(t) \/ Tell(t)
                     \/ \E named \in BOOLEAN : Abort(t, named)
  \/ Stop
  \/ \E o \in Other : Borrow(o) \/ Return(o)

TurnsSpec == TurnsInit /\ [][TurnsNext]_service
=============================================================================
