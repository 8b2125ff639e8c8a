---------------------------- MODULE EngineService ----------------------------
(***************************************************************************)
(* GenieEngine as Turns: what a caller can see of it.                      *)
(***************************************************************************)
EXTENDS GenieEngine

At(t) == CASE pc[t] = "queued" -> "queued"
           [] pc[t] \in Holding -> "running"
           [] OTHER -> "ended"

How(t) ==
  IF At(t) # "ended" THEN "none"
  ELSE CASE answer[t].kind = "closing" -> "refused"
         [] answer[t].kind # "closing" /\ answer[t].finish = "raised" -> "raised"
         [] answer[t].kind # "closing" /\ answer[t].finish # "raised" ->
              IF answer[t].cut THEN "cut" ELSE "whole"

Seen(t) == [at |-> At(t), aborted |-> flags[t].aborted,
            named |-> flags[t].shutdown \/ flags[t].stalled,
            how |-> How(t), told |-> answer[t].kind]

T == INSTANCE Turns WITH Other <- {Main, Counter}, holder <- lock,
       turn <- [t \in Turn |-> Seen(t)], stopping <- closing

\* The engine keeps the promises its callers rely on.
ServiceKept == T!TurnsSpec
=============================================================================
