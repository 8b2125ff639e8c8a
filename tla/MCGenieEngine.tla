--------------------------- MODULE MCGenieEngine ---------------------------
(***************************************************************************)
(* Values for the constants of GenieEngine.  "a" is a conversation, "ax"   *)
(* the same conversation after the answer x, and "b" another conversation; *)
(* each generates at most cap tokens of {x}.  A cap of two can be fallen   *)
(* short of with something said, which is when the text is counted again.  *)
(***************************************************************************)
EXTENDS EngineService, TLC

CONSTANTS t1, t2

\* The turns ask alike, so exchanging them exchanges behaviours.
Exchange == Permutations(Turn)

Ask(prompt, cap, stop, internal) ==
  [prompt |-> prompt, cap |-> cap, stop |-> stop, internal |-> internal,
   sampler |-> BundleSampler]

Plain == {Ask(<<"a">>, 1, NoStop, FALSE)}
Internal == {Ask(<<"a">>, 1, NoStop, TRUE)}
Continuing == Plain \cup {Ask(<<"a", "x", "a">>, 2, NoStop, FALSE)}
Stopping == {Ask(<<"b">>, 1, "s", FALSE)}
Wordy == {Ask(<<"a">>, 2, NoStop, FALSE)}
Lone == Wordy \cup {[q EXCEPT !.sampler = "cold"] : q \in Internal}
Mixed == Continuing \cup Internal \cup Stopping

\* Two turns that ask alike show nothing that one turn does not.
UnlikeInit == Init /\ req[t1] # req[t2]
UnlikeSpec == UnlikeInit /\ [][Next]_vars
=============================================================================
