------------------------ MODULE BenchServers_proofs ------------------------
(***************************************************************************)
(* Theorems about BenchServers, for any number of passes and depths, any   *)
(* interrupts and visits.  Tracking is the inductive invariant: what main  *)
(* knows of its children, where, and what it has noted when it ends.       *)
(***************************************************************************)
EXTENDS BenchServers, TLAPS

-----------------------------------------------------------------------------
(***************************************************************************)
(* The invariant.                                                          *)
(***************************************************************************)
Measuring == {"launching", "waiting", "warming", "sampling"}

\* A live child is one main is going to stop or has warned of; main has one at
\* a time, that of the arm-run it is at while it measures, and none when it
\* has ended.
Registering ==
  /\ \A k \in Run : Alive(k) => k \in children \cup warned
  /\ \A j, k \in children : j = k
  /\ pc = "launching" => children = {}
  /\ pc \in Measuring => children \subseteq {run}
  /\ pc \in {"writing", "written"} => children = {}
  /\ pc = "over" => children = {} \/ "ending" \in struck

\* An arm-run that is still to come has no process; a stuck one has bound its
\* port; a child left behind is not up while another is measured; and the
\* stranger was not answering when main last looked.
Answering ==
  /\ \A k \in Run : k > run \/ (k = run /\ pc \in {"stopping", "launching"})
                      => proc[k] = "none" /\ k \notin children
  /\ \A k \in stuck : proc[k] \in {"loading", "up"}
  /\ pc \in Measuring => \A k \in Run : k # run => proc[k] # "up"
  /\ ~stranger.seen
  /\ RowsAreOwn

\* `outcome` says how the loop ended, the status nothing until main has.
Outcomes ==
  /\ pc \in Looping => outcome = "complete"
  /\ pc # "over" => status = "none" /\ (outcome = "complete" => struck = {})
  /\ pc \in Ending /\ outcome = "complete" => run \notin Run
  /\ pc \in {"written", "writing"} /\ outcome = "complete" => Empty = {}
  /\ ZeroIsAnAB

Tracking == TypeOK /\ Registering /\ Answering /\ Outcomes

\* Every arm-run is of an arm.
LEMMA OrderArms == \A k \in Run : Order[k] \in Arms
  BY DEF Order, Arms

\* The first arm-run is one, and the one after a run is one or past them all.
LEMMA RunFacts ==
  /\ 1 \in Run
  /\ \A k \in Run : k \in Nat /\ k + 1 \in 1..(2 * Passes + 1)
  /\ Run \subseteq 1..(2 * Passes + 1)
  BY BenchAssumption DEF Run

-----------------------------------------------------------------------------
(***************************************************************************)
(* Types.                                                                  *)
(***************************************************************************)
LEMMA InitTypes == Init => TypeOK
  BY RunFacts, BenchAssumption DEF Init, TypeOK, Looping, Ending, Absent, Arms

\* Where the loop goes next.
LEMMA NextRunTypes ==
  ASSUME TypeOK, pc \in Looping, NextRun(run)
  PROVE  /\ pc' \in Looping \cup Ending /\ depth' \in 1..Depths
         /\ run' \in IF pc' \in Looping THEN Run ELSE 1..(2 * Passes + 1)
  <1>1. run \in Run BY DEF TypeOK
  <1>2. 1 \in 1..Depths BY BenchAssumption
  <1>3. run + 1 \in 1..(2 * Passes + 1) BY <1>1, RunFacts
  <1> QED BY <1>1, <1>2, <1>3 DEF NextRun, Looping, Ending

\* The children and the stranger keep the types.
LEMMA BoxTypes == TypeOK /\ Box => TypeOK'
  <1> SUFFICES ASSUME TypeOK, Box PROVE TypeOK'
    OBVIOUS
  <1> USE DEF TypeOK
  <1>1. CASE Comes BY <1>1, BenchAssumption DEF Box, Comes, Arms
  <1>2. CASE Answers BY <1>2 DEF Box, Answers
  <1>3. CASE Goes BY <1>3 DEF Box, Goes, Absent
  <1>4. ASSUME NEW k \in Run, Binds(k) PROVE TypeOK' BY <1>4 DEF Box, Binds
  <1>5. ASSUME NEW k \in Run, Listens(k) PROVE TypeOK' BY <1>5 DEF Box, Listens
  <1>6. ASSUME NEW k \in Run, Dies(k) PROVE TypeOK' BY <1>6 DEF Box, Dies
  <1>7. ASSUME NEW k \in Run, Sticks(k) PROVE TypeOK' BY <1>7 DEF Box, Sticks
  <1> QED BY <1>1, <1>2, <1>3, <1>4, <1>5, <1>6, <1>7 DEF Box

\* So does main.
LEMMA MainTypes == TypeOK /\ Main => TypeOK'
  <1> SUFFICES ASSUME TypeOK, Main PROVE TypeOK'
    OBVIOUS
  <1>1. CASE stop_all
    BY <1>1 DEF TypeOK, stop_all, Terminate, Forget
  <1>2. CASE Look
    <2>1. run' \in Run BY <1>2 DEF Look, TypeOK, Looping
    <2>2. run' \in 1..(2 * Passes + 1) BY <2>1, RunFacts
    <2>3. stranger' \in [at : {"none", "loading", "up"}, port : Arms \cup {"none"}, seen : BOOLEAN]
      BY <1>2 DEF Look, TypeOK
    <2> QED BY <1>2, <2>1, <2>2, <2>3 DEF Look, TypeOK, Looping, Ending
  <1>3. CASE start
    <2>1. pc \in Looping BY <1>3 DEF start, Looping
    <2>2. CASE NextRun(run) /\ UNCHANGED <<proc, children>>
      BY <1>3, <2>1, <2>2, NextRunTypes DEF start, TypeOK
    <2>3. CASE pc' = "waiting"
      BY <1>3, <2>3 DEF start, TypeOK, Looping, Registered, NextRun
    <2> QED BY <1>3, <2>2, <2>3 DEF start
  <1>4. CASE wait_port
    <2>1. pc \in Looping BY <1>4 DEF wait_port, Looping
    <2>2. CASE NextRun(run)
      BY <1>4, <2>1, <2>2, NextRunTypes DEF wait_port, machine, TypeOK
    <2>3. CASE pc' = "warming" /\ UNCHANGED <<run, depth>>
      BY <1>4, <2>3 DEF wait_port, machine, TypeOK, Looping
    <2> QED BY <1>4, <2>2, <2>3 DEF wait_port
  <1>5. CASE warmup
    <2>1. pc \in Looping BY <1>5 DEF warmup, Looping
    <2>2. CASE NextRun(run)
      BY <1>5, <2>1, <2>2, NextRunTypes DEF warmup, machine, TypeOK
    <2>3. CASE pc' = "sampling" /\ UNCHANGED <<run, depth>>
      BY <1>5, <2>3 DEF warmup, machine, TypeOK, Looping
    <2> QED BY <1>5, <2>2, <2>3 DEF warmup
  <1>6. CASE Sample
    <2>1. pc \in Looping BY <1>6 DEF Sample, Looping
    <2>2. rows' \subseteq [run : Run, by : {"own", "leftover", "stranger"}, seen : BOOLEAN]
      <3>1. run \in Run /\ stranger.seen \in BOOLEAN BY <2>1 DEF TypeOK
      <3>2. \A by \in Answerers(Order[run]) : by \in {"own", "leftover", "stranger"}
        BY DEF Answerers
      <3> QED BY <1>6, <3>1, <3>2 DEF Sample, TypeOK
    <2>3. CASE NextRun(run)
      BY <1>6, <2>1, <2>2, <2>3, NextRunTypes DEF Sample, machine, TypeOK
    <2>4. CASE depth < Depths /\ depth' = depth + 1 /\ UNCHANGED <<pc, run>>
      <3>1. depth' \in 1..Depths BY <2>4, BenchAssumption DEF TypeOK
      <3> QED BY <1>6, <2>2, <2>4, <3>1 DEF Sample, machine, TypeOK
    <2> QED BY <1>6, <2>3, <2>4 DEF Sample, Deeper
  <1>7. CASE Breaks
    <2>1. run' \in 1..(2 * Passes + 1) BY <1>7, RunFacts DEF Breaks, TypeOK, Looping
    <2> QED BY <1>7, <2>1 DEF Breaks, machine, TypeOK, Looping, Ending
  <1>8. CASE Summary BY <1>8 DEF Summary, machine, TypeOK, Looping, Ending
  <1>9. CASE Write BY <1>9 DEF Write, machine, TypeOK, Looping, Ending
  <1>10. CASE Leave BY <1>10 DEF Leave, machine, TypeOK, Looping, Ending
  <1> QED
    BY <1>1, <1>2, <1>3, <1>4, <1>5, <1>6, <1>7, <1>8, <1>9, <1>10 DEF Main

\* Every step of main, and of the box around it, keeps the types.
LEMMA NextTypes == TypeOK /\ [Next]_vars => TypeOK'
  <1> SUFFICES ASSUME TypeOK, [Next]_vars PROVE TypeOK'
    OBVIOUS
  <1>1. CASE Intrude BY <1>1 DEF Intrude, machine, TypeOK
  <1>2. CASE KeyboardInterrupt
    <2>1. run' \in 1..(2 * Passes + 1)
      BY <1>2, RunFacts DEF KeyboardInterrupt, TypeOK
    <2>2. struck' \subseteq Looping \cup Ending
      BY <1>2 DEF KeyboardInterrupt, TypeOK
    <2>3. pc' \in {"over", "ending"} /\ outcome' \in {outcome, "interrupted"}
            /\ status' \in {status, "other"}
      BY <1>2 DEF KeyboardInterrupt
    <2> QED
      BY <1>2, <2>1, <2>2, <2>3
      DEF KeyboardInterrupt, machine, TypeOK, Looping, Ending
  <1>3. CASE UNCHANGED vars BY <1>3 DEF vars, machine, TypeOK
  <1> QED BY <1>1, <1>2, <1>3, BoxTypes, MainTypes DEF Next

-----------------------------------------------------------------------------
(***************************************************************************)
(* Registering, step by step.                                              *)
(***************************************************************************)
\* Nothing the box does brings a child to life.
LEMMA BoxKills ==
  ASSUME TypeOK, Box
  PROVE  \A k \in Run : Alive(k)' => Alive(k)
  <1>1. CASE UNCHANGED proc BY <1>1 DEF Alive
  <1>2. ASSUME NEW j \in Run, Binds(j) PROVE \A k \in Run : Alive(k)' => Alive(k)
    BY <1>2 DEF Binds, TypeOK, Alive
  <1>3. ASSUME NEW j \in Run, Listens(j) PROVE \A k \in Run : Alive(k)' => Alive(k)
    BY <1>3 DEF Listens, TypeOK, Alive
  <1>4. ASSUME NEW j \in Run, Dies(j) PROVE \A k \in Run : Alive(k)' => Alive(k)
    BY <1>4 DEF Dies, TypeOK, Alive
  <1> QED BY <1>1, <1>2, <1>3, <1>4 DEF Box, Comes, Answers, Goes, Sticks

\* Stopping ends a child or warns of it, and only then forgets it.
LEMMA StopRegistering ==
  ASSUME TypeOK, Registering, stop_all
  PROVE  Registering'
  <1>1. PICK k \in children : Terminate(k) \/ Forget(k) BY DEF stop_all
  <1>2. k \in Run /\ pc' = pc /\ run' = run /\ struck' = struck
    BY <1>1 DEF stop_all, TypeOK
  <1>3. CASE Terminate(k)
    BY <1>1, <1>2, <1>3 DEF Terminate, Registering, TypeOK, Alive, Measuring
  <1>4. CASE Forget(k)
    BY <1>1, <1>2, <1>4 DEF Forget, Registering, TypeOK, Alive, Measuring
  <1> QED BY <1>1, <1>3, <1>4

\* A launch finds no other child, and is registered as it happens.
LEMMA StartRegistering ==
  ASSUME TypeOK, Registering, start
  PROVE  Registering'
  <1>1. run \in Run BY DEF start, TypeOK, Looping
  <1>2. CASE NextRun(run) /\ UNCHANGED <<proc, children>>
    BY <1>2 DEF start, NextRun, Registering, Alive, Measuring
  <1>3. CASE /\ proc' = [proc EXCEPT ![run] = "launched"]
             /\ children' = children \cup Registered(run)
             /\ pc' = "waiting" /\ UNCHANGED <<run, depth>>
    <2>1. children = {} BY DEF start, Registering
    <2>2. children' = {run} BY <1>3, <2>1 DEF Registered
    <2> QED
      BY <1>1, <1>3, <2>1, <2>2 DEF start, Registering, TypeOK, Alive, Measuring
  <1> QED BY <1>2, <1>3 DEF start

\* Steps that leave children and warnings alone.
LEMMA QuietRegistering ==
  ASSUME Registering, UNCHANGED <<proc, children, warned>>,
         pc' = "launching" => children = {},
         pc' \in Measuring => children \subseteq {run'},
         pc' \in {"writing", "written"} => children = {},
         pc' = "over" => children = {} \/ "ending" \in struck'
  PROVE  Registering'
  BY DEF Registering, Alive

\* Every step leaves each live child to be stopped or warned of.
LEMMA NextRegistering ==
  ASSUME TypeOK, Registering, [Next]_vars
  PROVE  Registering'
  <1>1. CASE Box
    <2>1. UNCHANGED <<pc, run, children, warned, struck>> BY <1>1 DEF Box
    <2>2. \A k \in Run : Alive(k)' => Alive(k) BY <1>1, BoxKills
    <2> QED BY <2>1, <2>2 DEF Registering
  <1>2. CASE stop_all BY <1>2, StopRegistering
  <1>3. CASE start BY <1>3, StartRegistering
  <1>4. CASE Look
    BY <1>4, QuietRegistering DEF Look, Measuring
  <1>5. CASE wait_port
    BY <1>5, QuietRegistering DEF wait_port, NextRun, machine, Measuring, Registering
  <1>6. CASE warmup
    BY <1>6, QuietRegistering DEF warmup, NextRun, machine, Measuring, Registering
  <1>7. CASE Sample
    BY <1>7, QuietRegistering
    DEF Sample, Deeper, NextRun, machine, Measuring, Registering
  <1>8. CASE Breaks BY <1>8, QuietRegistering DEF Breaks, machine, Measuring
  <1>9. CASE Summary BY <1>9, QuietRegistering DEF Summary, machine, Measuring
  <1>10. CASE Write
    BY <1>10, QuietRegistering DEF Write, machine, Measuring, Registering
  <1>11. CASE Leave
    BY <1>11, QuietRegistering DEF Leave, machine, Measuring, Registering
  <1>12. CASE Intrude
    BY <1>12, QuietRegistering DEF Intrude, machine, Measuring, Registering
  <1>13. CASE KeyboardInterrupt
    BY <1>13, QuietRegistering
    DEF KeyboardInterrupt, machine, Measuring, Registering
  <1>14. CASE UNCHANGED vars
    BY <1>14 DEF vars, machine, Registering, Alive, Measuring
  <1> QED
    BY <1>1, <1>2, <1>3, <1>4, <1>5, <1>6, <1>7, <1>8, <1>9, <1>10, <1>11,
       <1>12, <1>13, <1>14 DEF Next, Main

-----------------------------------------------------------------------------
(***************************************************************************)
(* Answering, step by step.                                                *)
(***************************************************************************)
\* What the box may do: a process that starts is the one main registered, and
\* a child that no kill ended does not come up.
LEMMA BoxAnswering ==
  ASSUME TypeOK, Registering, Answering, Box
  PROVE  Answering'
  <1>1. UNCHANGED <<pc, run, children, warned, rows>> BY DEF Box
  <1>2. warned \subseteq stuck BY DEF TypeOK
  <1>3. CASE Comes \/ Answers \/ Goes
    <2>1. UNCHANGED <<proc, stuck>> BY <1>3 DEF Comes, Answers, Goes
    <2>2. ~stranger'.seen
      BY <1>3 DEF Comes, Answers, Goes, Absent, Answering, TypeOK
    <2> QED BY <1>1, <2>1, <2>2 DEF Answering, RowsAreOwn
  <1>4. ASSUME NEW j \in Run, Binds(j) PROVE Answering'
    <2>1. j \notin stuck BY <1>4 DEF Binds, Answering
    <2>2. j \in children BY <1>2, <1>4, <2>1 DEF Binds, Registering, Alive
    <2>3. pc \in Measuring => j = run BY <2>2 DEF Registering
    <2> QED
      BY <1>1, <1>4, <2>1, <2>3 DEF Binds, Answering, RowsAreOwn, TypeOK
  <1>5. ASSUME NEW j \in Run, Listens(j) PROVE Answering'
    <2>1. j \in children BY <1>5 DEF Listens, Registering, Alive
    <2>2. pc \in Measuring => j = run BY <2>1 DEF Registering
    <2> QED BY <1>1, <1>5, <2>2 DEF Listens, Answering, RowsAreOwn, TypeOK
  <1>6. ASSUME NEW j \in Run, Dies(j) PROVE Answering'
    BY <1>1, <1>6 DEF Dies, Alive, Answering, RowsAreOwn, TypeOK
  <1>7. ASSUME NEW j \in Run, Sticks(j) PROVE Answering'
    BY <1>1, <1>7 DEF Sticks, Answering, RowsAreOwn, TypeOK
  <1> QED BY <1>3, <1>4, <1>5, <1>6, <1>7 DEF Box

\* A stopped child is gone, and a forgotten one is one no more.
LEMMA StopAnswering ==
  ASSUME TypeOK, Registering, Answering, stop_all
  PROVE  Answering'
  <1>1. PICK k \in children : Terminate(k) \/ Forget(k) BY DEF stop_all
  <1>2. k \in Run /\ UNCHANGED <<pc, run, stuck, stranger, rows>>
    BY <1>1 DEF stop_all, TypeOK
  <1>3. CASE Terminate(k)
    BY <1>2, <1>3 DEF Terminate, Alive, Answering, RowsAreOwn, TypeOK, Measuring
  <1>4. CASE Forget(k)
    BY <1>2, <1>4 DEF Forget, Answering, RowsAreOwn, TypeOK, Measuring
  <1> QED BY <1>1, <1>3, <1>4

\* Where the ports were clear, no child is up and the stranger does not answer.
LEMMA LookAnswering ==
  ASSUME TypeOK, Answering, Look
  PROVE  Answering'
  <1>1. UNCHANGED <<run, proc, stuck, children, rows>> BY DEF Look
  <1>2. CASE pc' = "ending" /\ UNCHANGED stranger
    BY <1>1, <1>2 DEF Look, Answering, RowsAreOwn, Measuring
  <1>3. CASE /\ ~foreign_listener /\ pc' = "launching"
             /\ stranger' = [stranger EXCEPT !.seen = stranger.at = "up"]
    <2>1. \A k \in Run : proc[k] # "up"
      BY <1>3, OrderArms DEF foreign_listener, port_open, Own
    <2>2. ~stranger'.seen
      <3>1. CASE stranger.at = "up"
        <4>1. stranger.port \in Arms BY <3>1 DEF TypeOK
        <4>2. port_open(stranger.port) BY <3>1 DEF port_open, Foreign
        <4> QED BY <1>3, <4>1, <4>2 DEF foreign_listener
      <3>2. CASE stranger.at # "up" BY <1>3, <3>2 DEF TypeOK
      <3> QED BY <3>1, <3>2
    <2> QED
      BY <1>1, <1>3, <2>1, <2>2 DEF Look, Answering, RowsAreOwn, Measuring
  <1> QED BY <1>2, <1>3 DEF Look

\* Steps that leave the box alone: the loop only goes on, and takes in rows
\* only of its own or of a stranger it could not see.
LEMMA QuietAnswering ==
  ASSUME TypeOK, Answering, UNCHANGED <<proc, stuck, stranger, children>>,
         run' = run \/ run' = run + 1,
         run' = run /\ pc' \in {"stopping", "launching"} => pc' = pc,
         pc' \in Measuring => pc \in Measuring /\ run' = run,
         \A w \in rows' : w \in rows \/ w.by = "own" \/ (w.by = "stranger" /\ ~w.seen)
  PROVE  Answering'
  <1>1. \A k \in Run : k \in Nat BY RunFacts
  <1>2. run \in Nat BY RunFacts DEF TypeOK
  <1>3. \A k \in Run : k > run' \/ (k = run' /\ pc' \in {"stopping", "launching"})
                         => k > run \/ (k = run /\ pc \in {"stopping", "launching"})
    BY <1>1, <1>2
  <1>4. RowsAreOwn' BY DEF Answering, RowsAreOwn
  <1> QED BY <1>3, <1>4 DEF Answering

\* The child that is launched is one that was still to come.
LEMMA StartAnswering ==
  ASSUME TypeOK, Answering, start
  PROVE  Answering'
  <1>1. run \in Run BY DEF start, TypeOK, Looping
  <1>2. CASE NextRun(run) /\ UNCHANGED <<proc, children>>
    <2>1. run' = run + 1 /\ pc' \notin Measuring
      BY <1>2 DEF NextRun, Measuring
    <2>2. run' # run BY <1>1, <2>1, RunFacts
    <2> QED BY <1>2, <2>1, <2>2, QuietAnswering DEF start
  <1>3. CASE /\ proc' = [proc EXCEPT ![run] = "launched"]
             /\ children' = children \cup Registered(run)
             /\ pc' = "waiting" /\ UNCHANGED <<run, depth>>
    <2>1. proc[run] = "none" BY <1>1 DEF start, Answering
    <2>2. run \notin stuck BY <2>1 DEF Answering
    <2>3. \A k \in Run : k > run => k # run BY <1>1, RunFacts
    <2> QED
      BY <1>1, <1>3, <2>2, <2>3
      DEF start, Registered, Answering, RowsAreOwn, TypeOK, Measuring
  <1> QED BY <1>2, <1>3 DEF start

\* A sample is answered by the child of its arm-run, or by a stranger that was
\* not seen: a child left behind is not up.
LEMMA SampleAnswering ==
  ASSUME TypeOK, Answering, Sample
  PROVE  Answering'
  <1>1. run \in Run /\ pc = "sampling" BY DEF Sample, TypeOK, Looping
  <1>2. \A by \in Answerers(Order[run]) : by \in {"own", "stranger"}
    BY <1>1 DEF Answerers, Own, Answering, Measuring
  <1>3. \A w \in rows' : w \in rows \/ w.by = "own" \/ (w.by = "stranger" /\ ~w.seen)
    BY <1>2 DEF Sample, Answering
  <1>4. \/ run' = run /\ pc' = pc
        \/ run' = run + 1 /\ pc' \in {"stopping", "ending"}
    BY DEF Sample, Deeper, NextRun
  <1>5. run + 1 # run BY <1>1, RunFacts
  <1> QED BY <1>1, <1>3, <1>4, <1>5, QuietAnswering DEF Sample, machine, Measuring

\* Every step keeps what is known of who answers while main measures.
LEMMA NextAnswering ==
  ASSUME TypeOK, Registering, Answering, [Next]_vars
  PROVE  Answering'
  <1>1. pc \in Looping => run + 1 # run BY RunFacts DEF TypeOK
  <1>2. CASE Box BY <1>2, BoxAnswering
  <1>3. CASE stop_all BY <1>3, StopAnswering
  <1>4. CASE start BY <1>4, StartAnswering
  <1>5. CASE Look BY <1>5, LookAnswering
  <1>6. CASE wait_port
    BY <1>1, <1>6, QuietAnswering DEF wait_port, NextRun, machine, Measuring, Looping
  <1>7. CASE warmup
    BY <1>1, <1>7, QuietAnswering DEF warmup, NextRun, machine, Measuring, Looping
  <1>8. CASE Sample BY <1>8, SampleAnswering
  <1>9. CASE Breaks BY <1>9, QuietAnswering DEF Breaks, machine, Measuring
  <1>10. CASE Summary BY <1>10, QuietAnswering DEF Summary, machine, Measuring
  <1>11. CASE Write BY <1>11, QuietAnswering DEF Write, machine, Measuring
  <1>12. CASE Leave BY <1>12, QuietAnswering DEF Leave, machine, Measuring
  <1>13. CASE Intrude BY <1>13, QuietAnswering DEF Intrude, machine, Measuring
  <1>14. CASE KeyboardInterrupt
    BY <1>14, QuietAnswering DEF KeyboardInterrupt, machine, Measuring
  <1>15. CASE UNCHANGED vars BY <1>15, QuietAnswering DEF vars, machine, Measuring
  <1> QED
    BY <1>2, <1>3, <1>4, <1>5, <1>6, <1>7, <1>8, <1>9, <1>10, <1>11, <1>12,
       <1>13, <1>14, <1>15 DEF Next, Main

-----------------------------------------------------------------------------
(***************************************************************************)
(* Outcomes, step by step.                                                 *)
(***************************************************************************)
\* While main is in the loop, all it has to do is not to leave it too early.
LEMMA LoopOutcomes ==
  ASSUME Outcomes, pc \in Looping, UNCHANGED <<status, struck>>,
         \/ pc' \in Looping /\ UNCHANGED outcome
         \/ pc' = "ending" /\ UNCHANGED outcome /\ run' \notin Run
         \/ pc' = "ending" /\ outcome' # "complete"
  PROVE  Outcomes'
  <1>1. status' = "none" BY DEF Outcomes, Looping
  <1>2. ZeroIsAnAB' BY <1>1 DEF ZeroIsAnAB
  <1> QED BY <1>1, <1>2 DEF Outcomes, Looping, Ending

\* The arm-run after the last is none.
LEMMA NextRunOutcomes ==
  ASSUME TypeOK, Outcomes, pc \in Looping, NextRun(run), UNCHANGED <<outcome, status, struck>>
  PROVE  Outcomes'
  BY LoopOutcomes DEF NextRun, Looping

\* Behind the loop, what is decided is not undone.
LEMMA EndingOutcomes ==
  ASSUME TypeOK, Answering, Outcomes, pc \in Ending, [Next]_vars
  PROVE  Outcomes'
  <1> USE DEF Outcomes, Looping, Ending
  <1>1. CASE UNCHANGED <<pc, run, rows, outcome, status, struck, file>>
    BY <1>1 DEF ZeroIsAnAB, RowsAreOwn, Empty
  <1>2. CASE Summary
    <2>1. Empty' = Empty BY <1>2 DEF Summary, Empty
    <2>2. ZeroIsAnAB' BY <1>2 DEF Summary, ZeroIsAnAB
    <2> QED BY <1>2, <2>1, <2>2 DEF Summary
  <1>3. CASE Write
    <2>1. Empty' = Empty BY <1>3 DEF Write, Empty
    <2>2. ZeroIsAnAB' BY <1>3 DEF Write, ZeroIsAnAB
    <2> QED BY <1>3, <2>1, <2>2 DEF Write
  <1>4. CASE Intrude
    <2>1. Empty' = Empty BY <1>4 DEF Intrude, Empty
    <2>2. ZeroIsAnAB' BY <1>4 DEF Intrude, ZeroIsAnAB
    <2> QED BY <1>4, <2>1, <2>2 DEF Intrude
  <1>5. CASE KeyboardInterrupt
    <2>1. pc' = "over" /\ status' = "other" /\ UNCHANGED <<run, outcome>>
      BY <1>5 DEF KeyboardInterrupt
    <2>2. ZeroIsAnAB' BY <2>1 DEF ZeroIsAnAB
    <2> QED BY <1>5, <2>1, <2>2 DEF KeyboardInterrupt
  <1>6. CASE Leave
    <2>1. pc' = "over" /\ UNCHANGED <<run, rows, outcome, struck, file>>
      BY <1>6 DEF Leave
    <2>2. status' = "zero" => file = "ours" /\ outcome = "complete"
      BY <1>6 DEF Leave
    <2>3. outcome = "complete" => run \notin Run /\ struck = {} /\ Empty = {}
      BY <1>6 DEF Leave
    <2>4. ZeroIsAnAB'
      BY <2>1, <2>2, <2>3 DEF ZeroIsAnAB, RowsAreOwn, Empty, Answering
    <2> QED BY <2>1, <2>3, <2>4
  <1> QED
    BY <1>1, <1>2, <1>3, <1>4, <1>5, <1>6
    DEF Next, Main, Box, stop_all, Look, start, wait_port, warmup, Sample, Breaks, vars

\* Every step keeps what the outcome says of how the loop ended.
LEMMA NextOutcomes ==
  ASSUME TypeOK, Answering, Outcomes, [Next]_vars
  PROVE  Outcomes'
  <1>1. CASE pc \in Ending BY <1>1, EndingOutcomes
  <1>2. CASE pc \in Looping
    <2>1. CASE Box \/ stop_all \/ Intrude \/ UNCHANGED vars
      BY <1>2, <2>1, LoopOutcomes DEF Box, stop_all, Intrude, vars
    <2>2. CASE Look BY <1>2, <2>2, LoopOutcomes DEF Look, Looping
    <2>3. CASE start
      BY <1>2, <2>3, LoopOutcomes, NextRunOutcomes DEF start, Looping
    <2>4. CASE wait_port
      BY <1>2, <2>4, LoopOutcomes, NextRunOutcomes DEF wait_port, Looping
    <2>5. CASE warmup
      BY <1>2, <2>5, LoopOutcomes, NextRunOutcomes DEF warmup, Looping
    <2>6. CASE Sample
      BY <1>2, <2>6, LoopOutcomes, NextRunOutcomes DEF Sample, Deeper, Looping
    <2>7. CASE Breaks BY <1>2, <2>7, LoopOutcomes DEF Breaks
    <2>8. CASE Summary \/ Write \/ Leave
      BY <1>2, <2>8 DEF Summary, Write, Leave, Looping
    <2>9. CASE KeyboardInterrupt
      <3>1. pc' = "ending" /\ outcome' = "interrupted" /\ status' = "none"
        BY <1>2, <2>9 DEF KeyboardInterrupt, Looping, Outcomes
      <3>2. ZeroIsAnAB' BY <3>1 DEF ZeroIsAnAB
      <3> QED BY <3>1, <3>2 DEF Outcomes, Looping
    <2> QED
      BY <2>1, <2>2, <2>3, <2>4, <2>5, <2>6, <2>7, <2>8, <2>9 DEF Next, Main
  <1> QED BY <1>1, <1>2 DEF TypeOK

-----------------------------------------------------------------------------
(***************************************************************************)
(* The theorems.                                                           *)
(***************************************************************************)
LEMMA TrackingInit == Init => Tracking
  <1> SUFFICES ASSUME Init PROVE Tracking
    OBVIOUS
  <1>1. TypeOK BY InitTypes
  <1>2. Registering BY DEF Init, Registering, Alive, Measuring
  <1>3. Answering BY DEF Init, Answering, RowsAreOwn, Measuring, Absent
  <1>4. Outcomes BY DEF Init, Outcomes, ZeroIsAnAB, Looping, Ending
  <1> QED BY <1>1, <1>2, <1>3, <1>4 DEF Tracking

\* The four parts together are inductive.
LEMMA TrackingNext == Tracking /\ [Next]_vars => Tracking'
  BY NextTypes, NextRegistering, NextAnswering, NextOutcomes DEF Tracking

\* main knows every live child it has not warned of, at every step.
THEOREM TrackingInvariant == Spec => []Tracking
  <1> QED BY TrackingInit, TrackingNext, PTL DEF Spec

\* No two arms are up together and none outlives the run, but for a child no
\* kill ended, which was said, and an interrupt of the last stop_all.
THEOREM ArmsStoppedHolds == Spec => []ArmsStopped
  <1>1. Tracking => ArmsStopped
    <2>1. SUFFICES ASSUME Tracking PROVE ArmsStopped
      OBVIOUS
    <2>2. TypeOK BY <2>1 DEF Tracking
    <2>3. ASSUME NEW j \in Run, NEW k \in Run, j # k, Alive(j), Alive(k)
          PROVE  {j, k} \cap warned # {}
      BY <2>1, <2>3 DEF Tracking, Registering
    <2>4. ASSUME pc = "over", "ending" \notin struck, NEW k \in Run, Alive(k)
          PROVE  k \in warned
      BY <2>1, <2>4 DEF Tracking, Registering
    <2> QED BY <2>2, <2>3, <2>4 DEF ArmsStopped
  <1> QED BY <1>1, TrackingInvariant, PTL

\* A status of 0 is never that of a run that was cut short, lost its record or
\* measured one side, or somebody else's server, only.
THEOREM ZeroIsAnABHolds == Spec => []ZeroIsAnAB
  <1>1. Tracking => ZeroIsAnAB BY DEF Tracking, Outcomes
  <1> QED BY <1>1, TrackingInvariant, PTL
=============================================================================
