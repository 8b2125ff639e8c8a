---------------------------- MODULE BenchServers ----------------------------
(***************************************************************************)
(* bench_servers.py: two servers measured against each other, one of them  *)
(* up at a time, on a box that others use.  `main` launches one child per  *)
(* arm-run, waits for its port, measures and stops it; it can be           *)
(* interrupted anywhere, a child can die anywhere or refuse to, and a      *)
(* stranger can come and go on either port.                                *)
(*                                                                         *)
(* An arm-run is its index in `Order`, and so is the child it launches.    *)
(* What a sample measures is left out; what matters here is which process  *)
(* answered it.                                                            *)
(***************************************************************************)
EXTENDS Naturals, Sequences, FiniteSets

CONSTANTS
  Passes,     \* --passes
  Depths,     \* how many depths each arm-run measures
  MaxCtrlC,   \* bound: interrupts
  MaxVisits   \* bound: times a stranger comes

ASSUME BenchAssumption ==
  /\ Passes \in Nat \ {0} /\ Depths \in Nat \ {0}
  /\ MaxCtrlC \in Nat /\ MaxVisits \in Nat

Arms == {"ours", "geniex"}
Run == 1..(2 * Passes)
\* A/B/B/A: the first of a pair alternates.
Order == [k \in Run |-> IF k % 4 \in {1, 0} THEN "ours" ELSE "geniex"]

VARIABLES
  pc, run, depth,  \* where main is
  proc,      \* each arm-run's child
  stuck,     \* children that no kill ends
  children,  \* main's `children`: the ones it is going to stop
  warned,    \* the ones it has said it left running
  stranger,  \* somebody else's server: where it is, and whether it was
             \* answering when main last looked
  rows,      \* the samples, and who answered them
  outcome,   \* main's
  file,      \* what is at --out: "none", "given", "other" or "ours"
  status,    \* the exit status: "none", "zero" or "other"
  struck,    \* where the interrupts came
  visits

machine == <<proc, stuck, stranger, visits>>
vars == <<pc, run, depth, machine, children, warned, rows, outcome, file, status, struck>>

Absent == [at |-> "none", port |-> "none", seen |-> FALSE]

Init ==
  /\ pc = "stopping" /\ run = 1 /\ depth = 1
  /\ proc = [k \in Run |-> "none"] /\ stuck = {}
  /\ children = {} /\ warned = {}
  /\ stranger = Absent /\ visits = 0
  /\ rows = {} /\ outcome = "complete"
  /\ file \in {"none", "given"}   \* something only with --force
  /\ status = "none" /\ struck = {}

Alive(k) == proc[k] \in {"launched", "loading", "up"}

\* Who accepts on an arm's port: a child, or the stranger.
Own(a) == {k \in Run : Order[k] = a /\ proc[k] = "up"}
Foreign(a) == stranger.at = "up" /\ stranger.port = a
port_open(a) == Own(a) # {} \/ Foreign(a)

\* Who holds it, accepting or not.
Held(a) == \/ \E k \in Run : Order[k] = a /\ proc[k] \in {"loading", "up"}
           \/ stranger.at # "none" /\ stranger.port = a

-----------------------------------------------------------------------------
(* The children and the stranger *)

\* genie_server binds before it loads and listens after; geniex binds and
\* listens at once.  Neither starts on a port that is held.
Binds(k) ==
  /\ proc[k] = "launched"
  /\ proc' = [proc EXCEPT ![k] = IF Held(Order[k]) THEN "gone"
                                 ELSE IF Order[k] = "ours" THEN "loading" ELSE "up"]
  /\ UNCHANGED <<stuck, stranger, visits>>

\* Nothing of a killed child runs, gone or not.
Listens(k) ==
  /\ proc[k] = "loading" /\ k \notin warned /\ proc' = [proc EXCEPT ![k] = "up"]
  /\ UNCHANGED <<stuck, stranger, visits>>

\* A failed load, a crash, a wedge it ends by itself.
Dies(k) ==
  /\ Alive(k) /\ k \notin stuck /\ proc' = [proc EXCEPT ![k] = "gone"]
  /\ UNCHANGED <<stuck, stranger, visits>>

Sticks(k) ==
  /\ proc[k] \in {"loading", "up"} /\ k \notin stuck /\ stuck' = stuck \cup {k}
  /\ UNCHANGED <<proc, stranger, visits>>

Comes ==
  /\ stranger.at = "none" /\ visits < MaxVisits /\ visits' = visits + 1
  /\ \E a \in Arms : ~Held(a) /\ stranger' = [at |-> "loading", port |-> a, seen |-> FALSE]
  /\ UNCHANGED <<proc, stuck>>
Answers ==
  /\ stranger.at = "loading" /\ stranger' = [stranger EXCEPT !.at = "up"]
  /\ UNCHANGED <<proc, stuck, visits>>
Goes ==
  /\ stranger.at # "none" /\ stranger' = Absent
  /\ UNCHANGED <<proc, stuck, visits>>

Box ==
  /\ Comes \/ Answers \/ Goes \/ \E k \in Run : Binds(k) \/ Listens(k) \/ Dies(k) \/ Sticks(k)
  /\ UNCHANGED <<pc, run, depth, children, warned, rows, outcome, file, status, struck>>

-----------------------------------------------------------------------------
(* stop_all *)

\* The tree kill and kill(): the child is gone, or is left with a warning.
Terminate(k) ==
  /\ pc \in {"stopping", "ending"} /\ k \in children /\ Alive(k) /\ k \notin warned
  /\ IF k \in stuck THEN warned' = warned \cup {k} /\ UNCHANGED proc
                    ELSE proc' = [proc EXCEPT ![k] = "gone"] /\ UNCHANGED warned
  /\ UNCHANGED children

\* Out of the dictionary only when that is done.
Forget(k) ==
  /\ pc \in {"stopping", "ending"} /\ k \in children /\ (~Alive(k) \/ k \in warned)
  /\ children' = children \ {k}
  /\ UNCHANGED <<proc, warned>>

stop_all ==
  /\ \E k \in children : Terminate(k) \/ Forget(k)
  /\ UNCHANGED <<pc, run, depth, stuck, stranger, visits, rows, outcome, file, status, struck>>

-----------------------------------------------------------------------------
(* The loop of main *)

foreign_listener == \E a \in Arms : port_open(a)

\* May it refuse, may it pass?  The processes of the box, unless they cannot
\* be listed or --allow-other-npu-servers lets them be: a server that is still
\* loading is found here alone, and a child that no kill ended is this run's.
npu_check == IF stranger.at = "none" THEN {"clear"} ELSE {"refused", "clear"}

Look ==
  /\ pc = "stopping" /\ children = {}
  /\ \/ /\ foreign_listener \/ "refused" \in npu_check
        /\ pc' = "ending" /\ outcome' = "refused" /\ UNCHANGED stranger
     \/ /\ ~foreign_listener
        /\ pc' = "launching" /\ UNCHANGED outcome
        /\ stranger' = [stranger EXCEPT !.seen = stranger.at = "up"]
  /\ UNCHANGED <<run, depth, proc, stuck, visits, children, warned, rows, file, status, struck>>

\* The next one's stop_all, or the one of the `finally`.
NextRun(r) ==
  /\ pc' = IF r + 1 \in Run THEN "stopping" ELSE "ending"
  /\ run' = r + 1 /\ depth' = 1

\* The handle handed back when the wait is over.
Mutant_Registered(k) == {}
Registered(k) == {k}

\* start: launched and registered, ahead of the wait for the port; or not
\* launched at all.
start ==
  /\ pc = "launching"
  /\ \/ /\ proc' = [proc EXCEPT ![run] = "launched"]
        /\ children' = children \cup Registered(run)
        /\ pc' = "waiting" /\ UNCHANGED <<run, depth>>
     \/ NextRun(run) /\ UNCHANGED <<proc, children>>
  /\ UNCHANGED <<stuck, stranger, visits, warned, rows, outcome, file, status, struck>>

\* wait_port: the child before the port; deaf for too long is a failed start.
wait_port ==
  /\ pc = "waiting"
  /\ \/ ~Alive(run) /\ NextRun(run)
     \/ Alive(run) /\ port_open(Order[run]) /\ pc' = "warming" /\ UNCHANGED <<run, depth>>
     \/ Alive(run) /\ ~port_open(Order[run]) /\ NextRun(run)
  /\ UNCHANGED <<machine, children, warned, rows, outcome, file, status, struck>>

\* A request that succeeds was answered by somebody on the port.
Answerers(a) == {IF k = run THEN "own" ELSE "leftover" : k \in Own(a)}
                  \cup (IF Foreign(a) THEN {"stranger"} ELSE {})

\* A warmup that failed on a child that is gone is a failed start.
warmup ==
  /\ pc = "warming"
  /\ \/ Answerers(Order[run]) # {} /\ pc' = "sampling" /\ UNCHANGED <<run, depth>>
     \/ Alive(run) /\ pc' = "sampling" /\ UNCHANGED <<run, depth>>
     \/ ~Alive(run) /\ NextRun(run)
  /\ UNCHANGED <<machine, children, warned, rows, outcome, file, status, struck>>

Deeper == IF depth < Depths THEN depth' = depth + 1 /\ UNCHANGED <<pc, run>> ELSE NextRun(run)

\* A sample is a row, is refused, or fails; a failure on a child that is
\* gone ends the arm-run.
Sample ==
  /\ pc = "sampling"
  /\ \/ \E by \in Answerers(Order[run]) :
          rows' = rows \cup {[run |-> run, by |-> by, seen |-> stranger.seen]} /\ Deeper
     \/ UNCHANGED rows /\ Deeper
     \/ UNCHANGED rows /\ ~Alive(run) /\ NextRun(run)
  /\ UNCHANGED <<machine, children, warned, outcome, file, status, struck>>

\* A bug mid-run.
Breaks ==
  /\ pc \in {"stopping", "launching", "waiting", "warming", "sampling"}
  /\ pc' = "ending" /\ outcome' = "error"
  /\ UNCHANGED <<run, depth, machine, children, warned, rows, file, status, struck>>

-----------------------------------------------------------------------------
(* After the loop *)

\* No arm is looked at.
Mutant_Empty == {}
\* arms_with_no_rows
Empty == {a \in Arms : \A w \in rows : Order[w.run] # a}

Summary ==
  /\ pc = "ending" /\ children = {} /\ pc' = "writing"
  /\ outcome' = IF outcome = "complete" /\ Empty # {} THEN "incomplete" ELSE outcome
  /\ UNCHANGED <<run, depth, machine, children, warned, rows, file, status, struck>>

\* write_results: onto the path if what is there is what was there at the
\* start, else beside it; exclusively where nothing was.
Write ==
  /\ pc = "writing" /\ pc' = "written"
  /\ \/ file \in {"none", "given"} /\ file' = "ours"
     \/ UNCHANGED file
  /\ UNCHANGED <<run, depth, machine, children, warned, rows, outcome, status, struck>>

Leave ==
  /\ pc = "written" /\ pc' = "over"
  /\ status' = IF file = "ours" /\ outcome = "complete" THEN "zero" ELSE "other"
  /\ UNCHANGED <<run, depth, machine, children, warned, rows, outcome, file, struck>>

Main == stop_all \/ Look \/ start \/ wait_port \/ warmup \/ Sample \/ Breaks
          \/ Summary \/ Write \/ Leave

\* Another run writes the same path.
Intrude ==
  /\ file \in {"none", "given"} /\ pc \notin {"written", "over"} /\ file' = "other"
  /\ UNCHANGED <<pc, run, depth, machine, children, warned, rows, outcome, status, struck>>

\* Inside the try it is caught; in the finally and after it, nothing does.
KeyboardInterrupt ==
  /\ pc # "over" /\ Cardinality(struck) < MaxCtrlC /\ pc \notin struck
  /\ struck' = struck \cup {pc}
  /\ IF pc \in {"ending", "writing", "written"}
     THEN pc' = "over" /\ status' = "other" /\ UNCHANGED outcome
     ELSE pc' = "ending" /\ outcome' = "interrupted" /\ UNCHANGED status
  /\ UNCHANGED <<run, depth, machine, children, warned, rows, file>>

Next == Main \/ Box \/ Intrude \/ KeyboardInterrupt

Spec == Init /\ [][Next]_vars

-----------------------------------------------------------------------------
(* Properties *)

Looping == {"stopping", "launching", "waiting", "warming", "sampling"}
Ending == {"ending", "writing", "written", "over"}

TypeOK ==
  /\ pc \in Looping \cup Ending /\ depth \in 1..Depths
  /\ run \in IF pc \in Looping THEN Run ELSE 1..(2 * Passes + 1)
  /\ proc \in [Run -> {"none", "launched", "loading", "up", "gone"}]
  /\ children \subseteq Run /\ warned \subseteq stuck /\ stuck \subseteq Run
  /\ stranger \in [at : {"none", "loading", "up"}, port : Arms \cup {"none"}, seen : BOOLEAN]
  /\ stranger.at = "none" <=> stranger.port = "none"
  /\ rows \subseteq [run : Run, by : {"own", "leftover", "stranger"}, seen : BOOLEAN]
  /\ outcome \in {"complete", "incomplete", "refused", "error", "interrupted"}
  /\ file \in {"none", "given", "other", "ours"} /\ status \in {"none", "zero", "other"}
  /\ struck \subseteq Looping \cup Ending /\ visits \in 0..MaxVisits

\* "No two arms may hold the Hexagon", and the tool leaves none behind: two
\* children are up together, and a child outlives the run, only if a kill
\* did not end one and that was said, or if an interrupt came when the run
\* was stopping its arms already.  Types are kept with it.
ArmsStopped ==
  /\ TypeOK
  /\ \A j, k \in Run : j # k /\ Alive(j) /\ Alive(k) => {j, k} \cap warned # {}
  /\ pc = "over" /\ "ending" \notin struck => \A k \in Run : Alive(k) => k \in warned

\* A row is an answer of the arm-run's own child, or of a server of another
\* session that was not answering yet when the run looked: it came later, or
\* was mid-load and not found.  Never of one that was answering by then, and
\* never of a child that an earlier arm-run left behind.
RowsAreOwn ==
  \A w \in rows : w.by = "own" \/ (w.by = "stranger" /\ ~w.seen)

\* Exit status 0 is an A/B: the loop came to its end, nobody interrupted it,
\* both arms were measured, on servers of its own as far as a look can tell,
\* and the record is where it was wanted.
ZeroIsAnAB ==
  status = "zero" =>
    /\ run \notin Run /\ struck = {} /\ file = "ours"
    /\ \A a \in Arms : \E w \in rows : Order[w.run] = a
    /\ RowsAreOwn
=============================================================================
