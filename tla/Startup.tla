------------------------------ MODULE Startup ------------------------------
(***************************************************************************)
(* How a server comes up, goes down and is replaced: `main` and            *)
(* `load_engine` of genie_server.py, one process per launcher, under the   *)
(* restart loop of run-genie-server.ps1, several launchers on one machine  *)
(* and one port.                                                           *)
(*                                                                         *)
(* A process looks whether the port answers, binds it, loads the model for *)
(* half a minute or for ever, and only then listens.  What the others see  *)
(* of it meanwhile is its socket; what it occupies of the device is its    *)
(* model.  The operating system takes both back when the process is gone,  *)
(* and not before.  Windows only: SO_EXCLUSIVEADDRUSE is on, listening on  *)
(* a port bound exclusively does not fail.  The turns that are served in   *)
(* the meantime are GenieEngine's; here the driver is well, or stuck.      *)
(***************************************************************************)
EXTENDS Integers, Sequences, FiniteSets

CONSTANTS
  Instance,     \* launchers, each with at most one server process
  MaxRestarts,  \* GENIE_MAX_RESTARTS
  Horizon       \* GENIE_RESTART_WINDOW, in ticks

ASSUME StartupAssumption == MaxRestarts \in Nat /\ Horizon \in Nat

VARIABLES
  host,      \* GENIE_HOST of each
  launcher,  \* where its restart loop is
  failures,  \* ages of the failures it counts
  pc,        \* where the main thread of its process is
  sock,      \* the process's listening socket
  model,     \* whether it has a dialog on the device
  stuck,     \* whether its driver is
  ctrlC,     \* an interrupt not yet acted on
  code,      \* what the process exits with
  recent     \* ages of the failures within the horizon, for the properties

loop == <<launcher, failures, recent>>
vars == <<host, loop, pc, sock, model, stuck, ctrlC, code>>

Places == {"none", "probing", "binding", "reserved", "loading", "loaded",
           "listening", "serving", "stopping", "unwinding", "dying"}

\* Exit codes: EXIT_WEDGED, STATUS_CONTROL_C_EXIT, an access violation.
EXIT_WEDGED == 75
STATUS_CONTROL_C_EXIT == -1073741510
Fault == -1073741819
Codes == {0, 1, EXIT_WEDGED, STATUS_CONTROL_C_EXIT, Fault}

Init ==
  /\ host \in [Instance -> {"loopback", "wildcard"}]
  /\ launcher = [i \in Instance |-> "idle"]
  /\ failures = [i \in Instance |-> <<>>]
  /\ recent = [i \in Instance |-> <<>>]
  /\ pc = [i \in Instance |-> "none"]
  /\ sock = [i \in Instance |-> "none"]
  /\ model = [i \in Instance |-> FALSE]
  /\ stuck = [i \in Instance |-> FALSE]
  /\ ctrlC = [i \in Instance |-> FALSE]
  /\ code = [i \in Instance |-> 0]

At(i, place) == pc[i] = place
To(i, place) == pc' = [pc EXCEPT ![i] = place]
Sock(i, s) == sock' = [sock EXCEPT ![i] = s]

\* On its way out with a code: a sys.exit or an exception nothing catches.
Leave(i, c) == To(i, "unwinding") /\ code' = [code EXCEPT ![i] = c]
\* The kernel ends the process; none of its own code runs any more.
Die(i, c) == To(i, "dying") /\ code' = [code EXCEPT ![i] = c]

-----------------------------------------------------------------------------
(* The machine *)

Accepting(j) == sock[j] = "listening"

\* The socket a connect from this machine to the port reaches: the one bound
\* to loopback itself, ahead of one bound to every address.
Reached ==
  LET narrow == {j \in Instance : Accepting(j) /\ host[j] = "loopback"}
  IN  IF narrow # {} THEN narrow ELSE {j \in Instance : Accepting(j)}

\* An exclusive bind fails whatever address the holder of the port is on.
Collides(i, j) == i # j /\ sock[j] # "none"

\* The process is gone, and with it everything that was its.
Ends(i) ==
  /\ pc[i] \in {"unwinding", "dying"}
  /\ To(i, "none") /\ Sock(i, "none")
  /\ model' = [model EXCEPT ![i] = FALSE]
  /\ stuck' = [stuck EXCEPT ![i] = FALSE]
  /\ ctrlC' = [ctrlC EXCEPT ![i] = FALSE]
  /\ UNCHANGED <<host, loop, code>>

\* A driver fault, in a process that is inside it.
Crash(i) ==
  /\ pc[i] \in {"loading", "loaded", "serving", "stopping"}
  /\ Die(i, Fault)
  /\ UNCHANGED <<host, loop, sock, model, stuck, ctrlC>>

CtrlC(i) ==
  /\ pc[i] \notin {"none", "unwinding", "dying"} /\ ~ctrlC[i]
  /\ ctrlC' = [ctrlC EXCEPT ![i] = TRUE]
  /\ UNCHANGED <<host, loop, pc, sock, model, stuck, code>>

-----------------------------------------------------------------------------
(* main, up to the load *)

\* Only what accepts is seen; a server too busy to accept may be missed.
port_in_use(i) ==
  /\ At(i, "probing")
  /\ \/ Reached # {} /\ Leave(i, 1)
     \/ /\ \A j \in Reached : ~At(j, "serving")
        /\ To(i, "binding") /\ UNCHANGED code
  /\ UNCHANGED <<host, loop, sock, model, stuck, ctrlC>>

\* Any port will do until the model is there.
Mutant_server_bind(i) ==
  /\ At(i, "binding") /\ To(i, "reserved")
  /\ UNCHANGED <<host, loop, sock, model, stuck, ctrlC, code>>
\* bind_and_activate left on.
Mutant_bind_and_activate(i) ==
  /\ At(i, "binding")
  /\ \A j \in Instance : ~Collides(i, j)
  /\ Sock(i, "listening") /\ To(i, "reserved")
  /\ UNCHANGED <<host, loop, model, stuck, ctrlC, code>>
server_bind(i) ==
  /\ At(i, "binding")
  /\ \A j \in Instance : ~Collides(i, j)
  /\ Sock(i, "bound") /\ To(i, "reserved")
  /\ UNCHANGED <<host, loop, model, stuck, ctrlC, code>>

\* "cannot bind": ahead of the load.
CannotBind(i) ==
  /\ At(i, "binding") /\ \E j \in Instance : Collides(i, j)
  /\ Leave(i, 1)
  /\ UNCHANGED <<host, loop, sock, model, stuck, ctrlC>>

-----------------------------------------------------------------------------
(* load_engine *)

\* Variables, bundle, files, SDK, Hexagon and DLL are there; the native call
\* begins, which nothing interrupts.
Create(i) ==
  /\ At(i, "reserved") /\ To(i, "loading")
  /\ UNCHANGED <<host, loop, sock, model, stuck, ctrlC, code>>

\* A check ahead of the load, the load itself or what follows it says why
\* not; the port is given back on the way out, and nothing is freed.
LoadFails(i) ==
  /\ pc[i] \in {"reserved", "loading", "loaded"}
  /\ Sock(i, "none") /\ Leave(i, 1)
  /\ UNCHANGED <<host, loop, model, stuck, ctrlC>>

Created(i) ==
  /\ At(i, "loading") /\ To(i, "loaded")
  /\ model' = [model EXCEPT ![i] = TRUE]
  /\ UNCHANGED <<host, loop, sock, stuck, ctrlC, code>>

-----------------------------------------------------------------------------
(* main, after the load *)

server_activate(i) ==
  /\ At(i, "loaded") /\ To(i, "listening") /\ Sock(i, "listening")
  /\ UNCHANGED <<host, loop, model, stuck, ctrlC, code>>

\* The watchdog is started, and serve_forever.
Serve(i) ==
  /\ At(i, "listening") /\ To(i, "serving")
  /\ UNCHANGED <<host, loop, sock, model, stuck, ctrlC, code>>

\* A call into the driver does not come back.
Sticks(i) ==
  /\ pc[i] \in {"serving", "stopping"} /\ ~stuck[i]
  /\ stuck' = [stuck EXCEPT ![i] = TRUE]
  /\ UNCHANGED <<host, loop, pc, sock, model, ctrlC, code>>

\* sys.exit, by way of main's `finally`.
Mutant_Wedged(i) ==
  /\ pc[i] \in {"serving", "stopping"} /\ stuck[i]
  /\ Leave(i, EXIT_WEDGED)
  /\ UNCHANGED <<host, loop, sock, model, stuck, ctrlC>>
\* The watchdog's verdict is wedged: _exit_for_supervisor, _terminate_self.
Wedged(i) ==
  /\ pc[i] \in {"serving", "stopping"} /\ stuck[i]
  /\ Die(i, EXIT_WEDGED)
  /\ UNCHANGED <<host, loop, sock, model, stuck, ctrlC>>

\* Python acts on an interrupt between two of its steps, so not in the load.
\* Inside load_engine the port is given back first; once bound and about to
\* enter it, it is not.
KeyboardInterrupt(i) ==
  /\ ctrlC[i] /\ ctrlC' = [ctrlC EXCEPT ![i] = FALSE]
  /\ \/ At(i, "serving") /\ To(i, "stopping") /\ UNCHANGED <<sock, code>>
     \/ /\ pc[i] \in {"probing", "binding", "reserved", "listening", "stopping"}
        /\ Leave(i, STATUS_CONTROL_C_EXIT) /\ UNCHANGED sock
     \/ /\ pc[i] \in {"reserved", "loaded"}
        /\ Leave(i, STATUS_CONTROL_C_EXIT) /\ Sock(i, "none")
  /\ UNCHANGED <<host, loop, model, stuck>>

\* begin_shutdown and close: the dialog is freed, unless the engine lock is
\* not to be had in time.
Close(i) ==
  /\ At(i, "stopping") /\ Leave(i, 0)
  /\ \/ ~stuck[i] /\ model' = [model EXCEPT ![i] = FALSE]
     \/ UNCHANGED model
  /\ UNCHANGED <<host, loop, sock, stuck, ctrlC>>

-----------------------------------------------------------------------------
(* The restart loop of the launcher *)

\* An NTSTATUS, and not that of the operator's own stop.
Test_NativeCrash(c) == c # STATUS_CONTROL_C_EXIT /\ c <= -65536

Starts(i) ==
  /\ launcher[i] \in {"idle", "cooling"}
  /\ launcher' = [launcher EXCEPT ![i] = "running"]
  /\ To(i, "probing")
  /\ UNCHANGED <<host, failures, recent, sock, model, stuck, ctrlC, code>>

\* A deliberate exit is not repeated.
NotRestarted(i) ==
  /\ launcher[i] = "running" /\ At(i, "none")
  /\ code[i] # EXIT_WEDGED /\ ~Test_NativeCrash(code[i])
  /\ launcher' = [launcher EXCEPT ![i] = "left"]
  /\ UNCHANGED <<host, failures, recent, pc, sock, model, stuck, ctrlC, code>>

\* Those of a list that are within the window, in their order.
Young(ages) ==
  LET kept[n \in 0..Len(ages)] ==
        IF n = 0 THEN <<>>
        ELSE IF ages[n] <= Horizon THEN Append(kept[n - 1], ages[n]) ELSE kept[n - 1]
  IN  kept[Len(ages)]

\* A failure as old as the window no longer counts.
Mutant_Counted(i) == Append(SelectSeq(failures[i], LAMBDA a : a < Horizon), 0)
\* What counts: this failure, and the earlier ones that have not aged out.
Counted(i) == Append(Young(failures[i]), 0)

Fails(i) ==
  /\ launcher[i] = "running" /\ At(i, "none")
  /\ code[i] = EXIT_WEDGED \/ Test_NativeCrash(code[i])
  /\ failures' = [failures EXCEPT ![i] = Counted(i)]
  /\ recent' = [recent EXCEPT ![i] = Append(@, 0)]
  /\ launcher' = [launcher EXCEPT ![i] =
       IF Len(Counted(i)) > MaxRestarts THEN "gaveUp" ELSE "cooling"]
  /\ UNCHANGED <<host, pc, sock, model, stuck, ctrlC, code>>

\* Ages beyond the horizon are all the same.
Older(a) == IF a > Horizon THEN a ELSE a + 1

Aged(ages) == [n \in DOMAIN ages |-> Older(ages[n])]

Tick ==
  /\ failures' = [i \in Instance |-> Aged(failures[i])]
  /\ recent' = [i \in Instance |-> Young(Aged(recent[i]))]
  /\ UNCHANGED <<host, launcher, pc, sock, model, stuck, ctrlC, code>>

-----------------------------------------------------------------------------
Machine(i) == Ends(i) \/ Crash(i) \/ CtrlC(i) \/ Sticks(i)
Process(i) ==
  \/ port_in_use(i) \/ server_bind(i) \/ CannotBind(i)
  \/ Create(i) \/ LoadFails(i) \/ Created(i)
  \/ server_activate(i) \/ Serve(i)
  \/ Wedged(i) \/ KeyboardInterrupt(i) \/ Close(i)
Launcher(i) == Starts(i) \/ NotRestarted(i) \/ Fails(i)

Next == Tick \/ \E i \in Instance : Machine(i) \/ Process(i) \/ Launcher(i)

Spec == Init /\ [][Next]_vars

-----------------------------------------------------------------------------
(***************************************************************************)
(* Properties.                                                             *)
(***************************************************************************)
TypeOK ==
  /\ host \in [Instance -> {"loopback", "wildcard"}]
  /\ launcher \in [Instance -> {"idle", "running", "cooling", "left", "gaveUp"}]
  /\ pc \in [Instance -> Places]
  /\ sock \in [Instance -> {"none", "bound", "listening"}]
  /\ model \in [Instance -> BOOLEAN]
  /\ stuck \in [Instance -> BOOLEAN]
  /\ ctrlC \in [Instance -> BOOLEAN]
  /\ code \in [Instance -> Codes]

\* What a process takes of the device.
Occupies(i) == At(i, "loading") \/ model[i]

\* Whatever GENIE_HOST they use, no process loads beside the model of another
\* ("a second instance on the default GENIE_HOST binds 127.0.0.1:p and loads
\* a second bundle onto the HTP beside the first"): a port is claimed before
\* the load and held while there is a model.  The exception is a process that
\* is leaving load_engine with the model loaded: it gives the port back and
\* frees nothing.
OneModel ==
  \A i, j \in Instance : i # j /\ Occupies(i) /\ Occupies(j) =>
    \E k \in {i, j} : At(k, "unwinding") /\ sock[k] = "none"

\* A client that gets through to the port finds a model behind it ("the port
\* answers" means "the model is resident"), as long as the server is not
\* leaving, and it is the model of the one server that a connect can reach: no
\* server looks healthy while it serves nobody.
PortMeansItsModel ==
  \A i \in Instance :
    Accepting(i) => (model[i] \/ At(i, "unwinding")) /\ Reached = {i}

\* The loop gives up exactly at more than MaxRestarts failures within the
\* horizon, however long the lives between them were and whatever has aged out.
GivesUpOverTheCap ==
  [][\A i \in Instance : recent'[i] # <<>> /\ launcher[i] = "running"
       /\ launcher'[i] \in {"cooling", "gaveUp"} =>
         (launcher'[i] = "gaveUp") = (Len(recent'[i]) > MaxRestarts)]_vars

(***************************************************************************)
(* Liveness.  Python takes its steps, the launcher its own, and the kernel *)
(* finishes with a process that has been terminated, or that leaves while  *)
(* its driver is well; a load may take for ever.                           *)
(***************************************************************************)
Fairness ==
  \A i \in Instance :
    /\ WF_vars(Process(i) /\ ~At(i, "loading"))
    /\ WF_vars(Launcher(i) /\ launcher[i] # "idle")
    /\ WF_vars(Ends(i) /\ (At(i, "dying") \/ ~stuck[i]))

FairSpec == Spec /\ Fairness

\* A server whose driver is stuck is replaced by one that loads, unless its
\* launcher gives up, another server has the port by then, or the operator
\* stops it: then it may hang on its way out, in a DLL's detach code.
StuckIsReplaced ==
  \A i \in Instance :
    stuck[i] /\ At(i, "serving") ~>
      \/ At(i, "loading") \/ At(i, "stopping")
      \/ launcher[i] \in {"left", "gaveUp"}

=============================================================================
