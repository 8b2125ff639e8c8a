--------------------------- MODULE Startup_proofs ---------------------------
(***************************************************************************)
(* Theorems about Startup, for any number of launchers, any cap and any    *)
(* window: the types of what the machine sees of a process; then Claiming, *)
(* the invariant that ties a process's place in `main` to its socket and   *)
(* its model and keeps the port with one process; then what follows.       *)
(***************************************************************************)
EXTENDS Startup, SequenceTheorems, WellFoundedInduction, TLAPS

-----------------------------------------------------------------------------
(***************************************************************************)
(* Types.                                                                  *)
(***************************************************************************)
\* The initial states are typed.
LEMMA InitTypes == Init => TypeOK
  BY DEF Init, TypeOK, Places, Codes

\* What the machine does to a process keeps the types.
LEMMA MachineTypes ==
  ASSUME TypeOK, NEW i \in Instance, Machine(i)
  PROVE  TypeOK'
  <1> USE DEF TypeOK, Places, Codes, loop
  <1>1. CASE Ends(i) BY <1>1 DEF Ends, To, Sock
  <1>2. CASE Crash(i) BY <1>2 DEF Crash, Die, To
  <1>3. CASE CtrlC(i) BY <1>3 DEF CtrlC
  <1>4. CASE Sticks(i) BY <1>4 DEF Sticks
  <1> QED BY <1>1, <1>2, <1>3, <1>4 DEF Machine

\* So does main.
LEMMA ProcessTypes ==
  ASSUME TypeOK, NEW i \in Instance, Process(i)
  PROVE  TypeOK'
  <1> USE DEF TypeOK, Places, Codes, loop
  <1>1. CASE port_in_use(i) BY <1>1 DEF port_in_use, Leave, To
  <1>2. CASE server_bind(i) BY <1>2 DEF server_bind, Sock, To
  <1>3. CASE CannotBind(i) BY <1>3 DEF CannotBind, Leave, To
  <1>4. CASE Create(i) BY <1>4 DEF Create, To
  <1>5. CASE LoadFails(i) BY <1>5 DEF LoadFails, Leave, Sock, To
  <1>6. CASE Created(i) BY <1>6 DEF Created, To
  <1>7. CASE server_activate(i) BY <1>7 DEF server_activate, Sock, To
  <1>8. CASE Serve(i) BY <1>8 DEF Serve, To
  <1>9. CASE Wedged(i) BY <1>9 DEF Wedged, Die, To
  <1>10. CASE KeyboardInterrupt(i)
    BY <1>10 DEF KeyboardInterrupt, Leave, Sock, To
  <1>11. CASE Close(i) BY <1>11 DEF Close, Leave, To
  <1> QED
    BY <1>1, <1>2, <1>3, <1>4, <1>5, <1>6, <1>7, <1>8, <1>9, <1>10, <1>11
    DEF Process

\* And the restart loop.
LEMMA LauncherTypes ==
  ASSUME TypeOK, NEW i \in Instance, Launcher(i)
  PROVE  TypeOK'
  <1> USE DEF TypeOK, Places
  <1>1. CASE Starts(i) BY <1>1 DEF Starts, To
  <1>2. CASE NotRestarted(i) BY <1>2 DEF NotRestarted
  <1>3. CASE Fails(i) BY <1>3 DEF Fails
  <1> QED BY <1>1, <1>2, <1>3 DEF Launcher

\* Every step keeps the types.
LEMMA NextTypes == TypeOK /\ [Next]_vars => TypeOK'
  <1> SUFFICES ASSUME TypeOK, [Next]_vars PROVE TypeOK'
    OBVIOUS
  <1>1. CASE Tick BY <1>1 DEF Tick, TypeOK
  <1>2. CASE UNCHANGED vars BY <1>2 DEF vars, loop, TypeOK
  <1>3. ASSUME NEW i \in Instance, Machine(i) \/ Process(i) \/ Launcher(i)
        PROVE  TypeOK'
    BY <1>3, MachineTypes, ProcessTypes, LauncherTypes
  <1> QED BY <1>1, <1>2, <1>3 DEF Next

\* The variables that the machine and the launchers see keep their types.
THEOREM TypeInvariant == Spec => []TypeOK
  <1> QED BY InitTypes, NextTypes, PTL DEF Spec

-----------------------------------------------------------------------------
(***************************************************************************)
(* Claiming.                                                               *)
(***************************************************************************)
\* The socket and the model of a process, by where it is: it has neither
\* before the bind, the port alone until the load is over, both while it
\* serves.  A terminated one keeps what it had; one that leaves may have
\* anything.  There is a process only while its launcher runs it.
Claim(i) ==
  /\ launcher[i] # "running" => pc[i] = "none"
  /\ pc[i] \in {"none", "probing", "binding"} => sock[i] = "none" /\ ~model[i]
  /\ pc[i] \in {"reserved", "loading"} => sock[i] = "bound" /\ ~model[i]
  /\ pc[i] = "loaded" => sock[i] = "bound" /\ model[i]
  /\ pc[i] \in {"listening", "serving", "stopping"} => sock[i] = "listening" /\ model[i]
  /\ pc[i] = "dying" => sock[i] = "bound" \/ (sock[i] = "listening" /\ model[i])

\* One process has the port, whatever it does with it.
OnePort == \A i, j \in Instance : i # j => sock[i] = "none" \/ sock[j] = "none"

Claiming == TypeOK /\ (\A i \in Instance : Claim(i)) /\ OnePort

\* What each step but the bind does for the process that takes it: its claim
\* holds afterwards, and it takes no port.
Keeps(i) ==
  /\ Claim(i)'
  /\ sock'[i] = sock[i] \/ sock[i] # "none" \/ sock'[i] = "none"
  /\ \A j \in Instance : j # i => /\ pc'[j] = pc[j] /\ sock'[j] = sock[j]
                                  /\ model'[j] = model[j]
                                  /\ launcher'[j] = launcher[j]

\* A step that keeps them for one process keeps them for all.
LEMMA KeepsAll ==
  ASSUME Claiming, TypeOK', NEW i \in Instance, Keeps(i)
  PROVE  Claiming'
  <1>1. \A j \in Instance : Claim(j)'
    <2>1. SUFFICES ASSUME NEW j \in Instance, j # i PROVE Claim(j)'
      BY DEF Keeps
    <2>2. Claim(j) BY DEF Claiming
    <2>3. /\ pc'[j] = pc[j] /\ sock'[j] = sock[j]
          /\ model'[j] = model[j] /\ launcher'[j] = launcher[j]
      BY <2>1 DEF Keeps
    <2> QED BY <2>2, <2>3 DEF Claim
  <1>2. OnePort'
    <2>1. SUFFICES ASSUME NEW j \in Instance, NEW k \in Instance, j # k
                   PROVE  sock'[j] = "none" \/ sock'[k] = "none"
      BY DEF OnePort
    <2>2. sock[j] = "none" \/ sock[k] = "none" BY <2>1 DEF Claiming, OnePort
    <2> QED BY <2>1, <2>2 DEF Keeps
  <1> QED BY <1>1, <1>2 DEF Claiming

\* What the machine does to a process keeps its claim: the kernel takes socket
\* and model back together, a fault leaves both.
LEMMA MachineKeeps ==
  ASSUME Claiming, NEW i \in Instance, Machine(i)
  PROVE  Keeps(i)
  <1> USE DEF Claiming, TypeOK, Keeps, Claim, loop
  <1>1. CASE Ends(i) BY <1>1 DEF Ends, To, Sock
  <1>2. CASE Crash(i) BY <1>2 DEF Crash, Die, To
  <1>3. CASE CtrlC(i) BY <1>3 DEF CtrlC
  <1>4. CASE Sticks(i) BY <1>4 DEF Sticks
  <1> QED BY <1>1, <1>2, <1>3, <1>4 DEF Machine

\* So does every step of main but the bind: the port is held from there to the
\* end of the load, and it listens only with the model in hand.
LEMMA ProcessKeeps ==
  ASSUME Claiming, NEW i \in Instance, Process(i), ~server_bind(i)
  PROVE  Keeps(i)
  <1> USE DEF Claiming, TypeOK, Keeps, Claim, At, loop
  <1>1. CASE port_in_use(i) BY <1>1 DEF port_in_use, Leave, To
  <1>2. CASE CannotBind(i) BY <1>2 DEF CannotBind, Leave, To
  <1>3. CASE Create(i) BY <1>3 DEF Create, To
  <1>4. CASE LoadFails(i) BY <1>4 DEF LoadFails, Leave, Sock, To
  <1>5. CASE Created(i) BY <1>5 DEF Created, To
  <1>6. CASE server_activate(i) BY <1>6 DEF server_activate, Sock, To
  <1>7. CASE Serve(i) BY <1>7 DEF Serve, To
  <1>8. CASE Wedged(i) BY <1>8 DEF Wedged, Die, To
  <1>9. CASE KeyboardInterrupt(i)
    BY <1>9 DEF KeyboardInterrupt, Leave, Sock, To
  <1>10. CASE Close(i) BY <1>10 DEF Close, Leave, To
  <1> QED
    BY <1>1, <1>2, <1>3, <1>4, <1>5, <1>6, <1>7, <1>8, <1>9, <1>10 DEF Process

\* A launcher starts a process that has nothing yet, and touches no other.
LEMMA LauncherKeeps ==
  ASSUME Claiming, NEW i \in Instance, Launcher(i)
  PROVE  Keeps(i)
  <1> USE DEF Claiming, TypeOK, Keeps, Claim, At
  <1>1. CASE Starts(i) BY <1>1 DEF Starts, To
  <1>2. CASE NotRestarted(i) BY <1>2 DEF NotRestarted
  <1>3. CASE Fails(i) BY <1>3 DEF Fails
  <1> QED BY <1>1, <1>2, <1>3 DEF Launcher

\* The bind is what claims the port, and it fails while anybody has it.
LEMMA BindClaims ==
  ASSUME Claiming, TypeOK', NEW i \in Instance, server_bind(i)
  PROVE  Claiming'
  <1>1. \A j \in Instance : j # i =>
          /\ sock[j] = "none" /\ sock'[j] = sock[j]
          /\ pc'[j] = pc[j] /\ model'[j] = model[j] /\ launcher'[j] = launcher[j]
    BY DEF server_bind, Collides, Sock, To, Claiming, TypeOK, loop
  <1>2. Claim(i)'
    BY DEF server_bind, Sock, To, At, Claiming, Claim, TypeOK, loop
  <1>3. \A j \in Instance : j # i => Claim(j)'
    BY <1>1 DEF Claiming, Claim
  <1>4. OnePort' BY <1>1 DEF OnePort
  <1> QED BY <1>2, <1>3, <1>4 DEF Claiming

\* Claiming is inductive.
LEMMA ClaimingInit == Init => Claiming
  <1> SUFFICES ASSUME Init PROVE Claiming
    OBVIOUS
  <1>1. TypeOK BY InitTypes
  <1>2. \A i \in Instance : Claim(i) BY DEF Init, Claim
  <1>3. OnePort BY DEF Init, OnePort
  <1> QED BY <1>1, <1>2, <1>3 DEF Claiming

\* Every step of every process keeps the claims.
LEMMA ClaimingNext == Claiming /\ [Next]_vars => Claiming'
  <1> SUFFICES ASSUME Claiming, [Next]_vars PROVE Claiming'
    OBVIOUS
  <1>1. TypeOK' BY NextTypes DEF Claiming
  <1>2. CASE UNCHANGED <<pc, sock, model, launcher>>
    BY <1>1, <1>2 DEF Claiming, Claim, OnePort
  <1>3. ASSUME NEW i \in Instance, Machine(i) \/ Process(i) \/ Launcher(i)
        PROVE  Claiming'
    <2>1. CASE server_bind(i) BY <1>1, <2>1, BindClaims
    <2>2. CASE ~server_bind(i)
      <3>1. Keeps(i) BY <1>3, <2>2, MachineKeeps, ProcessKeeps, LauncherKeeps
      <3> QED BY <1>1, <3>1, KeepsAll
    <2> QED BY <2>1, <2>2
  <1> QED BY <1>2, <1>3 DEF Next, Tick, vars, loop

\* The port is claimed before the load, held until the process is gone or its
\* load is over in failure, and never shared.
THEOREM ClaimInvariant == Spec => []Claiming
  <1> QED BY ClaimingInit, ClaimingNext, PTL DEF Spec

-----------------------------------------------------------------------------
(***************************************************************************)
(* What follows.                                                           *)
(***************************************************************************)
\* A process that loads or has a model holds the port, or gave it back on its
\* way out.
LEMMA Occupying ==
  ASSUME Claiming, NEW i \in Instance, Occupies(i)
  PROVE  sock[i] # "none" \/ At(i, "unwinding")
  BY DEF Claiming, Claim, Occupies, At, TypeOK, Places

\* No process loads beside the model of another, but that of one that is
\* leaving a load it interrupted.
THEOREM OneModelHolds == Spec => []OneModel
  <1>1. Claiming => OneModel
    <2>1. SUFFICES ASSUME Claiming, NEW i \in Instance, NEW j \in Instance,
                          i # j, Occupies(i), Occupies(j)
                   PROVE  \E k \in {i, j} : At(k, "unwinding") /\ sock[k] = "none"
      BY DEF OneModel
    <2>2. sock[i] = "none" \/ sock[j] = "none" BY <2>1 DEF Claiming, OnePort
    <2> QED BY <2>1, <2>2, Occupying
  <1> QED BY <1>1, ClaimInvariant, PTL

\* An answering port has one server behind it, and that one has its model or
\* is leaving.
THEOREM PortMeansItsModelHolds == Spec => []PortMeansItsModel
  <1>1. Claiming => PortMeansItsModel
    <2>1. SUFFICES ASSUME Claiming, NEW i \in Instance, Accepting(i)
                   PROVE  (model[i] \/ At(i, "unwinding")) /\ Reached = {i}
      BY DEF PortMeansItsModel
    <2>2. model[i] \/ At(i, "unwinding")
      BY <2>1 DEF Claiming, Claim, Accepting, At, TypeOK, Places
    <2>3. {j \in Instance : Accepting(j)} = {i}
      BY <2>1 DEF Claiming, OnePort, Accepting
    <2>4. Reached = {i} BY <2>3 DEF Reached
    <2> QED BY <2>2, <2>4
  <1> QED BY <1>1, ClaimInvariant, PTL

-----------------------------------------------------------------------------
(***************************************************************************)
(* The window of failures.  Young is a recursive function: it is shown to  *)
(* be what its equation says, and then one element longer at a time.       *)
(* Induction is stated of sets of numbers and of sequences.                *)
(***************************************************************************)
\* Induction, of sets of naturals.
LEMMA NatInduct ==
  ASSUME NEW P \in SUBSET Nat, 0 \in P, \A n \in P : n + 1 \in P
  PROVE  P = Nat
  <1> SUFFICES ASSUME P # Nat PROVE FALSE OBVIOUS
  <1> DEFINE T == Nat \ P
             R == {p \in Nat \X Nat : p[1] < p[2]}
  <1>1. OpToRel(<, Nat) = R BY DEF OpToRel
  <1>2. IsWellFoundedOn(R, Nat) BY <1>1, NatLessThanWellFounded
  <1>3. T \in SUBSET Nat /\ T # {} OBVIOUS
  <1> HIDE DEF R
  <1>4. PICK x \in T : \A y \in T : <<y, x>> \notin R BY <1>2, <1>3, WFMin
  <1>5. x # 0 /\ x \in Nat BY <1>4
  <1>6. x - 1 \in Nat /\ x - 1 \notin T
    <2>1. x - 1 \in Nat /\ x - 1 < x BY <1>5
    <2>2. <<x - 1, x>> \in R BY <1>5, <2>1 DEF R
    <2> QED BY <1>4, <2>1, <2>2
  <1>7. x \in P BY <1>5, <1>6
  <1> QED BY <1>4, <1>7

\* A sequence that is not empty is one appended to a shorter one.
LEMMA LastOff ==
  ASSUME NEW S, NEW s \in Seq(S), NEW n \in Nat, Len(s) = n + 1
  PROVE  /\ SubSeq(s, 1, n) \in Seq(S) /\ Len(SubSeq(s, 1, n)) = n
         /\ s[n + 1] \in S /\ s = Append(SubSeq(s, 1, n), s[n + 1])
  <1> DEFINE t == SubSeq(s, 1, n)
  <1>1. \A i \in 1..n : s[i] \in S BY ElementOfSeq
  <1>2. t \in Seq(S) /\ Len(t) = n /\ \A i \in 1..n : t[i] = s[i]
    BY <1>1, SubSeqProperties
  <1>3. s[n + 1] \in S BY ElementOfSeq
  <1> HIDE DEF t
  <1>4. Append(t, s[n + 1]) = s
    <2>1. /\ Append(t, s[n + 1]) \in Seq(S) /\ Len(Append(t, s[n + 1])) = n + 1
          /\ \A i \in 1..n : Append(t, s[n + 1])[i] = t[i]
          /\ Append(t, s[n + 1])[n + 1] = s[n + 1]
      BY <1>2, <1>3, AppendProperties
    <2>2. \A i \in 1..(n + 1) : i \in 1..n \/ i = n + 1 OBVIOUS
    <2>3. \A i \in 1..(n + 1) : Append(t, s[n + 1])[i] = s[i] BY <1>2, <2>1, <2>2
    <2> QED BY <2>1, <2>3, SeqEqual
  <1> QED BY <1>2, <1>3, <1>4 DEF t

\* Induction, of sets of sequences.
LEMMA SeqInduct ==
  ASSUME NEW S, NEW P \in SUBSET Seq(S), <<>> \in P,
         \A s \in P : \A a \in S : Append(s, a) \in P
  PROVE  P = Seq(S)
  <1> DEFINE Q == {n \in Nat : \A s \in Seq(S) : Len(s) = n => s \in P}
  <1>1. 0 \in Q
    <2>1. \A s \in Seq(S) : Len(s) = 0 => s = <<>> BY EmptySeq
    <2> QED BY <2>1
  <1>2. ASSUME NEW n \in Q PROVE n + 1 \in Q
    <2>1. SUFFICES ASSUME NEW s \in Seq(S), Len(s) = n + 1 PROVE s \in P
      OBVIOUS
    <2>2. n \in Nat /\ \A t \in Seq(S) : Len(t) = n => t \in P OBVIOUS
    <2> HIDE DEF Q
    <2>3. /\ SubSeq(s, 1, n) \in Seq(S) /\ Len(SubSeq(s, 1, n)) = n
          /\ s[n + 1] \in S /\ s = Append(SubSeq(s, 1, n), s[n + 1])
      BY <2>1, <2>2, LastOff
    <2>4. SubSeq(s, 1, n) \in P BY <2>2, <2>3
    <2> QED BY <2>3, <2>4
  <1> HIDE DEF Q
  <1>3. Q = Nat
    <2>1. Q \in SUBSET Nat BY DEF Q
    <2> QED BY <1>1, <1>2, <2>1, NatInduct
  <1>4. ASSUME NEW s \in Seq(S) PROVE s \in P
    <2>1. Len(s) \in Q BY <1>3
    <2> QED BY <2>1 DEF Q
  <1> QED BY <1>4

\* g keeps the young of s as far as n.
KeepsTo(s, n, g) ==
  g = [k \in 0..n |-> IF k = 0 THEN <<>>
                      ELSE IF s[k] <= Horizon THEN Append(g[k - 1], s[k]) ELSE g[k - 1]]

\* What a function that keeps them is.
LEMMA KeepsAre ==
  ASSUME NEW s, NEW n \in Nat, NEW g, KeepsTo(s, n, g)
  PROVE  /\ DOMAIN g = 0..n /\ g[0] = <<>>
         /\ \A k \in 1..n : g[k] = IF s[k] <= Horizon THEN Append(g[k - 1], s[k])
                                   ELSE g[k - 1]
  <1> DEFINE h == [k \in 0..n |-> IF k = 0 THEN <<>>
                      ELSE IF s[k] <= Horizon THEN Append(g[k - 1], s[k]) ELSE g[k - 1]]
  <1>1. g = h BY DEF KeepsTo
  <1>2. DOMAIN h = 0..n /\ h[0] = <<>>
        /\ \A k \in 1..n : h[k] = IF s[k] <= Horizon THEN Append(g[k - 1], s[k])
                                  ELSE g[k - 1]
    OBVIOUS
  <1> HIDE DEF h
  <1> QED BY <1>1, <1>2

\* One that keeps them of a list keeps them of a longer one, with one value more.
LEMMA KeepsMore ==
  ASSUME NEW s \in Seq(Nat), NEW a \in Nat,
         NEW g \in [0..Len(s) -> Seq(Nat)], KeepsTo(s, Len(s), g)
  PROVE  \E h \in [0..Len(s) + 1 -> Seq(Nat)] :
           /\ KeepsTo(Append(s, a), Len(s) + 1, h)
           /\ h[Len(s) + 1] = IF a <= Horizon THEN Append(g[Len(s)], a) ELSE g[Len(s)]
  <1> DEFINE n == Len(s)
             w == Append(s, a)
             last == IF a <= Horizon THEN Append(g[n], a) ELSE g[n]
             h == [k \in 0..(n + 1) |-> IF k <= n THEN g[k] ELSE last]
             e == [k \in 0..(n + 1) |-> IF k = 0 THEN <<>>
                     ELSE IF w[k] <= Horizon THEN Append(h[k - 1], w[k]) ELSE h[k - 1]]
  <1>0. n \in Nat /\ w \in Seq(Nat) /\ (\A k \in 1..n : w[k] = s[k]) /\ w[n + 1] = a
    BY AppendProperties
  <1>1. g[0] = <<>> /\ \A k \in 1..n : g[k] = IF s[k] <= Horizon THEN Append(g[k - 1], s[k])
                                              ELSE g[k - 1]
    BY <1>0, KeepsAre
  <1>2. last \in Seq(Nat) BY <1>0
  <1> HIDE DEF n, w, last
  <1>3. h \in [0..(n + 1) -> Seq(Nat)] BY <1>0, <1>2 DEF n
  <1>4. h[n + 1] = last BY <1>0
  <1>5. ASSUME NEW k \in 0..(n + 1) PROVE h[k] = e[k]
    <2>1. CASE k = 0 BY <1>0, <1>1, <2>1
    <2>2. CASE k \in 1..n
      <3>1. k <= n /\ k - 1 <= n /\ k - 1 \in 0..(n + 1) /\ k # 0 BY <1>0, <2>2
      <3>2. h[k] = g[k] /\ h[k - 1] = g[k - 1] /\ w[k] = s[k] BY <1>0, <2>2, <3>1
      <3>3. e[k] = IF w[k] <= Horizon THEN Append(h[k - 1], w[k]) ELSE h[k - 1]
        BY <3>1
      <3> QED BY <1>1, <2>2, <3>2, <3>3
    <2>3. CASE k = n + 1
      <3>1. k - 1 = n /\ k # 0 /\ n \in 0..(n + 1) BY <1>0, <2>3
      <3>2. h[k - 1] = g[n] /\ w[k] = a BY <1>0, <2>3, <3>1
      <3>3. e[k] = IF w[k] <= Horizon THEN Append(h[k - 1], w[k]) ELSE h[k - 1]
        BY <3>1
      <3> QED BY <1>4, <2>3, <3>2, <3>3 DEF last
    <2> QED BY <1>0, <2>1, <2>2, <2>3
  <1>6. h = [k \in 0..(n + 1) |-> h[k]] /\ e = [k \in 0..(n + 1) |-> e[k]] OBVIOUS
  <1>7. h = e
    <2> HIDE DEF h, e
    <2> QED BY <1>5, <1>6
  <1>8. KeepsTo(w, n + 1, h) BY <1>7 DEF KeepsTo
  <1> HIDE DEF h
  <1> QED BY <1>3, <1>4, <1>8 DEF n, w, last

\* There is one that keeps the young of a list.
LEMMA KeepsExist ==
  ASSUME NEW s \in Seq(Nat)
  PROVE  \E g \in [0..Len(s) -> Seq(Nat)] : KeepsTo(s, Len(s), g)
  <1> DEFINE P == {t \in Seq(Nat) : \E g \in [0..Len(t) -> Seq(Nat)] : KeepsTo(t, Len(t), g)}
  <1>1. <<>> \in P
    <2> DEFINE g == [k \in 0..0 |-> <<>>]
               e == [k \in 0..0 |-> IF k = 0 THEN <<>>
                       ELSE IF <<>>[k] <= Horizon THEN Append(g[k - 1], <<>>[k]) ELSE g[k - 1]]
    <2>1. Len(<<>>) = 0 /\ <<>> \in Seq(Nat) /\ g \in [0..0 -> Seq(Nat)] BY EmptySeq
    <2>2. g = e OBVIOUS
    <2>3. KeepsTo(<<>>, 0, g) BY <2>2 DEF KeepsTo
    <2> HIDE DEF g
    <2> QED BY <2>1, <2>3
  <1>2. ASSUME NEW t \in P, NEW a \in Nat PROVE Append(t, a) \in P
    <2>1. PICK g \in [0..Len(t) -> Seq(Nat)] : KeepsTo(t, Len(t), g) OBVIOUS
    <2>2. Append(t, a) \in Seq(Nat) /\ Len(Append(t, a)) = Len(t) + 1 OBVIOUS
    <2>3. t \in Seq(Nat) OBVIOUS
    <2> HIDE DEF P
    <2>4. \E h \in [0..Len(t) + 1 -> Seq(Nat)] : KeepsTo(Append(t, a), Len(t) + 1, h)
      BY <2>1, <2>3, KeepsMore
    <2> QED BY <2>2, <2>4 DEF P
  <1>3. P \in SUBSET Seq(Nat) OBVIOUS
  <1> HIDE DEF P
  <1>4. s \in P BY <1>1, <1>2, <1>3, SeqInduct
  <1> QED BY <1>4 DEF P

\* And no two of them differ.
LEMMA KeepsAgree ==
  ASSUME NEW s, NEW n \in Nat, NEW f, NEW g, KeepsTo(s, n, f), KeepsTo(s, n, g)
  PROVE  f[n] = g[n]
  <1> DEFINE P == {k \in Nat : k <= n => f[k] = g[k]}
  <1>0. /\ f[0] = <<>> /\ \A k \in 1..n : f[k] = IF s[k] <= Horizon
                            THEN Append(f[k - 1], s[k]) ELSE f[k - 1]
        /\ g[0] = <<>> /\ \A k \in 1..n : g[k] = IF s[k] <= Horizon
                            THEN Append(g[k - 1], s[k]) ELSE g[k - 1]
    BY KeepsAre
  <1>1. 0 \in P BY <1>0
  <1>2. ASSUME NEW k \in P PROVE k + 1 \in P
    <2> SUFFICES ASSUME k + 1 <= n PROVE f[k + 1] = g[k + 1] OBVIOUS
    <2>1. k \in Nat /\ f[k] = g[k] /\ k + 1 \in 1..n /\ (k + 1) - 1 = k OBVIOUS
    <2> HIDE DEF P
    <2>2. /\ f[k + 1] = IF s[k + 1] <= Horizon THEN Append(f[k], s[k + 1]) ELSE f[k]
          /\ g[k + 1] = IF s[k + 1] <= Horizon THEN Append(g[k], s[k + 1]) ELSE g[k]
      BY <1>0, <2>1
    <2> QED BY <2>1, <2>2
  <1>3. P \in SUBSET Nat OBVIOUS
  <1> HIDE DEF P
  <1>4. n \in P BY <1>1, <1>2, <1>3, NatInduct
  <1> QED BY <1>4 DEF P

\* The young of a list are what any such function keeps.
LEMMA YoungIs ==
  ASSUME NEW s \in Seq(Nat)
  PROVE  \A g : KeepsTo(s, Len(s), g) => Young(s) = g[Len(s)]
  <1> DEFINE n == Len(s)
             F == CHOOSE g : KeepsTo(s, n, g)
  <1>1. n \in Nat OBVIOUS
  <1>2. KeepsTo(s, n, F) BY KeepsExist
  <1>3. Young(s) = F[n] BY DEF Young, KeepsTo
  <1> HIDE DEF F, n
  <1>4. ASSUME NEW g, KeepsTo(s, n, g) PROVE Young(s) = g[n]
    BY <1>1, <1>2, <1>3, <1>4, KeepsAgree
  <1> QED BY <1>4 DEF n

\* One more in a list is one more in what is young of it, or none.
LEMMA YoungMore ==
  ASSUME NEW s \in Seq(Nat), NEW a \in Nat
  PROVE  Young(Append(s, a)) = IF a <= Horizon THEN Append(Young(s), a) ELSE Young(s)
  <1>1. PICK g \in [0..Len(s) -> Seq(Nat)] : KeepsTo(s, Len(s), g) BY KeepsExist
  <1>2. PICK h \in [0..Len(s) + 1 -> Seq(Nat)] :
          /\ KeepsTo(Append(s, a), Len(s) + 1, h)
          /\ h[Len(s) + 1] = IF a <= Horizon THEN Append(g[Len(s)], a) ELSE g[Len(s)]
    BY <1>1, KeepsMore
  <1>3. Append(s, a) \in Seq(Nat) /\ Len(Append(s, a)) = Len(s) + 1 OBVIOUS
  <1>4. Young(s) = g[Len(s)] BY <1>1, YoungIs
  <1>5. Young(Append(s, a)) = h[Len(s) + 1] BY <1>2, <1>3, YoungIs
  <1> QED BY <1>2, <1>4, <1>5

\* Of an empty list none is.
LEMMA YoungNone == Young(<<>>) = <<>>
  <1>1. <<>> \in Seq(Nat) /\ Len(<<>>) = 0 BY EmptySeq
  <1>2. PICK g \in [0..0 -> Seq(Nat)] : KeepsTo(<<>>, 0, g) BY <1>1, KeepsExist
  <1>3. Young(<<>>) = g[0] BY <1>1, <1>2, YoungIs
  <1>4. g[0] = <<>> BY <1>2, KeepsAre
  <1> QED BY <1>3, <1>4

\* A list is aged one by one.
LEMMA AgedMore ==
  ASSUME NEW s \in Seq(Nat), NEW a \in Nat
  PROVE  /\ Aged(s) \in Seq(Nat)
         /\ Aged(Append(s, a)) = Append(Aged(s), Older(a))
         /\ Older(a) \in Nat
  <1> DEFINE n == Len(s)
             x == Aged(Append(s, a))
             y == Append(Aged(s), Older(a))
  <1>1. \A b \in Nat : Older(b) \in Nat BY StartupAssumption DEF Older
  <1>2. n \in Nat /\ DOMAIN s = 1..n /\ \A i \in 1..n : s[i] \in Nat
    BY LenProperties, ElementOfSeq
  <1> HIDE DEF n
  <1>3. Aged(s) = [i \in 1..n |-> Older(s[i])] BY <1>2 DEF Aged
  <1>4. \A i \in 1..n : Older(s[i]) \in Nat BY <1>1, <1>2
  <1>5. Aged(s) \in Seq(Nat) /\ Len(Aged(s)) = n BY <1>2, <1>3, <1>4
  <1>6. /\ Append(s, a) \in Seq(Nat) /\ DOMAIN Append(s, a) = 1..(n + 1)
        /\ (\A i \in 1..n : Append(s, a)[i] = s[i]) /\ Append(s, a)[n + 1] = a
    BY <1>2, AppendProperties DEF n
  <1>7. x = [i \in 1..(n + 1) |-> Older(Append(s, a)[i])] BY <1>6 DEF Aged
  <1>0. \A i \in 1..(n + 1) : i \in 1..n \/ i = n + 1 BY <1>2
  <1>8. \A i \in 1..(n + 1) : Older(Append(s, a)[i]) \in Nat
    <2>1. \A i \in 1..(n + 1) : Append(s, a)[i] \in Nat BY <1>0, <1>2, <1>6
    <2> QED BY <1>1, <2>1
  <1>9. x \in Seq(Nat) /\ Len(x) = n + 1 BY <1>2, <1>7, <1>8
  <1>10. /\ y \in Seq(Nat) /\ Len(y) = n + 1 /\ y[n + 1] = Older(a)
         /\ \A i \in 1..n : y[i] = Aged(s)[i]
    <2>1. Older(a) \in Nat BY <1>1
    <2> HIDE DEF y
    <2>2. y = Append(Aged(s), Older(a)) BY DEF y
    <2> QED BY <1>5, <2>1, <2>2, AppendProperties
  <1>11. ASSUME NEW i \in 1..(n + 1) PROVE x[i] = y[i]
    <2>1. x[i] = Older(Append(s, a)[i]) BY <1>7
    <2>2. CASE i \in 1..n BY <1>3, <1>6, <1>10, <2>1, <2>2
    <2>3. CASE i = n + 1 BY <1>6, <1>10, <2>1, <2>3
    <2> QED BY <1>0, <2>2, <2>3
  <1> HIDE DEF x, y
  <1>12. x = y BY <1>9, <1>10, <1>11, SeqEqual
  <1> QED BY <1>1, <1>5, <1>12 DEF x, y

\* What has aged out stays out: the young of a list are young of themselves,
\* and to prune before a tick as well changes nothing.
LEMMA YoungTwice ==
  ASSUME NEW s \in Seq(Nat)
  PROVE  /\ Young(s) \in Seq(Nat)
         /\ Young(Young(s)) = Young(s)
         /\ Young(Aged(Young(s))) = Young(Aged(s))
  <1> DEFINE P == {t \in Seq(Nat) : /\ Young(t) \in Seq(Nat)
                                    /\ Young(Young(t)) = Young(t)
                                    /\ Young(Aged(Young(t))) = Young(Aged(t))}
  <1>1. <<>> \in P
    <2>1. <<>> \in Seq(Nat) BY EmptySeq
    <2> QED BY <2>1, YoungNone
  <1>2. ASSUME NEW t \in P, NEW a \in Nat PROVE Append(t, a) \in P
    <2>1. /\ t \in Seq(Nat) /\ Young(t) \in Seq(Nat)
          /\ Young(Young(t)) = Young(t) /\ Young(Aged(Young(t))) = Young(Aged(t))
      OBVIOUS
    <2> HIDE DEF P
    <2>2. /\ Append(t, a) \in Seq(Nat)
          /\ Young(Append(t, a)) = IF a <= Horizon THEN Append(Young(t), a) ELSE Young(t)
      BY <2>1, YoungMore
    <2>3. /\ Aged(t) \in Seq(Nat) /\ Older(a) \in Nat
          /\ Aged(Append(t, a)) = Append(Aged(t), Older(a))
      BY <2>1, AgedMore
    <2>4. Young(Aged(Append(t, a))) =
            IF Older(a) <= Horizon THEN Append(Young(Aged(t)), Older(a)) ELSE Young(Aged(t))
      BY <2>3, YoungMore
    <2>5. CASE a <= Horizon
      <3>1. Young(Append(t, a)) = Append(Young(t), a) BY <2>2, <2>5
      <3>2. Append(Young(t), a) \in Seq(Nat) BY <2>1
      <3>3. Young(Append(Young(t), a)) = Append(Young(t), a) BY <2>1, <2>5, YoungMore
      <3>4. /\ Aged(Young(t)) \in Seq(Nat)
            /\ Aged(Append(Young(t), a)) = Append(Aged(Young(t)), Older(a))
        BY <2>1, AgedMore
      <3>5. Young(Aged(Append(Young(t), a))) =
              IF Older(a) <= Horizon THEN Append(Young(Aged(Young(t))), Older(a))
              ELSE Young(Aged(Young(t)))
        BY <2>3, <3>4, YoungMore
      <3> QED BY <2>1, <2>2, <2>4, <3>1, <3>2, <3>3, <3>5 DEF P
    <2>6. CASE ~(a <= Horizon)
      <3>1. Young(Append(t, a)) = Young(t) BY <2>2, <2>6
      <3>2. ~(Older(a) <= Horizon) BY <2>6, StartupAssumption DEF Older
      <3>3. Young(Aged(Append(t, a))) = Young(Aged(t)) BY <2>4, <3>2
      <3> QED BY <2>1, <2>2, <3>1, <3>3 DEF P
    <2> QED BY <2>5, <2>6
  <1>3. P \in SUBSET Seq(Nat) OBVIOUS
  <1> HIDE DEF P
  <1>4. s \in P BY <1>1, <1>2, <1>3, SeqInduct
  <1> QED BY <1>4 DEF P

-----------------------------------------------------------------------------
(***************************************************************************)
(* What a launcher counts.                                                 *)
(***************************************************************************)
\* The launcher prunes its list only when it adds to it; what it would keep of
\* it now is what is within the window now.
Counting ==
  /\ failures \in [Instance -> Seq(Nat)] /\ recent \in [Instance -> Seq(Nat)]
  /\ \A i \in Instance : Young(failures[i]) = recent[i]

\* Nothing is counted at first.
LEMMA CountingInit == Init => Counting
  <1>1. <<>> \in Seq(Nat) BY EmptySeq
  <1> QED BY <1>1, YoungNone DEF Init, Counting

\* Where the restart loop stands is told by its failures.
LEMMA FailsCounts ==
  ASSUME Counting, NEW i \in Instance, Fails(i)
  PROVE  /\ Counting'
         /\ Len(Counted(i)) = Len(recent'[i])
         /\ \A j \in Instance : j # i => recent'[j] = recent[j]
  <1>1. /\ failures[i] \in Seq(Nat) /\ recent[i] \in Seq(Nat)
        /\ Young(failures[i]) = recent[i]
    BY DEF Counting
  <1>2. Counted(i) = Append(recent[i], 0) BY <1>1 DEF Counted
  <1>3. /\ failures' = [failures EXCEPT ![i] = Counted(i)]
        /\ recent' = [recent EXCEPT ![i] = Append(recent[i], 0)]
    BY DEF Fails
  <1>4. 0 \in Nat /\ 0 <= Horizon BY StartupAssumption
  <1>5. Counted(i) \in Seq(Nat) BY <1>1, <1>2, <1>4
  <1>6. Young(Counted(i)) = Append(recent[i], 0)
    <2>1. Young(recent[i]) = recent[i] BY <1>1, YoungTwice
    <2>2. Young(Append(recent[i], 0)) = Append(Young(recent[i]), 0)
      BY <1>1, <1>4, YoungMore
    <2> QED BY <1>2, <2>1, <2>2
  <1>7. Counting'
    <2>1. failures' \in [Instance -> Seq(Nat)] /\ recent' \in [Instance -> Seq(Nat)]
      BY <1>2, <1>3, <1>5 DEF Counting
    <2>2. ASSUME NEW j \in Instance PROVE Young(failures'[j]) = recent'[j]
      BY <1>3, <1>6 DEF Counting
    <2> QED BY <2>1, <2>2 DEF Counting
  <1>8. recent'[i] = Append(recent[i], 0) BY <1>3 DEF Counting
  <1> QED BY <1>2, <1>3, <1>7, <1>8 DEF Counting

\* Time ages both, and only one of them forgets.
LEMMA TickCounts ==
  ASSUME Counting, Tick
  PROVE  Counting'
  <1>1. ASSUME NEW i \in Instance
        PROVE  /\ Aged(failures[i]) \in Seq(Nat)
               /\ Young(Aged(recent[i])) \in Seq(Nat)
               /\ Young(Aged(failures[i])) = Young(Aged(recent[i]))
    <2>1. /\ failures[i] \in Seq(Nat) /\ recent[i] \in Seq(Nat)
          /\ Young(failures[i]) = recent[i]
      BY DEF Counting
    <2>2. Aged(failures[i]) \in Seq(Nat) /\ Aged(recent[i]) \in Seq(Nat)
      <3>1. 0 \in Nat OBVIOUS
      <3> QED BY <2>1, <3>1, AgedMore
    <2>3. Young(Aged(Young(failures[i]))) = Young(Aged(failures[i]))
      BY <2>1, YoungTwice
    <2> QED BY <2>1, <2>2, <2>3, YoungTwice
  <1>2. /\ failures' = [i \in Instance |-> Aged(failures[i])]
        /\ recent' = [i \in Instance |-> Young(Aged(recent[i]))]
    BY DEF Tick
  <1> QED BY <1>1, <1>2 DEF Counting

\* Nothing else touches either list, or takes a launcher from where it runs to
\* where it has counted.
LEMMA OthersCount ==
  ASSUME TypeOK, NEW i \in Instance,
         Machine(i) \/ Process(i) \/ Starts(i) \/ NotRestarted(i)
  PROVE  /\ UNCHANGED <<failures, recent>>
         /\ \A j \in Instance : launcher'[j] \in {"cooling", "gaveUp"} =>
              launcher'[j] = launcher[j]
  <1>1. CASE Machine(i)
    <2>1. UNCHANGED loop BY <1>1 DEF Machine, Ends, Crash, CtrlC, Sticks
    <2> QED BY <2>1 DEF loop
  <1>2. CASE Process(i)
    <2>1. UNCHANGED loop
      BY <1>2 DEF Process, port_in_use, server_bind, CannotBind, Create, LoadFails, Created,
                  server_activate, Serve, Wedged, KeyboardInterrupt, Close
    <2> QED BY <2>1 DEF loop
  <1>3. CASE Starts(i) BY <1>3 DEF Starts, TypeOK
  <1>4. CASE NotRestarted(i) BY <1>4 DEF NotRestarted, TypeOK
  <1> QED BY <1>1, <1>2, <1>3, <1>4

\* Counting is inductive.
LEMMA CountingNext == TypeOK /\ Counting /\ [Next]_vars => Counting'
  <1> SUFFICES ASSUME TypeOK, Counting, [Next]_vars PROVE Counting'
    OBVIOUS
  <1>1. CASE UNCHANGED <<failures, recent>> BY <1>1 DEF Counting
  <1>2. CASE Tick BY <1>2, TickCounts
  <1>3. ASSUME NEW i \in Instance, Machine(i) \/ Process(i) \/ Launcher(i)
        PROVE  Counting'
    <2>1. CASE Fails(i) BY <2>1, FailsCounts
    <2>2. CASE ~Fails(i)
      <3>1. Machine(i) \/ Process(i) \/ Starts(i) \/ NotRestarted(i)
        BY <1>3, <2>2 DEF Launcher
      <3> QED BY <1>1, <3>1, OthersCount
    <2> QED BY <2>1, <2>2
  <1> QED BY <1>1, <1>2, <1>3 DEF Next, vars, loop

\* A launcher's list, pruned when it is read, is the failures of the window.
THEOREM CountInvariant == Spec => []Counting
  <1> QED BY CountingInit, CountingNext, TypeInvariant, PTL DEF Spec

\* The loop gives up exactly when there are more failures within the window
\* than MaxRestarts, whatever the list it keeps still holds.
THEOREM GivesUpOverTheCapHolds == Spec => GivesUpOverTheCap
  <1>1. ASSUME TypeOK, Counting, [Next]_vars, NEW i \in Instance,
               launcher[i] = "running", launcher'[i] \in {"cooling", "gaveUp"}
        PROVE  (launcher'[i] = "gaveUp") = (Len(recent'[i]) > MaxRestarts)
    <2>1. launcher'[i] # launcher[i] BY <1>1
    <2>2. PICK j \in Instance : Machine(j) \/ Process(j) \/ Launcher(j)
      BY <1>1, <2>1 DEF Next, Tick, vars, loop
    <2>3. Fails(j)
      <3>1. ~(Machine(j) \/ Process(j) \/ Starts(j) \/ NotRestarted(j))
        BY <1>1, <2>1, OthersCount
      <3> QED BY <2>2, <3>1 DEF Launcher
    <2>4. launcher' = [launcher EXCEPT ![j] =
            IF Len(Counted(j)) > MaxRestarts THEN "gaveUp" ELSE "cooling"]
      BY <2>3 DEF Fails
    <2>5. j = i BY <1>1, <2>1, <2>4 DEF TypeOK
    <2>6. Len(Counted(i)) = Len(recent'[i]) BY <1>1, <2>3, <2>5, FailsCounts
    <2> QED BY <1>1, <2>4, <2>5, <2>6 DEF TypeOK
  <1>2. TypeOK /\ Counting /\ [Next]_vars =>
          [\A i \in Instance : recent'[i] # <<>> /\ launcher[i] = "running"
             /\ launcher'[i] \in {"cooling", "gaveUp"} =>
               (launcher'[i] = "gaveUp") = (Len(recent'[i]) > MaxRestarts)]_vars
    BY <1>1
  <1> QED BY <1>2, TypeInvariant, CountInvariant, PTL DEF Spec, GivesUpOverTheCap
=============================================================================
