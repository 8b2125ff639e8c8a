---------------------------- MODULE Server_proofs ----------------------------
(***************************************************************************)
(* Theorems about Server, for any requests, clients, permits, chunks and   *)
(* probing distance.  The types come first; then Course, which ties a      *)
(* handler's place to the state of its turn and which nearly everything    *)
(* else follows from; then the permits, the distance between probes, what  *)
(* has been delivered to a client (Reasons and Sent) and in which frames   *)
(* (Showing).                                                              *)
(***************************************************************************)
EXTENDS Server, FiniteSetTheorems, SequenceTheorems, TLAPS

-----------------------------------------------------------------------------
(***************************************************************************)
(* Types.  What has reached the clients is left to the last section.       *)
(***************************************************************************)
TurnType == [at : {"idle", "queued", "running", "ended"}, aborted : BOOLEAN,
             named : BOOLEAN, how : {"none", "whole", "raised", "cut", "refused"},
             told : {"none", "closing", "error", "done", "discarded", "cut"}]
Local == [gone : BOOLEAN, open : BOOLEAN, held : Seq(Nat), chunks : Seq(Nat),
          counting : BOOLEAN, unheard : Nat]
Place == {"door", "checked", "sizing", "opening", "started", "generating", "billing",
          "leaving", "served"}

Types ==
  /\ turn \in [Turn -> TurnType] /\ holder \in Turn \cup {Nobody, Counter}
  /\ stopping \in BOOLEAN
  /\ req \in [Turn -> Request] /\ peer \in [Turn -> {"here", "gone"}]
  /\ pc \in [Turn -> Place] /\ em \in [Turn -> Local] /\ said \in [Turn -> 0..Cap]

\* The locals after one more chunk.
Longer(c, open, back) ==
  [em[c] EXCEPT !.chunks = Append(@, Len(em[c].chunks) + 1),
                !.unheard = IF peer[c] = "gone" /\ ~Streams(c) THEN @ + 1 ELSE @,
                !.open = open, !.held = back]

\* What a write or a probe does besides the wire: nothing, or it finds the
\* peer gone, latches that and aborts the turn.
Heard(c, e) ==
  \/ With(c, e) /\ UNCHANGED service
  \/ peer[c] = "gone" /\ With(c, [e EXCEPT !.gone = TRUE]) /\ Loses(c)

\* Every write and every probe is one of those.
LEMMA WritingIsHeard ==
  ASSUME NEW c \in Turn, NEW e, NEW frames
  PROVE  Writes(c, frames, e) \/ Probes(c, e) => Heard(c, e)
  BY DEF Writes, Probes, Heard

\* Consume, with what it does to the wire left open: one more chunk, held
\* back, sent on or kept.
LEMMA ConsumeIsHeard ==
  ASSUME NEW c \in Turn, Types, Consume(c)
  PROVE  /\ pc[c] = "generating" /\ ~em[c].gone /\ Len(em[c].chunks) < said[c]
         /\ UNCHANGED <<req, peer, pc, said, permits>>
         /\ \E open \in BOOLEAN, back \in Seq(Nat) :
              Heard(c, Longer(c, open, back))
  <1> DEFINE n == Len(em[c].chunks) + 1
             u == IF peer[c] = "gone" /\ ~Streams(c) THEN em[c].unheard + 1
                  ELSE em[c].unheard
             F(open, back) == [em[c] EXCEPT !.chunks = Append(@, n), !.unheard = u,
                                            !.open = open, !.held = back]
             e == [em[c] EXCEPT !.chunks = Append(@, n), !.unheard = u]
             opened == [e EXCEPT !.open = TRUE, !.held = <<>>]
             held == [e EXCEPT !.held = Append(em[c].held, n)]
  <1>1. em[c] \in Local /\ n \in Nat BY DEF Types, Local
  <1>2. e = F(em[c].open, em[c].held) BY <1>1 DEF Local
  <1>3. opened = F(TRUE, <<>>) BY <1>1 DEF Local
  <1>4. held = F(em[c].open, Append(em[c].held, n)) BY <1>1 DEF Local
  <1>5. Heard(c, e) \/ Heard(c, opened) \/ Heard(c, held)
    <2>1. e.held = em[c].held BY <1>1 DEF Local
    <2>2. CASE Writes(c, Text(<<n>>), e) BY <2>2, WritingIsHeard
    <2>3. CASE Writes(c, Text(Append(em[c].held, n)), opened) BY <2>3, WritingIsHeard
    <2>4. CASE Probes(c, held) \/ (With(c, held) /\ UNCHANGED service)
      BY <2>4, WritingIsHeard DEF Heard
    <2>5. CASE Probes(c, e) \/ (With(c, e) /\ UNCHANGED service)
      BY <2>5, WritingIsHeard DEF Heard
    <2> QED BY <2>1, <2>2, <2>3, <2>4, <2>5 DEF Consume
  <1>6. Append(em[c].held, n) \in Seq(Nat) /\ em[c].open \in BOOLEAN /\ em[c].held \in Seq(Nat)
        /\ <<>> \in Seq(Nat)
    BY <1>1 DEF Local
  <1>7. \E open \in BOOLEAN, back \in Seq(Nat) : Heard(c, F(open, back))
    <2> HIDE DEF e, F, opened, held
    <2> QED BY <1>2, <1>3, <1>4, <1>5, <1>6
  <1>8. \A open \in BOOLEAN, back \in Seq(Nat) : F(open, back) = Longer(c, open, back)
    BY DEF Longer
  <1> HIDE DEF F
  <1> QED BY <1>7, <1>8 DEF Consume

\* They are one chunk longer, and otherwise what they were.
LEMMA LongerFields ==
  ASSUME Types, NEW c \in Turn, NEW open \in BOOLEAN, NEW back \in Seq(Nat)
  PROVE  LET e == Longer(c, open, back)
         IN /\ e \in Local /\ e.gone = em[c].gone /\ e.counting = em[c].counting
            /\ e.chunks = Append(em[c].chunks, Len(em[c].chunks) + 1)
            /\ e.unheard = IF peer[c] = "gone" /\ ~Streams(c) THEN em[c].unheard + 1
                          ELSE em[c].unheard
  <1> DEFINE n == Len(em[c].chunks) + 1
             u == IF peer[c] = "gone" /\ ~Streams(c) THEN em[c].unheard + 1
                  ELSE em[c].unheard
             w == Append(em[c].chunks, n)
             e1 == [em[c] EXCEPT !.chunks = w]
             e2 == [e1 EXCEPT !.unheard = u]
             e3 == [e2 EXCEPT !.open = open]
             e4 == [e3 EXCEPT !.held = back]
  <1>1. em[c] \in Local /\ n \in Nat /\ u \in Nat /\ w \in Seq(Nat) BY DEF Types, Local
  <1>2. Longer(c, open, back) = e4 BY <1>1 DEF Longer, Local
  <1>3. e4 \in Local /\ e4.gone = em[c].gone /\ e4.counting = em[c].counting
        /\ e4.chunks = w /\ e4.unheard = u
    <2> HIDE DEF u, w
    <2>1. e2 \in Local /\ e2.gone = em[c].gone /\ e2.counting = em[c].counting
          /\ e2.chunks = w /\ e2.unheard = u
      BY <1>1 DEF Local
    <2> HIDE DEF e2
    <2> QED BY <2>1 DEF Local
  <1> HIDE DEF e4
  <1> QED BY <1>2, <1>3

\* A turn asked to stop.
Stopped(r, named) == [r EXCEPT !.aborted = TRUE, !.named = @ \/ named]

\* An abort leaves a turn where it was.
LEMMA AbortType ==
  ASSUME NEW r \in TurnType, NEW named \in BOOLEAN
  PROVE  LET s == Stopped(r, named)
         IN s \in TurnType /\ s.aborted /\ s.at = r.at /\ s.how = r.how /\ s.told = r.told
            /\ (s.named <=> r.named \/ named)
  <1> DEFINE n == r.named \/ named
             yes == TRUE
             q == [r EXCEPT !.aborted = yes]
             s == [q EXCEPT !.named = n]
  <1>1. r.named \in BOOLEAN /\ n \in BOOLEAN /\ yes \in BOOLEAN BY DEF TurnType
  <1>2. s \in TurnType /\ s.aborted = yes /\ s.at = r.at /\ s.how = r.how /\ s.told = r.told
        /\ s.named = n
    <2> HIDE DEF n, yes
    <2>1. q \in TurnType /\ q.aborted = yes /\ q.at = r.at /\ q.how = r.how /\ q.told = r.told
          /\ q.named = r.named
      BY <1>1 DEF TurnType
    <2> HIDE DEF q
    <2> QED BY <1>1, <2>1 DEF TurnType
  <1>3. s = Stopped(r, named) BY DEF Stopped
  <1>4. s.aborted BY <1>2
  <1>5. s.named <=> n BY <1>1, <1>2
  <1> HIDE DEF s
  <1> QED BY <1>2, <1>3, <1>4, <1>5

\* So does a mark.
LEMMA MarkType ==
  ASSUME NEW r \in TurnType
  PROVE  LET s == [r EXCEPT !.named = TRUE]
         IN s \in TurnType /\ s.named /\ s.at = r.at /\ s.how = r.how /\ s.told = r.told
            /\ s.aborted = r.aborted
  <1> DEFINE yes == TRUE
             s == [r EXCEPT !.named = yes]
  <1>1. yes \in BOOLEAN OBVIOUS
  <1>2. s \in TurnType /\ s.named = yes /\ s.at = r.at /\ s.how = r.how /\ s.told = r.told
        /\ s.aborted = r.aborted
    <2> HIDE DEF yes
    <2> QED BY <1>1 DEF TurnType
  <1>3. s = [r EXCEPT !.named = TRUE] OBVIOUS
  <1>4. s.named BY <1>2
  <1> HIDE DEF s
  <1> QED BY <1>2, <1>3, <1>4

\* The turn of r after an abort that says nothing of why.
Cut(r, s) ==
  /\ s \in TurnType /\ s.aborted /\ s.at = r.at /\ s.how = r.how /\ s.told = r.told
  /\ s.named <=> r.named

\* What losing the client does to its turn.
LEMMA LosesEffect ==
  ASSUME Types, NEW c \in Turn, Loses(c)
  PROVE  /\ \/ turn' = turn /\ turn[c].at \notin Live
            \/ turn[c].at \in Live
                 /\ \E s \in TurnType : Cut(turn[c], s) /\ turn' = [turn EXCEPT ![c] = s]
         /\ holder' = holder /\ stopping' = stopping
  <1>1. CASE turn[c].at \notin Live BY <1>1 DEF Loses, service
  <1>2. CASE turn[c].at \in Live
    <2> DEFINE s == Stopped(turn[c], FALSE)
    <2>1. turn[c] \in TurnType BY DEF Types
    <2>2. Cut(turn[c], s) BY <2>1, AbortType DEF Cut
    <2>3. turn' = [turn EXCEPT ![c] = s] /\ holder' = holder /\ stopping' = stopping
      BY <1>2 DEF Loses, Abort, Becomes, Stopped
    <2> HIDE DEF s
    <2> QED BY <1>2, <2>2, <2>3 DEF Cut
  <1> QED BY <1>1, <1>2

\* What a write or a probe does to the locals and to the turn.
LEMMA HeardEffect ==
  ASSUME Types, NEW c \in Turn, NEW e \in Local, Heard(c, e)
  PROVE  /\ holder' = holder /\ stopping' = stopping
         /\ \/ em' = [em EXCEPT ![c] = e] /\ turn' = turn
            \/ /\ peer[c] = "gone"
               /\ \E g \in Local : /\ em' = [em EXCEPT ![c] = g]
                                   /\ g.gone /\ g.chunks = e.chunks /\ g.unheard = e.unheard
                                   /\ g.counting = e.counting
               /\ \/ turn' = turn /\ turn[c].at \notin Live
                  \/ turn[c].at \in Live
                       /\ \E s \in TurnType : Cut(turn[c], s) /\ turn' = [turn EXCEPT ![c] = s]
  <1>1. CASE With(c, e) /\ UNCHANGED service BY <1>1 DEF With, service
  <1>2. CASE peer[c] = "gone" /\ With(c, [e EXCEPT !.gone = TRUE]) /\ Loses(c)
    <2> DEFINE yes == TRUE
               g == [e EXCEPT !.gone = yes]
    <2>1. yes \in BOOLEAN OBVIOUS
    <2>2. g \in Local /\ g.gone = yes /\ g.chunks = e.chunks /\ g.unheard = e.unheard
          /\ g.counting = e.counting
      <3> HIDE DEF yes
      <3> QED BY <2>1 DEF Local
    <2>3. g.gone BY <2>2
    <2>4. em' = [em EXCEPT ![c] = g] BY <1>2 DEF With
    <2> HIDE DEF g
    <2> QED BY <1>2, <2>2, <2>3, <2>4, LosesEffect
  <1> QED BY <1>1, <1>2 DEF Heard

\* Flushing the gate leaves the rest alone; fresh locals are locals.
LEMMA FlushedFields ==
  /\ Fresh \in Local
  /\ Types => \A c \in Turn : LET e == Flushed(c) IN
       /\ e \in Local /\ e.gone = em[c].gone /\ e.chunks = em[c].chunks
       /\ e.unheard = em[c].unheard /\ e.counting = em[c].counting
  <1>1. <<>> \in Seq(Nat) OBVIOUS
  <1>2. Fresh \in Local BY <1>1 DEF Fresh, Local
  <1>3. ASSUME Types, NEW c \in Turn
        PROVE  LET e == Flushed(c) IN
                 /\ e \in Local /\ e.gone = em[c].gone /\ e.chunks = em[c].chunks
                 /\ e.unheard = em[c].unheard /\ e.counting = em[c].counting
    <2>1. em[c] \in Local BY <1>3 DEF Types
    <2> QED BY <1>1, <2>1 DEF Flushed, Local
  <1> QED BY <1>2, <1>3

\* One client's turn or locals, replaced by others of their type, and the
\* holder by another: the types are kept.
LEMMA TypesKept ==
  ASSUME Types, NEW c \in Turn, NEW s \in TurnType, NEW e \in Local, NEW p \in Place,
         turn' = [turn EXCEPT ![c] = s], em' = [em EXCEPT ![c] = e],
         pc' = [pc EXCEPT ![c] = p],
         holder' \in Turn \cup {Nobody, Counter}, stopping' \in BOOLEAN,
         req' = req, peer' \in [Turn -> {"here", "gone"}], said' \in [Turn -> 0..Cap]
  PROVE  Types'
  BY DEF Types

\* What a handler's step may touch: its place, its locals, its turn.
LEMMA HandlerMoves ==
  ASSUME Types, NEW c \in Turn, Handle(c)
  PROVE  /\ \E p \in Place : pc' = [pc EXCEPT ![c] = p]
         /\ \E e \in Local : em' = [em EXCEPT ![c] = e] /\ (e.counting => em[c].counting)
         /\ \E s \in TurnType : turn' = [turn EXCEPT ![c] = s]
         /\ UNCHANGED <<holder, stopping, req, peer, said>>
  <1>1. /\ pc = [pc EXCEPT ![c] = pc[c]] /\ pc[c] \in Place
        /\ em = [em EXCEPT ![c] = em[c]] /\ em[c] \in Local
        /\ turn = [turn EXCEPT ![c] = turn[c]] /\ turn[c] \in TurnType
    BY DEF Types
  <1>2. ASSUME NEW e \in Local, e.counting => em[c].counting, Heard(c, e)
        PROVE  /\ \E g \in Local : em' = [em EXCEPT ![c] = g] /\ (g.counting => em[c].counting)
               /\ \E s \in TurnType : turn' = [turn EXCEPT ![c] = s]
               /\ UNCHANGED <<holder, stopping>>
    <2>1. turn' = turn => turn' = [turn EXCEPT ![c] = turn[c]] BY <1>1
    <2> QED BY <1>1, <1>2, <2>1, HeardEffect
  <1>3. CASE BadRequest(c) \/ HealthGate(c) \/ Enter(c) \/ Unfit(c) \/ Fault(c)
    BY <1>1, <1>3 DEF BadRequest, HealthGate, Enter, Unfit, Fault, To, Place, service
  <1>4. CASE Headers(c) \/ Start(c)
    <2>1. Heard(c, em[c]) BY <1>4, WritingIsHeard DEF Headers, Start
    <2> QED BY <1>1, <1>2, <1>4, <2>1 DEF Headers, Start, To, Place
  <1>5. CASE Generate(c)
    <2>1. Queued \in TurnType BY DEF Queued, Unasked, TurnType
    <2> QED BY <1>1, <1>5, <2>1 DEF Generate, To, Place, Ask, Becomes, service
  <1>6. CASE Consume(c)
    <2>1. PICK open \in BOOLEAN, back \in Seq(Nat) : Heard(c, Longer(c, open, back))
      BY <1>6, ConsumeIsHeard
    <2>2. /\ Longer(c, open, back) \in Local
          /\ Longer(c, open, back).counting = em[c].counting
      BY LongerFields
    <2> QED BY <1>1, <1>2, <1>6, <2>1, <2>2 DEF Consume
  <1>7. CASE Break(c)
    <2>1. /\ Loses(c) /\ UNCHANGED <<req, peer, em, said>>
          /\ \E p \in Place : pc' = [pc EXCEPT ![c] = p]
      BY <1>7 DEF Break, To, Place
    <2>2. \E s \in TurnType : turn' = [turn EXCEPT ![c] = s]
      <3>1. turn' = turn => turn' = [turn EXCEPT ![c] = turn[c]] BY <1>1
      <3> QED BY <1>1, <2>1, <3>1, LosesEffect
    <2> QED BY <1>1, <2>1, <2>2, LosesEffect
  <1>8. CASE Fail(c) \/ Finish(c)
    <2>1. Flushed(c) \in Local /\ Flushed(c).counting = em[c].counting BY FlushedFields
    <2>2. Heard(c, Flushed(c)) \/ UNCHANGED <<em, service>>
      BY <1>8, WritingIsHeard DEF Fail, Finish
    <2>3. UNCHANGED <<req, peer, said>> /\ \E p \in Place : pc' = [pc EXCEPT ![c] = p]
      BY <1>8 DEF Fail, Finish, To, Place
    <2> QED BY <1>1, <1>2, <2>1, <2>2, <2>3 DEF service
  <1>9. CASE Bill(c)
    <2>1. Heard(c, em[c]) \/ UNCHANGED <<em, service>> BY <1>9, WritingIsHeard DEF Bill
    <2> QED BY <1>1, <1>2, <1>9, <2>1 DEF Bill, To, Place, service
  <1>10. CASE Release(c)
    <2>1. Fresh \in Local /\ ~Fresh.counting BY FlushedFields DEF Fresh
    <2> QED BY <1>1, <1>10, <2>1 DEF Release, To, With, Place, service
  <1> QED BY <1>3, <1>4, <1>5, <1>6, <1>7, <1>8, <1>9, <1>10 DEF Handle

\* What a step of the engine may touch: one turn, and who holds it.
LEMMA EngineMoves ==
  ASSUME Types, NEW c \in Turn,
         Take(c) \/ Give(c) \/ Refuse(c) \/ Tell(c) \/ (\E named \in BOOLEAN : Abort(c, named))
  PROVE  /\ \E s \in TurnType : turn' = [turn EXCEPT ![c] = s]
         /\ holder' \in {holder, c, Nobody} /\ stopping' = stopping
  <1>1. turn[c] \in TurnType BY DEF Types
  <1>2. CASE Take(c) BY <1>1, <1>2 DEF Take, Becomes, TurnType
  <1>3. CASE Give(c) \/ Refuse(c)
    BY <1>1, <1>3 DEF Give, Refuse, Ways, Becomes, TurnType
  <1>4. CASE Tell(c)
    <2>1. PICK told \in Tellable(c) : turn' = [turn EXCEPT ![c] = [turn[c] EXCEPT !.told = told]]
      BY <1>4 DEF Tell, Becomes
    <2>2. told \in {"error", "done", "discarded", "cut"} BY <1>1, <2>1 DEF Tellable, TurnType
    <2>3. [turn[c] EXCEPT !.told = told] \in TurnType BY <1>1, <2>2 DEF TurnType
    <2> QED BY <1>4, <2>1, <2>3 DEF Tell
  <1>5. CASE \E named \in BOOLEAN : Abort(c, named)
    <2>1. PICK named \in BOOLEAN : Abort(c, named) BY <1>5
    <2>2. Stopped(turn[c], named) \in TurnType BY <1>1, AbortType
    <2> QED BY <2>1, <2>2 DEF Abort, Becomes, Stopped
  <1> QED BY <1>2, <1>3, <1>4, <1>5

\* A step of anything else than a handler and the engine, and of the client.
LEMMA TypesStep == Types /\ [Next]_vars => Types'
  <1> SUFFICES ASSUME Types, [Next]_vars PROVE Types'
    OBVIOUS
  <1>0. ASSUME NEW c \in Turn
        PROVE  /\ pc = [pc EXCEPT ![c] = pc[c]] /\ pc[c] \in Place
               /\ em = [em EXCEPT ![c] = em[c]] /\ em[c] \in Local
               /\ turn = [turn EXCEPT ![c] = turn[c]] /\ turn[c] \in TurnType
               /\ holder \in Turn \cup {Nobody, Counter} /\ stopping \in BOOLEAN
               /\ peer \in [Turn -> {"here", "gone"}] /\ said \in [Turn -> 0..Cap]
    BY DEF Types
  <1>1. ASSUME NEW c \in Turn, Handle(c) PROVE Types'
    <2>1. PICK p \in Place : pc' = [pc EXCEPT ![c] = p] BY <1>1, HandlerMoves
    <2>2. PICK e \in Local : em' = [em EXCEPT ![c] = e] BY <1>1, HandlerMoves
    <2>3. PICK s \in TurnType : turn' = [turn EXCEPT ![c] = s] BY <1>1, HandlerMoves
    <2>4. UNCHANGED <<holder, stopping, req, peer, said>> BY <1>1, HandlerMoves
    <2> QED BY <1>0, <2>1, <2>2, <2>3, <2>4, TypesKept
  <1>2. ASSUME NEW c \in Turn, CountStarts(c) \/ CountEnds(c) PROVE Types'
    <2>1. PICK e \in Local : em' = [em EXCEPT ![c] = e]
      <3>1. \A b \in BOOLEAN : [em[c] EXCEPT !.counting = b] \in Local BY <1>0 DEF Local
      <3> QED BY <1>2, <3>1 DEF CountStarts, CountEnds, With
    <2>2. holder' \in {Nobody, Counter} /\ UNCHANGED <<turn, stopping, req, peer, pc, said>>
      BY <1>2 DEF CountStarts, CountEnds, Borrow, Return
    <2> QED BY <1>0, <2>1, <2>2, TypesKept
  <1>3. ASSUME NEW c \in Turn, Say(c) PROVE Types'
    <2>1. said' \in [Turn -> 0..Cap] BY <1>3, ServerAssumption DEF Say, Types
    <2> QED BY <1>3, <2>1 DEF Say, Types, service
  <1>4. ASSUME NEW c \in Turn,
               Engine(c) \/ Bark(c) \/ (Abort(c, turn[c].named) /\ UNCHANGED handlers)
        PROVE  Types'
    <2>1. /\ Take(c) \/ Give(c) \/ Refuse(c) \/ Tell(c) \/ \E named \in BOOLEAN : Abort(c, named)
          /\ UNCHANGED handlers
      BY <1>4, <1>0 DEF Engine, Bark, TurnType
    <2>2. PICK s \in TurnType : turn' = [turn EXCEPT ![c] = s] BY <2>1, EngineMoves
    <2>3. holder' \in Turn \cup {Nobody, Counter} /\ stopping' = stopping
      BY <1>0, <2>1, EngineMoves
    <2>4. UNCHANGED <<pc, em, req, peer, said>> BY <2>1 DEF handlers
    <2>5. turn' \in [Turn -> TurnType] BY <2>2 DEF Types
    <2> QED BY <2>3, <2>4, <2>5 DEF Types
  <1>5. CASE Stop /\ UNCHANGED handlers
    <2>1. turn' \in [Turn -> TurnType]
      <3>1. CASE UNCHANGED turn BY <3>1 DEF Types
      <3>2. CASE \E t \in Turn : Becomes(t, [turn[t] EXCEPT !.named = TRUE])
        <4>1. PICK t \in Turn : turn' = [turn EXCEPT ![t] = [turn[t] EXCEPT !.named = TRUE]]
          BY <3>2 DEF Becomes
        <4>2. [turn[t] EXCEPT !.named = TRUE] \in TurnType BY <1>0, MarkType
        <4> QED BY <4>1, <4>2 DEF Types
      <3> QED BY <1>5, <3>1, <3>2 DEF Stop
    <2> QED BY <1>5, <2>1 DEF Stop, handlers, Types
  <1>6. ASSUME NEW c \in Turn, Depart(c) PROVE Types'
    BY <1>6 DEF Depart, Types, service
  <1>7. CASE UNCHANGED vars BY <1>7 DEF vars, handlers, service, Types
  <1>8. CASE Next
    BY <1>1, <1>2, <1>3, <1>4, <1>5, <1>6, <1>7, <1>8 DEF Next, Shutdown, Rest
  <1> QED BY <1>7, <1>8

\* The types hold before anybody has asked.
LEMMA TypesInit == Init => Types
  <1> SUFFICES ASSUME Init PROVE Types
    OBVIOUS
  <1>1. Unasked \in TurnType BY DEF Unasked, TurnType
  <1>2. turn \in [Turn -> TurnType] BY <1>1 DEF Init
  <1>3. em \in [Turn -> Local] BY FlushedFields DEF Init
  <1>4. said \in [Turn -> 0..Cap] BY ServerAssumption DEF Init
  <1> QED BY <1>2, <1>3, <1>4 DEF Init, TurnsInit, Types, Place

-----------------------------------------------------------------------------
(***************************************************************************)
(* Course: before its handler asks for it a turn is idle; it waits only    *)
(* while its handler listens to it, and says nothing till it runs; it is   *)
(* told about when it has ended; and a handler that goes leaves a turn     *)
(* that is over, or asked to stop, and never one that still waits for the  *)
(* engine unasked.                                                         *)
(***************************************************************************)
Early == {"door", "checked", "sizing", "opening", "started"}

CourseOf(c) ==
  /\ pc[c] \in Early => turn[c].at = "idle"
  /\ turn[c].at \in {"idle", "queued"} => said[c] = 0
  /\ turn[c].at = "queued" => pc[c] = "generating" /\ ~em[c].gone
  /\ turn[c].told # "none" => turn[c].at = "ended" /\ turn[c].told # "discarded"
  /\ pc[c] = "billing" => turn[c].at = "ended" /\ turn[c].told = "done"
  /\ pc[c] \in {"leaving", "served"} /\ turn[c].at \in Live => turn[c].aborted
  /\ Len(em[c].chunks) <= said[c]
Course == \A c \in Turn : CourseOf(c)

\* A handler breaks down with its turn not yet asked for, or ended.
LEMMA FaultMoves ==
  ASSUME Types, Course, NEW c \in Turn, Fault(c)
  PROVE  /\ pc'[c] = "leaving" /\ turn[c].at \notin Live
         /\ UNCHANGED <<service, req, peer, em, said, permits>>
         /\ pc[c] \in {"sizing", "opening", "generating", "billing"}
         /\ \E a \in Failure(c) : Answers(c, a)
  <1>1. pc'[c] = "leaving" BY DEF Fault, To, Types
  <1>2. CourseOf(c) BY DEF Course
  <1>3. \/ pc[c] \in {"sizing", "opening", "billing"}
        \/ pc[c] = "generating" /\ turn[c].told # "none"
    BY DEF Fault, Breaks, Ended
  <1>4. turn[c].at \notin Live BY <1>2, <1>3 DEF CourseOf, Early, Live
  <1> QED BY <1>1, <1>3, <1>4 DEF Fault

\* A handler's step, seen at its own client.
LEMMA CourseOfHandler ==
  ASSUME Types, Course, NEW c \in Turn, Handle(c)
  PROVE  CourseOf(c)'
  <1>0. /\ CourseOf(c) /\ turn[c] \in TurnType /\ em[c] \in Local /\ pc[c] \in Place
        /\ said[c] \in Nat /\ said' = said
    BY HandlerMoves DEF Course, Types
  <1>1. ASSUME NEW p \in Place, To(c, p) PROVE pc'[c] = p
    BY <1>1 DEF To, Types
  <1>2. ASSUME NEW e \in Local, Heard(c, e)
        PROVE  /\ em'[c].chunks = e.chunks
               /\ (em'[c].gone = e.gone \/ (turn'[c].at \in Live => turn'[c].aborted))
               /\ em'[c].gone = e.gone \/ em'[c].gone
               /\ turn'[c].at = turn[c].at /\ turn'[c].told = turn[c].told
               /\ turn[c].aborted => turn'[c].aborted
    <2>1. ASSUME NEW s \in TurnType, turn' = [turn EXCEPT ![c] = s] PROVE turn'[c] = s
      BY <2>1 DEF Types
    <2>2. ASSUME NEW g \in Local, em' = [em EXCEPT ![c] = g] PROVE em'[c] = g
      BY <2>2 DEF Types
    <2> QED BY <1>2, <2>1, <2>2, HeardEffect DEF Cut
  <1>3. CASE BadRequest(c) \/ HealthGate(c) \/ Enter(c)
    <2>1. pc[c] \in Early /\ pc'[c] \in Early \cup {"served"} /\ turn' = turn /\ em' = em
      BY <1>3, <1>1 DEF BadRequest, HealthGate, Enter, Early, Place, service
    <2> QED BY <1>0, <2>1 DEF CourseOf, Early, Live
  <1>4. CASE Unfit(c) \/ Fault(c)
    <2>1. CASE Unfit(c)
      <3>1. pc[c] \in Early /\ pc'[c] = "leaving" /\ turn' = turn /\ em' = em
        BY <2>1, <1>1 DEF Unfit, Early, Place, service
      <3> QED BY <1>0, <3>1 DEF CourseOf, Early, Live
    <2>2. CASE Fault(c)
      <3>1. /\ pc'[c] = "leaving" /\ turn' = turn /\ em' = em /\ turn[c].at \notin Live
        BY <2>2, FaultMoves DEF service
      <3> QED BY <1>0, <3>1 DEF CourseOf, Early, Live
    <2> QED BY <1>4, <2>1, <2>2
  <1>5. CASE Headers(c) \/ Start(c)
    <2>1. Heard(c, em[c]) BY <1>5, WritingIsHeard DEF Headers, Start
    <2>2. pc[c] \in Early /\ pc'[c] \in Early
      BY <1>5, <1>1 DEF Headers, Start, Early, Place
    <2> QED BY <1>0, <1>2, <2>1, <2>2 DEF CourseOf, Early, Live
  <1>6. CASE Generate(c)
    <2>1. CASE em[c].gone
      <3>1. pc[c] = "started" /\ pc'[c] = "leaving" /\ turn' = turn /\ em' = em
        BY <1>6, <2>1, <1>1 DEF Generate, GivesUp, Place, service
      <3> QED BY <1>0, <3>1 DEF CourseOf, Early, Live
    <2>2. CASE ~em[c].gone
      <3>1. pc[c] = "started" /\ pc'[c] = "generating" /\ turn'[c] = Queued /\ em' = em
        BY <1>6, <2>2, <1>1 DEF Generate, GivesUp, Place, Ask, Becomes, Types
      <3>2. Queued.at = "queued" /\ Queued.told = "none" BY DEF Queued, Unasked
      <3> QED BY <1>0, <2>2, <3>1, <3>2 DEF CourseOf, Early, Live
    <2> QED BY <2>1, <2>2
  <1>7. CASE Consume(c)
    <2>1. PICK open \in BOOLEAN, back \in Seq(Nat) : Heard(c, Longer(c, open, back))
      BY <1>7, ConsumeIsHeard
    <2>2. /\ pc[c] = "generating" /\ ~em[c].gone /\ Len(em[c].chunks) < said[c] /\ pc' = pc
      BY <1>7, ConsumeIsHeard
    <2>3. /\ Longer(c, open, back) \in Local
          /\ Longer(c, open, back).chunks = Append(em[c].chunks, Len(em[c].chunks) + 1)
      BY LongerFields
    <2>4. /\ Len(em[c].chunks) \in Nat
          /\ Len(Append(em[c].chunks, Len(em[c].chunks) + 1)) = Len(em[c].chunks) + 1
      BY <1>0 DEF Local
    <2>5. said[c] # 0 /\ Len(em'[c].chunks) <= said[c]
      BY <1>0, <1>2, <2>1, <2>2, <2>3, <2>4
    <2>6. turn'[c].at = turn[c].at /\ turn'[c].told = turn[c].told BY <1>2, <2>1, <2>3
    <2> QED BY <1>0, <2>2, <2>5, <2>6 DEF CourseOf, Early, Live
  <1>8. CASE Break(c)
    <2>1. pc[c] = "generating" /\ em[c].gone /\ pc'[c] = "leaving" /\ em' = em /\ Loses(c)
      BY <1>8, <1>1 DEF Break, Place
    <2>2. /\ turn'[c].at = turn[c].at /\ turn'[c].told = turn[c].told
          /\ turn'[c].at \in Live => turn'[c].aborted
      <3>1. ASSUME NEW s \in TurnType, turn' = [turn EXCEPT ![c] = s] PROVE turn'[c] = s
        BY <3>1 DEF Types
      <3> QED BY <2>1, <3>1, LosesEffect DEF Cut
    <2> QED BY <1>0, <2>1, <2>2 DEF CourseOf, Early, Live
  <1>9. CASE Fail(c) \/ Finish(c)
    <2>1. Heard(c, Flushed(c)) \/ (em' = em /\ turn' = turn)
      BY <1>9, WritingIsHeard DEF Fail, Finish, service
    <2>2. /\ em'[c].chunks = em[c].chunks
          /\ turn'[c].at = turn[c].at /\ turn'[c].told = turn[c].told
      BY <1>2, <2>1, FlushedFields
    <2>3. pc[c] = "generating" /\ turn[c].told # "none" /\ pc'[c] \in {"leaving", "billing"}
      BY <1>9, <1>1 DEF Fail, Finish, Ended, Place
    <2>4. pc'[c] = "billing" => turn[c].told = "done"
      <3>1. Fail(c) => pc'[c] = "leaving" BY <1>1 DEF Fail, Place
      <3>2. Finish(c) => ~Bad(c) /\ turn[c].told # "discarded" BY <1>0, <2>3 DEF Finish, CourseOf
      <3> QED BY <1>0, <1>9, <2>3, <3>1, <3>2 DEF Bad, TurnType
    <2> QED BY <1>0, <2>2, <2>3, <2>4 DEF CourseOf, Early, Live
  <1>10. CASE Bill(c)
    <2>1. Heard(c, em[c]) \/ (em' = em /\ turn' = turn)
      BY <1>10, WritingIsHeard DEF Bill, service
    <2>2. pc[c] = "billing" /\ pc'[c] = "leaving" BY <1>10, <1>1 DEF Bill, Place
    <2> QED BY <1>0, <1>2, <2>1, <2>2 DEF CourseOf, Early, Live
  <1>11. CASE Release(c)
    <2>1. pc[c] = "leaving" /\ pc'[c] = "served" /\ turn' = turn /\ em'[c] = Fresh
      BY <1>11, <1>1 DEF Release, Place, With, Types, service
    <2>2. Len(Fresh.chunks) = 0 BY DEF Fresh
    <2> QED BY <1>0, <2>1, <2>2 DEF CourseOf, Early, Live
  <1> QED BY <1>3, <1>4, <1>5, <1>6, <1>7, <1>8, <1>9, <1>10, <1>11 DEF Handle

\* Whoever a step is not about keeps his course.
LEMMA CourseElsewhere ==
  ASSUME Types, NEW c \in Turn, NEW d \in Turn, d # c, CourseOf(d),
         NEW s, NEW e, NEW p, NEW n,
         turn' = [turn EXCEPT ![c] = s], em' = [em EXCEPT ![c] = e],
         pc' = [pc EXCEPT ![c] = p], said' = [said EXCEPT ![c] = n]
  PROVE  CourseOf(d)'
  <1>1. turn'[d] = turn[d] /\ em'[d] = em[d] /\ pc'[d] = pc[d] /\ said'[d] = said[d]
    BY DEF Types
  <1> QED BY <1>1 DEF CourseOf

\* The engine's step, seen at its turn: it starts only what waits, and ends
\* what runs.
LEMMA CourseOfEngine ==
  ASSUME Types, Course, NEW c \in Turn,
         Engine(c) \/ Bark(c) \/ (Abort(c, turn[c].named) /\ UNCHANGED handlers)
  PROVE  CourseOf(c)'
  <1>0. /\ CourseOf(c) /\ turn[c] \in TurnType
        /\ UNCHANGED <<pc, em, said>> /\ (Engine(c) => pc[c] \notin Early)
    <2>1. CourseOf(c) /\ turn[c] \in TurnType /\ UNCHANGED <<pc, em, said>>
      BY DEF Course, Types, Engine, Bark, handlers
    <2>2. Engine(c) => turn[c].at # "idle"
      BY DEF Engine, Take, Give, Refuse, Tell
    <2> QED BY <2>1, <2>2 DEF CourseOf
  <1>1. CASE Engine(c) /\ Take(c)
    <2>1. turn'[c] = [turn[c] EXCEPT !.at = "running"] /\ turn[c].at = "queued"
      BY <1>1 DEF Take, Becomes, Types
    <2>2. turn'[c].at = "running" /\ turn'[c].told = turn[c].told
          /\ turn'[c].aborted = turn[c].aborted
      BY <1>0, <2>1 DEF TurnType
    <2> QED BY <1>0, <2>1, <2>2 DEF CourseOf, Early, Live
  <1>2. CASE Engine(c) /\ (Give(c) \/ Refuse(c))
    <2>1. turn'[c].at = "ended" /\ turn'[c].told \in {turn[c].told, "closing"}
      <3>1. CASE Give(c)
        <4>1. PICK how : turn'[c] = [turn[c] EXCEPT !.at = "ended", !.how = how]
          BY <3>1 DEF Give, Becomes, Types
        <4> QED BY <1>0, <4>1 DEF TurnType
      <3>2. CASE Refuse(c)
        <4>1. turn'[c] = [turn[c] EXCEPT !.at = "ended", !.how = "refused", !.told = "closing"]
          BY <3>2 DEF Refuse, Becomes, Types
        <4> QED BY <1>0, <4>1 DEF TurnType
      <3> QED BY <1>2, <3>1, <3>2
    <2>2. turn[c].at = "running" BY <1>2 DEF Give, Refuse
    <2> QED BY <1>0, <2>1, <2>2 DEF CourseOf, Early, Live
  <1>3. CASE Engine(c) /\ Tell(c)
    <2>1. PICK told : turn'[c] = [turn[c] EXCEPT !.told = told]
      BY <1>3 DEF Tell, Becomes, Types
    <2>2. turn[c].at = "ended" /\ turn[c].told = "none" /\ turn'[c].told # "discarded"
      BY <1>3 DEF Engine, Tell, Take, Give, Refuse
    <2>3. turn'[c].at = "ended" BY <1>0, <2>1, <2>2 DEF TurnType
    <2> QED BY <1>0, <2>2, <2>3 DEF CourseOf, Early, Live
  <1>4. CASE \E named \in BOOLEAN : Abort(c, named)
    <2>1. PICK named \in BOOLEAN : Abort(c, named) BY <1>4
    <2>2. turn'[c] = Stopped(turn[c], named) BY <2>1 DEF Abort, Becomes, Stopped, Types
    <2>3. turn'[c].at = turn[c].at /\ turn'[c].told = turn[c].told /\ turn'[c].aborted
      BY <1>0, <2>2, AbortType
    <2>4. pc'[c] = pc[c] /\ em'[c] = em[c] /\ said'[c] = said[c] BY <1>0
    <2> QED BY <1>0, <2>3, <2>4 DEF CourseOf
  <1> QED BY <1>0, <1>1, <1>2, <1>3, <1>4 DEF Engine, Bark, TurnType

\* Whoever moves, each handler stays on its course.
LEMMA CourseStep == Types /\ Course /\ [Next]_vars => Course'
  <1> SUFFICES ASSUME Types, Course, [Next]_vars, NEW d \in Turn PROVE CourseOf(d)'
    BY DEF Course
  <1>0. /\ CourseOf(d) /\ turn[d] \in TurnType /\ said[d] \in Nat
        /\ Len(em[d].chunks) \in Nat
        /\ \A c \in Turn : /\ turn = [turn EXCEPT ![c] = turn[c]]
                           /\ em = [em EXCEPT ![c] = em[c]] /\ em[c] \in Local
                           /\ pc = [pc EXCEPT ![c] = pc[c]]
                           /\ said = [said EXCEPT ![c] = said[c]]
                           /\ turn[c] \in TurnType
    BY DEF Course, Types, Local
  <1>1. ASSUME NEW c \in Turn, Handle(c) PROVE CourseOf(d)'
    <2>1. PICK p \in Place : pc' = [pc EXCEPT ![c] = p] BY <1>1, HandlerMoves
    <2>2. PICK e \in Local : em' = [em EXCEPT ![c] = e] BY <1>1, HandlerMoves
    <2>3. PICK s \in TurnType : turn' = [turn EXCEPT ![c] = s] BY <1>1, HandlerMoves
    <2>4. said' = [said EXCEPT ![c] = said[c]] BY <1>0, <1>1, HandlerMoves
    <2>5. CASE d # c BY <1>0, <2>1, <2>2, <2>3, <2>4, <2>5, CourseElsewhere
    <2> QED BY <1>1, <2>5, CourseOfHandler
  <1>2. ASSUME NEW c \in Turn, CountStarts(c) \/ CountEnds(c) PROVE CourseOf(d)'
    <2>1. PICK b \in BOOLEAN : em' = [em EXCEPT ![c] = [em[c] EXCEPT !.counting = b]]
      BY <1>2 DEF CountStarts, CountEnds, With
    <2>2. UNCHANGED <<turn, pc, said>>
      BY <1>2 DEF CountStarts, CountEnds, Borrow, Return
    <2>3. em'[d].chunks = em[d].chunks /\ em'[d].gone = em[d].gone
      BY <1>0, <2>1 DEF Local, Types
    <2> QED BY <1>0, <2>2, <2>3 DEF CourseOf
  <1>3. ASSUME NEW c \in Turn, Say(c) PROVE CourseOf(d)'
    <2>1. said'[d] \in {said[d], said[d] + 1} /\ (turn[d].at # "running" => said'[d] = said[d])
      BY <1>3 DEF Say, Types
    <2>2. UNCHANGED <<turn, pc, em>> BY <1>3 DEF Say, service
    <2> QED BY <1>0, <2>1, <2>2 DEF CourseOf
  <1>4. ASSUME NEW c \in Turn,
               Engine(c) \/ Bark(c) \/ (Abort(c, turn[c].named) /\ UNCHANGED handlers)
        PROVE  CourseOf(d)'
    <2>1. /\ Take(c) \/ Give(c) \/ Refuse(c) \/ Tell(c) \/ \E named \in BOOLEAN : Abort(c, named)
          /\ UNCHANGED <<pc, em, said>>
      BY <1>4, <1>0 DEF Engine, Bark, TurnType, handlers
    <2>2. PICK s \in TurnType : turn' = [turn EXCEPT ![c] = s] BY <2>1, EngineMoves
    <2>3. /\ em' = [em EXCEPT ![c] = em[c]] /\ pc' = [pc EXCEPT ![c] = pc[c]]
          /\ said' = [said EXCEPT ![c] = said[c]]
      BY <1>0, <2>1
    <2>4. CASE d # c BY <1>0, <2>2, <2>3, <2>4, CourseElsewhere
    <2> QED BY <1>4, <2>4, CourseOfEngine
  <1>5. CASE Stop /\ UNCHANGED handlers
    <2>1. /\ turn'[d].at = turn[d].at /\ turn'[d].told = turn[d].told
          /\ turn'[d].aborted = turn[d].aborted
      <3>1. CASE \E t \in Turn : Becomes(t, [turn[t] EXCEPT !.named = TRUE])
        <4>1. PICK t \in Turn : turn' = [turn EXCEPT ![t] = [turn[t] EXCEPT !.named = TRUE]]
          BY <3>1 DEF Becomes
        <4>2. turn'[d] = IF d = t THEN [turn[d] EXCEPT !.named = TRUE] ELSE turn[d]
          BY <4>1 DEF Types
        <4> QED BY <1>0, <4>2, MarkType
      <3> QED BY <1>5, <3>1 DEF Stop
    <2>2. UNCHANGED <<pc, em, said>> BY <1>5 DEF handlers
    <2> QED BY <1>0, <2>1, <2>2 DEF CourseOf
  <1>6. ASSUME NEW c \in Turn, Depart(c) PROVE CourseOf(d)'
    BY <1>0, <1>6 DEF Depart, CourseOf, service
  <1>7. CASE UNCHANGED vars BY <1>0, <1>7 DEF vars, handlers, service, CourseOf
  <1>8. CASE Next
    BY <1>1, <1>2, <1>3, <1>4, <1>5, <1>6, <1>7, <1>8 DEF Next, Shutdown, Rest
  <1> QED BY <1>7, <1>8

\* Each handler starts on its course, at the door.
LEMMA CourseInit == Init => Course
  <1> SUFFICES ASSUME Init, NEW c \in Turn PROVE CourseOf(c)
    BY DEF Course
  <1>1. /\ turn[c].at = "idle" /\ turn[c].told = "none" /\ pc[c] = "door"
        /\ said[c] = 0 /\ Len(em[c].chunks) = 0
    BY DEF Init, Unasked, Fresh
  <1> QED BY <1>1 DEF CourseOf, Early, Live

\* Types and Course are kept by every step of the server.
THEOREM CourseInvariant == Spec => [](Types /\ Course)
  <1>1. Init => Types /\ Course BY TypesInit, CourseInit
  <1>2. Types /\ Course /\ [Next]_vars => (Types /\ Course)' BY TypesStep, CourseStep
  <1> QED BY <1>1, <1>2, PTL DEF Spec

\* No handler goes away from a generation that still runs and that nobody
\* has asked to stop: `break`, the failed write and the unstarted turn.
THEOREM NoAbandonedTurnHolds == Spec => []NoAbandonedTurn
  <1>1. Course => NoAbandonedTurn BY DEF Course, CourseOf, NoAbandonedTurn
  <1> QED BY <1>1, CourseInvariant, PTL

-----------------------------------------------------------------------------
(***************************************************************************)
(* NoPileUp.  One handler at a time counts, as the engine's holder; the    *)
(* permits given out are those of the handlers between Enter and Release;  *)
(* and by Course a worker that waits is one of theirs.                     *)
(***************************************************************************)
Counting ==
  /\ \A c \in Turn : em[c].counting => holder = Counter
  /\ \A c, d \in Turn : em[c].counting /\ em[d].counting => c = d

\* One handler at a time borrows the engine lock, whoever moves.
LEMMA CountingStep == Types /\ Counting /\ [Next]_vars => Counting'
  <1> SUFFICES ASSUME Types, Counting, [Next]_vars PROVE Counting'
    OBVIOUS
  <1>1. ASSUME UNCHANGED holder, \A d \in Turn : em'[d].counting => em[d].counting
        PROVE  Counting'
    BY <1>1 DEF Counting
  <1>2. ASSUME NEW c \in Turn, Handle(c) PROVE Counting'
    <2>1. PICK e \in Local : em' = [em EXCEPT ![c] = e] /\ (e.counting => em[c].counting)
      BY <1>2, HandlerMoves
    <2>2. \A d \in Turn : em'[d].counting => em[d].counting BY <2>1 DEF Types
    <2> QED BY <1>1, <1>2, <2>2, HandlerMoves
  <1>3. ASSUME NEW c \in Turn, CountStarts(c) PROVE Counting'
    <2>1. holder = Nobody /\ holder' = Counter BY <1>3 DEF CountStarts, Borrow
    <2>2. \A d \in Turn : ~em[d].counting BY <2>1, ServerAssumption DEF Counting
    <2>3. \A d \in Turn : d # c => em'[d] = em[d] BY <1>3 DEF CountStarts, With, Types
    <2> QED BY <2>1, <2>2, <2>3 DEF Counting
  <1>4. ASSUME NEW c \in Turn, CountEnds(c) PROVE Counting'
    <2>1. \A d \in Turn : d # c => em'[d] = em[d] /\ ~em[d].counting
      BY <1>4 DEF CountEnds, With, Types, Counting
    <2>2. ~em'[c].counting
      <3>1. em'[c] = [em[c] EXCEPT !.counting = FALSE] BY <1>4 DEF CountEnds, With, Types
      <3> DEFINE no == FALSE
      <3>2. em'[c].counting = no
        <4>1. em[c] \in Local BY DEF Types
        <4> HIDE DEF no
        <4>2. [em[c] EXCEPT !.counting = no].counting = no BY <4>1 DEF Local
        <4> QED BY <3>1, <4>2 DEF no
      <3> QED BY <3>2
    <2> QED BY <2>1, <2>2 DEF Counting
  <1>5. ASSUME NEW c \in Turn, Engine(c) PROVE Counting'
    <2>1. holder \in {Nobody, c} \/ holder' = holder
      BY <1>5 DEF Engine, Take, Give, Refuse, Tell
    <2>2. em' = em BY <1>5 DEF Engine, handlers
    <2>3. CASE holder' = holder BY <1>1, <2>2, <2>3
    <2>4. CASE holder \in {Nobody, c}
      <3>1. \A d \in Turn : ~em[d].counting BY <2>4, ServerAssumption DEF Counting
      <3> QED BY <2>2, <3>1 DEF Counting
    <2> QED BY <2>1, <2>3, <2>4
  <1>6. CASE \E c \in Turn : Bark(c) \/ Say(c) \/ Depart(c)
    BY <1>1, <1>6 DEF Bark, Say, Depart, Abort, handlers, service
  <1>7. CASE Shutdown BY <1>1, <1>7 DEF Shutdown, Stop, Abort, handlers
  <1>8. CASE UNCHANGED vars BY <1>1, <1>8 DEF vars, handlers, service
  <1>9. CASE Next BY <1>2, <1>3, <1>4, <1>5, <1>6, <1>7, <1>8, <1>9 DEF Next, Rest
  <1> QED BY <1>8, <1>9

Permits ==
  /\ permits \in 0..MaxInflight
  /\ permits + Cardinality(Admitted) = MaxInflight

\* A request passes the door with a permit, and gives it back on its way out.
LEMMA PermitMoves ==
  ASSUME Types, NEW c \in Turn, Handle(c)
  PROVE  \/ Admitted' = Admitted /\ permits' = permits
         \/ /\ c \notin Admitted /\ Admitted' = Admitted \cup {c}
            /\ permits # 0 /\ permits' = permits - 1
         \/ c \in Admitted /\ Admitted' = Admitted \ {c} /\ permits' = permits + 1
  <1>1. ASSUME NEW p, To(c, p)
        PROVE  pc'[c] = p /\ \A d \in Turn : d # c => pc'[d] = pc[d]
    BY <1>1 DEF To, Types
  <1>2. CASE Enter(c) BY <1>1, <1>2 DEF Enter, Admitted
  <1>3. CASE Release(c) BY <1>1, <1>3 DEF Release, Admitted
  <1>4. CASE BadRequest(c) \/ HealthGate(c)
    BY <1>1, <1>4 DEF BadRequest, HealthGate, Admitted
  <1>5. CASE Consume(c) BY <1>5 DEF Consume, Admitted
  <1>6. CASE Unfit(c) \/ Headers(c) \/ Start(c) \/ Bill(c) \/ Fault(c)
    BY <1>1, <1>6 DEF Unfit, Headers, Start, Bill, Fault, Breaks, Ended, Admitted
  <1>7. CASE Generate(c) \/ Break(c) \/ Fail(c) \/ Finish(c)
    BY <1>1, <1>7 DEF Generate, Break, Fail, Finish, Ended, Admitted
  <1> QED BY <1>2, <1>3, <1>4, <1>5, <1>6, <1>7 DEF Handle

\* Whoever moves, the permits that are out are the handlers inside.
LEMMA PermitsStep ==
  ASSUME IsFiniteSet(Turn), Types, Permits, [Next]_vars
  PROVE  Permits'
  <1>0. IsFiniteSet(Admitted) /\ Cardinality(Admitted) \in Nat
    BY FS_Subset, FS_CardinalityType DEF Admitted
  <1>1. ASSUME NEW c \in Turn, Handle(c) PROVE Permits'
    <2>1. CASE Admitted' = Admitted /\ permits' = permits BY <2>1 DEF Permits
    <2>2. CASE /\ c \notin Admitted /\ Admitted' = Admitted \cup {c}
               /\ permits # 0 /\ permits' = permits - 1
      <3>1. Cardinality(Admitted') = Cardinality(Admitted) + 1 BY <1>0, <2>2, FS_AddElement
      <3> QED BY <1>0, <2>2, <3>1, ServerAssumption DEF Permits
    <2>3. CASE c \in Admitted /\ Admitted' = Admitted \ {c} /\ permits' = permits + 1
      <3>1. Cardinality(Admitted') = Cardinality(Admitted) - 1
        BY <1>0, <2>3, FS_RemoveElement
      <3>2. Cardinality(Admitted') \in Nat
        BY <1>0, <2>3, FS_RemoveElement, FS_CardinalityType
      <3> QED BY <1>0, <2>3, <3>1, <3>2, ServerAssumption DEF Permits
    <2> QED BY <1>1, <2>1, <2>2, <2>3, PermitMoves
  <1>2. ASSUME UNCHANGED <<pc, permits>> PROVE Permits'
    BY <1>2 DEF Permits, Admitted
  <1>3. ASSUME NEW c \in Turn,
               CountStarts(c) \/ CountEnds(c) \/ Say(c) \/ Engine(c) \/ Bark(c) \/ Depart(c)
        PROVE  UNCHANGED <<pc, permits>>
    BY <1>3 DEF CountStarts, CountEnds, Say, Engine, Bark, Depart, handlers
  <1>4. CASE Shutdown BY <1>2, <1>4 DEF Shutdown, handlers
  <1>5. CASE UNCHANGED vars BY <1>2, <1>5 DEF vars, handlers
  <1>6. CASE Next BY <1>1, <1>2, <1>3, <1>4, <1>5, <1>6 DEF Next, Rest
  <1> QED BY <1>5, <1>6

\* Workers waiting for the engine are no more than the permits, although a
\* worker outlives the handler that left it, and a request's permit comes
\* back once, whatever way it leaves: do_POST's finally, for any number of
\* clients and permits.
THEOREM NoPileUpHolds ==
  ASSUME IsFiniteSet(Turn)
  PROVE  Spec => []NoPileUp
  <1>1. Init => Counting /\ Permits
    <2> SUFFICES ASSUME Init PROVE Counting /\ Permits
      OBVIOUS
    <2>1. Counting BY DEF Init, Counting, Fresh
    <2>2. Admitted = {} BY DEF Init, Admitted
    <2> QED BY <2>1, <2>2, FS_EmptySet, ServerAssumption DEF Init, Permits
  <1>2. Types /\ (Counting /\ Permits) /\ [Next]_vars => (Counting /\ Permits)'
    BY CountingStep, PermitsStep
  <1>3. Types /\ Course /\ Counting /\ Permits => NoPileUp
    <2> SUFFICES ASSUME Types, Course, Counting, Permits PROVE NoPileUp
      OBVIOUS
    <2> DEFINE waiting == {c \in Turn : turn[c].at = "queued"}
    <2>1. waiting \in SUBSET Admitted BY DEF Course, CourseOf, Admitted
    <2>2. IsFiniteSet(Admitted) BY FS_Subset DEF Admitted
    <2>3. Cardinality(waiting) <= Cardinality(Admitted) /\ IsFiniteSet(waiting)
      BY <2>1, <2>2, FS_Subset
    <2>4. Cardinality(waiting) \in Nat /\ Cardinality(Admitted) \in Nat
      BY <2>2, <2>3, FS_CardinalityType
    <2>5. Cardinality(waiting) <= MaxInflight
      BY <2>3, <2>4, ServerAssumption DEF Permits
    <2>6. \A c \in Turn : Len(em[c].chunks) <= said[c] /\ said[c] <= Cap
      BY ServerAssumption DEF Types, Course, CourseOf
    <2>7. TypeOK BY <2>6 DEF Types, Place, Counting, Permits, TypeOK
    <2> QED BY <2>5, <2>7 DEF Permits, NoPileUp
  <1> QED BY <1>1, <1>2, <1>3, CourseInvariant, PTL DEF Spec

-----------------------------------------------------------------------------
(***************************************************************************)
(* DepartureNoticed.  What a buffered answer has taken since its client    *)
(* left lies behind the last multiple of ProbeEvery: each of those asks    *)
(* the socket.                                                             *)
(***************************************************************************)
\* Between two multiples of m the remainder counts.
LEMMA RemainderCounts ==
  ASSUME NEW n \in Nat, NEW m \in Nat \ {0}
  PROVE  /\ n % m \in 0..(m - 1)
         /\ n % m # 0 => n > 0 /\ n % m = ((n - 1) % m) + 1
  <1>1. n % m \in 0..(m - 1) OBVIOUS
  <1>2. n = m * (n \div m) + (n % m) /\ n \div m \in Int OBVIOUS
  <1>3. ASSUME NEW q \in Int, NEW k \in 0..(m - 1) PROVE (m * q + k) % m = k
    OBVIOUS
  <1>4. ASSUME n % m # 0 PROVE n > 0 /\ n % m = ((n - 1) % m) + 1
    <2> DEFINE q == n \div m
               k == n % m
    <2>1. q \in Int /\ k \in 1..(m - 1) /\ n = m * q + k BY <1>1, <1>2, <1>4
    <2>2. n # 0 BY <1>4
    <2> HIDE DEF q, k
    <2>3. k - 1 \in 0..(m - 1) /\ n - 1 = m * q + (k - 1) BY <2>1
    <2>4. (n - 1) % m = k - 1 BY <1>3, <2>1, <2>3
    <2>5. k = ((n - 1) % m) + 1 BY <2>1, <2>4
    <2> QED BY <2>2, <2>5 DEF k
  <1> QED BY <1>1, <1>4

NoticedOf(c) ==
  /\ peer[c] = "here" => em[c].unheard = 0
  /\ ~Streams(c) /\ ~em[c].gone /\ em[c].unheard # 0 =>
       /\ Len(em[c].chunks) # 0
       /\ em[c].unheard <= (Len(em[c].chunks) - 1) % ProbeEvery
Noticed == \A c \in Turn : NoticedOf(c)

\* Nothing but Consume and Release changes the chunks, and the latch is set
\* only when the client has left, and stays.
LEMMA LocalsMove ==
  ASSUME Types, NEW c \in Turn, Handle(c), ~Consume(c)
  PROVE  \/ Release(c) /\ em'[c] = Fresh
         \/ /\ em'[c].chunks = em[c].chunks /\ em'[c].unheard = em[c].unheard
            /\ em[c].gone => em'[c].gone
            /\ em'[c].gone => em[c].gone \/ peer[c] = "gone"
  <1>0. em[c] \in Local BY DEF Types
  <1>1. ASSUME NEW e \in Local, Heard(c, e), e.gone = em[c].gone, e.chunks = em[c].chunks,
               e.unheard = em[c].unheard
        PROVE  /\ em'[c].chunks = em[c].chunks /\ em'[c].unheard = em[c].unheard
               /\ em[c].gone => em'[c].gone
               /\ em'[c].gone => em[c].gone \/ peer[c] = "gone"
    <2>1. ASSUME NEW g \in Local, em' = [em EXCEPT ![c] = g] PROVE em'[c] = g
      BY <2>1 DEF Types
    <2> QED BY <1>1, <2>1, HeardEffect
  <1>2. CASE \/ BadRequest(c) \/ HealthGate(c) \/ Enter(c) \/ Unfit(c) \/ Fault(c)
             \/ Generate(c) \/ Break(c)
    BY <1>2 DEF BadRequest, HealthGate, Enter, Unfit, Fault, Generate, Break
  <1>3. CASE Headers(c) \/ Start(c) \/ Bill(c)
    <2>1. Heard(c, em[c]) \/ em' = em BY <1>3, WritingIsHeard DEF Headers, Start, Bill
    <2> QED BY <1>0, <1>1, <2>1
  <1>4. CASE Fail(c) \/ Finish(c)
    <2>1. Heard(c, Flushed(c)) \/ em' = em BY <1>4, WritingIsHeard DEF Fail, Finish
    <2> QED BY <1>0, <1>1, <2>1, FlushedFields
  <1>5. CASE Release(c) BY <1>5 DEF Release, With, Types
  <1> QED BY <1>2, <1>3, <1>4, <1>5 DEF Handle

\* Without a gate every multiple of ProbeEvery probes.
LEMMA UngatedConsume ==
  ASSUME Types, NEW c \in Turn, Consume(c), ~Gated(c), Due(c)
  PROVE  Probes(c, Longer(c, em[c].open, em[c].held))
  <1> DEFINE n == Len(em[c].chunks) + 1
             u == IF peer[c] = "gone" /\ ~Streams(c) THEN em[c].unheard + 1
                  ELSE em[c].unheard
             e == [em[c] EXCEPT !.chunks = Append(@, n), !.unheard = u]
  <1>1. em[c] \in Local /\ n \in Nat BY DEF Types, Local
  <1>2. e = Longer(c, em[c].open, em[c].held) BY <1>1 DEF Longer, Local
  <1>3. Probes(c, e) BY DEF Consume
  <1> HIDE DEF e
  <1> QED BY <1>2, <1>3

\* Consume, for an answer that is buffered: at a multiple of ProbeEvery the
\* socket is asked, and a client that has left is found out.
LEMMA NoticedConsume ==
  ASSUME Types, Course, Noticed, NEW c \in Turn, Consume(c)
  PROVE  NoticedOf(c)'
  <1> DEFINE n == Len(em[c].chunks)
  <1>0. /\ NoticedOf(c) /\ em[c] \in Local /\ n \in Nat /\ ProbeEvery \in Nat \ {0}
        /\ em[c].unheard \in Nat /\ peer[c] \in {"here", "gone"}
    BY ServerAssumption DEF Noticed, Types, Local
  <1>1. PICK open \in BOOLEAN, back \in Seq(Nat) : Heard(c, Longer(c, open, back))
    BY ConsumeIsHeard
  <1> DEFINE e == Longer(c, open, back)
  <1>2. /\ e \in Local /\ e.gone = em[c].gone /\ e.chunks = Append(em[c].chunks, n + 1)
        /\ e.unheard = IF peer[c] = "gone" /\ ~Streams(c) THEN em[c].unheard + 1
                      ELSE em[c].unheard
    BY LongerFields
  <1>3. /\ ~em[c].gone /\ UNCHANGED <<req, peer>>
        /\ em'[c].chunks = e.chunks /\ em'[c].unheard = e.unheard
    <2>1. ASSUME NEW g \in Local, em' = [em EXCEPT ![c] = g] PROVE em'[c] = g
      BY <2>1 DEF Types
    <2>2. em'[c].chunks = e.chunks /\ em'[c].unheard = e.unheard
      <3>1. e \in Local /\ Heard(c, e) BY <1>1, <1>2
      <3> HIDE DEF e
      <3> QED BY <2>1, <3>1, HeardEffect
    <2> QED BY <2>2, ConsumeIsHeard
  <1>4. Len(em'[c].chunks) = n + 1
    <2>1. em[c].chunks \in Seq(Nat) BY <1>0 DEF Local
    <2>2. Len(Append(em[c].chunks, n + 1)) = n + 1 BY <2>1
    <2> QED BY <1>2, <1>3, <2>2
  <1>5. ASSUME ~Streams(c), peer[c] = "gone", Due(c) PROVE em'[c].gone
    <2>1. ~Gated(c) BY <1>5 DEF Gated, Streams
    <2> DEFINE f == Longer(c, em[c].open, em[c].held)
               yes == TRUE
    <2>2. Probes(c, f) BY <1>5, <2>1, UngatedConsume
    <2>3. f \in Local BY <1>0, LongerFields DEF Local
    <2>4. em'[c] = [f EXCEPT !.gone = yes]
      <3> HIDE DEF f
      <3> QED BY <1>5, <2>2 DEF Probes, With, Types
    <2>5. [f EXCEPT !.gone = yes].gone = yes
      <3> HIDE DEF f, yes
      <3> QED BY <2>3 DEF Local
    <2>6. em'[c].gone = yes
      <3> HIDE DEF f, yes
      <3> QED BY <2>4, <2>5
    <2> QED BY <2>6
  <1>11. ASSUME peer[c] = "gone", em'[c].unheard <= n % ProbeEvery PROVE NoticedOf(c)'
    <2>1. Len(em'[c].chunks) # 0 /\ Len(em'[c].chunks) - 1 = n BY <1>0, <1>4
    <2>2. em'[c].unheard <= (Len(em'[c].chunks) - 1) % ProbeEvery BY <1>11, <2>1
    <2>3. peer'[c] = "gone" BY <1>3, <1>11
    <2> QED BY <2>1, <2>2, <2>3 DEF NoticedOf
  <1>6. CASE ~Streams(c) /\ peer[c] = "gone" /\ ~Due(c) /\ em[c].unheard # 0
    <2>1. n % ProbeEvery # 0 BY <1>6 DEF Due
    <2>2. n % ProbeEvery = ((n - 1) % ProbeEvery) + 1 /\ n % ProbeEvery \in 0..(ProbeEvery - 1)
      BY <1>0, <2>1, RemainderCounts
    <2>3. em[c].unheard <= (n - 1) % ProbeEvery BY <1>0, <1>3, <1>6 DEF NoticedOf
    <2>4. em'[c].unheard = em[c].unheard + 1 BY <1>2, <1>3, <1>6
    <2>5. em'[c].unheard <= n % ProbeEvery
      <3> DEFINE a == n % ProbeEvery
                 b == (n - 1) % ProbeEvery
      <3>1. a = b + 1 /\ a \in Int /\ em[c].unheard <= b BY <2>2, <2>3
      <3> HIDE DEF a, b
      <3>2. b \in Int BY <1>0, RemainderCounts DEF b
      <3>3. em[c].unheard + 1 <= a BY <1>0, <3>1, <3>2
      <3> QED BY <2>4, <3>3 DEF a
    <2> QED BY <1>6, <1>11, <2>5
  <1>7. CASE ~Streams(c) /\ peer[c] = "gone" /\ ~Due(c) /\ em[c].unheard = 0
    <2>1. n % ProbeEvery # 0 BY <1>7 DEF Due
    <2>2. em'[c].unheard = 1 BY <1>2, <1>3, <1>7
    <2>3. em'[c].unheard <= n % ProbeEvery
      <3> DEFINE a == n % ProbeEvery
      <3>1. a \in 0..(ProbeEvery - 1) BY <1>0, RemainderCounts
      <3>2. a # 0 BY <2>1
      <3> HIDE DEF a
      <3>3. 1 <= a BY <1>0, <3>1, <3>2
      <3> QED BY <2>2, <3>3 DEF a
    <2> QED BY <1>7, <1>11, <2>3
  <1>8. CASE Streams(c)
    BY <1>0, <1>2, <1>3, <1>8 DEF NoticedOf, Streams
  <1>9. CASE ~Streams(c) /\ peer[c] = "here"
    BY <1>0, <1>2, <1>3, <1>9 DEF NoticedOf, Streams
  <1>10. CASE ~Streams(c) /\ peer[c] = "gone" /\ Due(c)
    BY <1>0, <1>3, <1>5, <1>10 DEF NoticedOf, Streams
  <1> QED BY <1>0, <1>6, <1>7, <1>8, <1>9, <1>10

\* Whoever moves, a departure is not forgotten once it is noticed.
LEMMA NoticedStep == Types /\ Course /\ Noticed /\ [Next]_vars => Noticed'
  <1> SUFFICES ASSUME Types, Course, Noticed, [Next]_vars, NEW d \in Turn PROVE NoticedOf(d)'
    BY DEF Noticed
  <1>0. NoticedOf(d) BY DEF Noticed
  <1>1. ASSUME UNCHANGED <<req, peer>>, em'[d].gone = em[d].gone,
               em'[d].chunks = em[d].chunks, em'[d].unheard = em[d].unheard
        PROVE  NoticedOf(d)'
    BY <1>0, <1>1 DEF NoticedOf, Streams
  <1>2. ASSUME NEW c \in Turn, Handle(c) PROVE NoticedOf(d)'
    <2>1. UNCHANGED <<req, peer>> BY <1>2, HandlerMoves
    <2>2. CASE d # c
      <3>1. em'[d] = em[d] BY <1>2, <2>2, HandlerMoves DEF Types
      <3> QED BY <1>1, <2>1, <3>1
    <2>3. CASE d = c /\ Consume(c) BY <2>3, NoticedConsume
    <2>4. CASE d = c /\ ~Consume(c)
      <3>1. CASE em'[c] = Fresh BY <2>4, <3>1 DEF NoticedOf, Fresh
      <3>2. CASE /\ em'[c].chunks = em[c].chunks /\ em'[c].unheard = em[c].unheard
                 /\ em[c].gone => em'[c].gone
        BY <1>0, <2>1, <2>4, <3>2 DEF NoticedOf, Streams
      <3> QED BY <1>2, <2>4, <3>1, <3>2, LocalsMove
    <2> QED BY <2>2, <2>3, <2>4
  <1>3. ASSUME NEW c \in Turn, CountStarts(c) \/ CountEnds(c) PROVE NoticedOf(d)'
    <2>1. PICK b \in BOOLEAN : em' = [em EXCEPT ![c] = [em[c] EXCEPT !.counting = b]]
      BY <1>3 DEF CountStarts, CountEnds, With
    <2>2. UNCHANGED <<req, peer>> BY <1>3 DEF CountStarts, CountEnds
    <2>3. em[c] \in Local BY DEF Types
    <2>4. /\ em'[d].gone = em[d].gone /\ em'[d].chunks = em[d].chunks
          /\ em'[d].unheard = em[d].unheard
      BY <2>1, <2>3 DEF Local, Types
    <2> QED BY <1>1, <2>2, <2>4
  <1>4. ASSUME NEW c \in Turn, Depart(c) PROVE NoticedOf(d)'
    <2>1. em' = em /\ req' = req /\ (peer'[d] = "here" => peer[d] = "here")
      BY <1>4 DEF Depart, Types
    <2> QED BY <1>0, <2>1 DEF NoticedOf, Streams
  <1>5. ASSUME NEW c \in Turn, Say(c) \/ Engine(c) \/ Bark(c) PROVE NoticedOf(d)'
    BY <1>1, <1>5 DEF Say, Engine, Bark, handlers
  <1>6. CASE Shutdown BY <1>1, <1>6 DEF Shutdown, handlers
  <1>7. CASE UNCHANGED vars BY <1>1, <1>7 DEF vars, handlers
  <1>8. CASE Next BY <1>2, <1>3, <1>4, <1>5, <1>6, <1>7, <1>8 DEF Next, Rest
  <1> QED BY <1>7, <1>8

\* Fewer than ProbeEvery chunks are taken for a client of a buffered answer
\* that has left before its handler knows it, for any probing distance.
THEOREM DepartureNoticedHolds == Spec => []DepartureNoticed
  <1>1. Init => Noticed BY DEF Init, Noticed, NoticedOf, Fresh
  <1>2. (Types /\ Course) /\ Noticed /\ [Next]_vars => Noticed' BY NoticedStep
  <1>3. (Types /\ Course) /\ Noticed => DepartureNoticed
    <2> SUFFICES ASSUME Types, Noticed, NEW c \in Turn, ~Streams(c), ~em[c].gone
                 PROVE  em[c].unheard < ProbeEvery
      BY DEF DepartureNoticed
    <2>1. NoticedOf(c) /\ ProbeEvery \in Nat \ {0} BY ServerAssumption DEF Noticed
    <2>2. em[c].unheard \in Nat /\ Len(em[c].chunks) \in Nat BY DEF Types, Local
    <2>3. CASE em[c].unheard = 0 BY <2>1, <2>3
    <2>4. CASE em[c].unheard # 0
      <3> DEFINE n == Len(em[c].chunks) - 1
                 k == n % ProbeEvery
      <3>1. Len(em[c].chunks) # 0 /\ em[c].unheard <= k BY <2>1, <2>4 DEF NoticedOf
      <3>2. n \in Nat BY <2>2, <3>1
      <3>3. k \in 0..(ProbeEvery - 1)
        <4> HIDE DEF n
        <4> QED BY <2>1, <3>2, RemainderCounts
      <3> HIDE DEF k
      <3> QED BY <2>1, <2>2, <3>1, <3>3
    <2> QED BY <2>3, <2>4
  <1> QED BY <1>1, <1>2, <1>3, CourseInvariant, PTL DEF Spec

-----------------------------------------------------------------------------
(***************************************************************************)
(* FinishesAreWhole.  What the frames of a wire carry is defined by a      *)
(* recursion over it, whose solution nobody can be asked to build by       *)
(* induction over a wire; but a wire grows from the empty one frame by     *)
(* frame, so that the recursion has a solution, and one, is an invariant   *)
(* of the behaviour like any other.                                        *)
(***************************************************************************)
Statuses == Refusals \cup Bodies
FrameKind == Statuses \cup {"200_SSE", "role", "message_start", "block_start", "text",
                            "error", "end", "finish", "block_stop", "usage", "closed"}
FrameType == [is : FrameKind, chunks : Seq(Nat)]

Solves(f, s) ==
  f = [i \in 0..Len(s) |-> IF i = 0 THEN <<>> ELSE f[i - 1] \o s[i].chunks]

Carries(s, d) ==
  /\ s \in Seq(FrameType) /\ d \in Seq(Nat)
  /\ \E f : Solves(f, s)
  /\ \A f : Solves(f, s) => f[Len(s)] = d

\* Delivered is what the wire carries.
LEMMA DeliveredIsCarried ==
  ASSUME NEW c \in Turn, NEW d, Carries(wire[c], d)
  PROVE  Delivered(c) = d
  <1> DEFINE F == CHOOSE f : Solves(f, wire[c])
  <1>1. Solves(F, wire[c]) BY DEF Carries
  <1>2. Delivered(c) = F[Len(wire[c])] BY DEF Delivered, Solves
  <1> QED BY <1>1, <1>2 DEF Carries

\* No frames carry no text.
LEMMA CarriesNothing == Carries(<<>>, <<>>)
  <1>1. Solves([i \in 0..0 |-> <<>>], <<>>) BY DEF Solves
  <1>2. ASSUME NEW f, Solves(f, <<>>) PROVE f[Len(<<>>)] = <<>>
    BY <1>2 DEF Solves
  <1>3. <<>> \in Seq(FrameType) /\ <<>> \in Seq(Nat) OBVIOUS
  <1> QED BY <1>1, <1>2, <1>3 DEF Carries

\* One frame more carries its chunks more.
LEMMA CarriesMore ==
  ASSUME NEW s, NEW d, Carries(s, d), NEW fr \in FrameType
  PROVE  Carries(Append(s, fr), d \o fr.chunks)
  <1> DEFINE t == Append(s, fr)
             n == Len(s)
             w == d \o fr.chunks
  <1>1. /\ s \in Seq(FrameType) /\ n \in Nat /\ t \in Seq(FrameType) /\ Len(t) = n + 1
        /\ t[n + 1] = fr /\ \A i \in 1..n : t[i] = s[i]
    BY DEF Carries
  <1>2. w \in Seq(Nat) BY DEF Carries, FrameType
  <1> HIDE DEF t, n, w
  <1>3. \E g : Solves(g, t)
    <2>1. PICK f : Solves(f, s) BY DEF Carries
    <2>2. /\ f[n] = d /\ DOMAIN f = 0..n
          /\ \A i \in 0..n : f[i] = IF i = 0 THEN <<>> ELSE f[i - 1] \o s[i].chunks
      BY <2>1 DEF Carries, Solves, n
    <2> DEFINE g == [i \in 0..(n + 1) |-> IF i <= n THEN f[i] ELSE w]
               h == [i \in 0..Len(t) |-> IF i = 0 THEN <<>> ELSE g[i - 1] \o t[i].chunks]
    <2>3. ASSUME NEW i \in 0..(n + 1) PROVE g[i] = h[i]
      <3>1. CASE i = 0
        <4>1. 0 \in 0..n /\ 0 \in 0..(n + 1) /\ 0 \in 0..Len(t) /\ 0 <= n BY <1>1
        <4>2. g[0] = f[0] /\ f[0] = <<>> BY <2>2, <4>1
        <4>3. h[0] = <<>> BY <4>1
        <4> QED BY <3>1, <4>2, <4>3
      <3>2. CASE i \in 1..n
        <4>1. i - 1 \in 0..n /\ i \in 0..n /\ t[i] = s[i] BY <1>1, <3>2
        <4>2. g[i - 1] = f[i - 1] /\ g[i] = f[i] BY <1>1, <4>1, <3>2
        <4> QED BY <1>1, <2>2, <4>1, <4>2, <3>2
      <3>3. CASE i = n + 1
        <4>1. g[n] = d /\ g[i] = w BY <1>1, <2>2, <3>3
        <4>2. h[i] = g[n] \o t[n + 1].chunks
          <5>1. i \in 0..Len(t) /\ i # 0 /\ i - 1 = n BY <1>1, <3>3
          <5>2. h[i] = g[i - 1] \o t[i].chunks BY <5>1
          <5> HIDE DEF g, h
          <5> QED BY <3>3, <5>1, <5>2
        <4> QED BY <1>1, <4>1, <4>2 DEF w
      <3> QED BY <1>1, <3>1, <3>2, <3>3
    <2>4. g = h BY <1>1, <2>3
    <2> HIDE DEF g
    <2> QED BY <2>4 DEF Solves
  <1>4. ASSUME NEW g, Solves(g, t) PROVE g[Len(t)] = w
    <2>1. \A i \in 0..(n + 1) : g[i] = IF i = 0 THEN <<>> ELSE g[i - 1] \o t[i].chunks
      BY <1>1, <1>4 DEF Solves
    <2> DEFINE h == [i \in 0..n |-> g[i]]
    <2>2. Solves(h, s)
      <3> DEFINE k == [i \in 0..n |-> IF i = 0 THEN <<>> ELSE h[i - 1] \o s[i].chunks]
      <3>1. ASSUME NEW i \in 0..n PROVE h[i] = k[i]
        <4>1. CASE i = 0 BY <1>1, <2>1, <4>1
        <4>2. CASE i # 0
          <5>1. i \in 1..n /\ i - 1 \in 0..n /\ i \in 0..(n + 1) BY <1>1, <4>2
          <5>2. h[i] = g[i] /\ h[i - 1] = g[i - 1] /\ t[i] = s[i] BY <1>1, <5>1
          <5> QED BY <2>1, <4>2, <5>1, <5>2
        <4> QED BY <4>1, <4>2
      <3>2. h = k BY <3>1
      <3> HIDE DEF h
      <3> QED BY <3>2 DEF Solves, n
    <2>3. h[n] = d BY <2>2 DEF Carries, n
    <2>4. g[n] = d BY <1>1, <2>3
    <2>5. g[n + 1] = g[n] \o t[n + 1].chunks
      <3>1. n + 1 \in 0..(n + 1) /\ n + 1 # 0 /\ (n + 1) - 1 = n BY <1>1
      <3>2. g[n + 1] = g[(n + 1) - 1] \o t[n + 1].chunks BY <2>1, <3>1
      <3> QED BY <3>1, <3>2
    <2> QED BY <1>1, <2>4, <2>5 DEF w
  <1>5. Carries(t, w) BY <1>1, <1>2, <1>3, <1>4 DEF Carries
  <1> QED BY <1>5 DEF t, w

(* Why a turn was cut: only shutdown cuts a turn without naming it while   *)
(* its client is there to be told.                                         *)
ReasonOf(c) ==
  /\ em[c].gone => peer[c] = "gone"
  /\ turn[c].how = "cut" => turn[c].at = "ended" /\ turn[c].aborted
  /\ turn[c].told = "done" /\ turn[c].how = "cut" => ~turn[c].named
  /\ pc[c] \in {"generating", "billing"} /\ peer[c] = "here"
       /\ turn[c].aborted /\ ~turn[c].named => stopping
Reasons == \A c \in Turn : ReasonOf(c)

\* A handler's own step keeps the reasons of its turn.
LEMMA ReasonOfHandler ==
  ASSUME Types, Course, Reasons, NEW c \in Turn, Handle(c)
  PROVE  ReasonOf(c)'
  <1>0. /\ ReasonOf(c) /\ CourseOf(c) /\ turn[c] \in TurnType /\ em[c] \in Local
        /\ UNCHANGED <<peer, stopping>>
    BY HandlerMoves DEF Reasons, Course, Types
  <1>1. /\ em'[c] \in Local
        /\ em'[c].gone => peer[c] = "gone"
    <2>1. em'[c] \in Local BY HandlerMoves DEF Types
    <2>2. CASE Consume(c)
      <3>1. PICK open \in BOOLEAN, back \in Seq(Nat) : Heard(c, Longer(c, open, back))
        BY <2>2, ConsumeIsHeard
      <3>2. Longer(c, open, back) \in Local /\ Longer(c, open, back).gone = em[c].gone
        BY LongerFields
      <3>3. ASSUME NEW g \in Local, em' = [em EXCEPT ![c] = g] PROVE em'[c] = g
        BY <3>3 DEF Types
      <3> QED BY <1>0, <3>1, <3>2, <3>3, HeardEffect DEF ReasonOf
    <2>3. CASE ~Consume(c)
      <3>1. ~Fresh.gone BY DEF Fresh
      <3>2. CASE em'[c] = Fresh BY <2>1, <3>1, <3>2
      <3>3. CASE em'[c].gone => em[c].gone \/ peer[c] = "gone"
        BY <1>0, <2>1, <3>3 DEF ReasonOf
      <3> QED BY <2>3, <3>2, <3>3, LocalsMove
    <2> QED BY <2>1, <2>2, <2>3
  <1>2. CASE turn'[c] = turn[c] /\ (pc'[c] \in {"generating", "billing"} =>
                                      pc[c] \in {"generating", "billing"})
    BY <1>0, <1>1, <1>2 DEF ReasonOf
  <1>3. CASE /\ turn[c].at \in Live
             /\ peer[c] = "gone" /\ \E s \in TurnType : Cut(turn[c], s) /\ turn'[c] = s
    BY <1>0, <1>1, <1>3 DEF ReasonOf, Cut, CourseOf, Live
  <1>4. ASSUME NEW p, To(c, p) PROVE pc'[c] = p
    BY <1>4 DEF To, Types
  <1>5. ASSUME NEW s, turn' = [turn EXCEPT ![c] = s] PROVE turn'[c] = s
    BY <1>5 DEF Types
  <1>6. ASSUME NEW e \in Local, Heard(c, e),
               pc'[c] \in {"generating", "billing"} => pc[c] \in {"generating", "billing"}
        PROVE  ReasonOf(c)'
    BY <1>2, <1>3, <1>5, <1>6, HeardEffect
  <1>7. CASE BadRequest(c) \/ HealthGate(c) \/ Enter(c) \/ Unfit(c) \/ Fault(c) \/ Release(c)
    BY <1>2, <1>4, <1>7
       DEF BadRequest, HealthGate, Enter, Unfit, Fault, Release, service
  <1>8. CASE Headers(c) \/ Start(c) \/ Bill(c)
    <2>1. Heard(c, em[c]) \/ turn' = turn
      BY <1>8, WritingIsHeard DEF Headers, Start, Bill, service
    <2>2. pc'[c] \notin {"generating", "billing"} BY <1>4, <1>8 DEF Headers, Start, Bill
    <2> QED BY <1>0, <1>2, <1>6, <2>1, <2>2
  <1>9. CASE Generate(c)
    <2>1. CASE em[c].gone BY <1>2, <1>4, <1>9, <2>1 DEF Generate, GivesUp, service
    <2>2. CASE ~em[c].gone
      <3>1. turn' = [turn EXCEPT ![c] = Queued]
        BY <1>9, <2>2 DEF Generate, GivesUp, Ask, Becomes
      <3>2. turn'[c] = Queued BY <1>5, <3>1
      <3>3. ~Queued.aborted /\ Queued.how = "none" BY DEF Queued, Unasked
      <3> QED BY <1>0, <1>1, <3>2, <3>3 DEF ReasonOf
    <2> QED BY <2>1, <2>2
  <1>10. CASE Consume(c)
    <2>1. PICK open \in BOOLEAN, back \in Seq(Nat) : Heard(c, Longer(c, open, back))
      BY <1>10, ConsumeIsHeard
    <2>2. Longer(c, open, back) \in Local /\ pc' = pc BY <1>10, ConsumeIsHeard, LongerFields
    <2> QED BY <1>6, <2>1, <2>2
  <1>11. CASE Break(c)
    <2>1. em[c].gone /\ Loses(c) /\ pc'[c] = "leaving" BY <1>4, <1>11 DEF Break
    <2>2. peer[c] = "gone" BY <1>0, <2>1 DEF ReasonOf
    <2> QED BY <1>2, <1>3, <1>5, <2>1, <2>2, LosesEffect
  <1>12. CASE Fail(c) \/ Finish(c)
    <2>1. Heard(c, Flushed(c)) \/ turn' = turn
      BY <1>12, WritingIsHeard DEF Fail, Finish, service
    <2>2. pc[c] = "generating" BY <1>12 DEF Fail, Finish, Ended
    <2> QED BY <1>2, <1>6, <2>1, <2>2, FlushedFields
  <1> QED BY <1>7, <1>8, <1>9, <1>10, <1>11, <1>12 DEF Handle

\* The engine ends a turn as cut only if it was asked to stop, and tells a
\* cut one that it is done only if nobody gave a reason.
LEMMA ReasonOfEngine ==
  ASSUME Types, Course, Reasons, NEW c \in Turn,
         Engine(c) \/ Bark(c)
           \/ (Abort(c, turn[c].named) /\ stopping /\ UNCHANGED handlers)
  PROVE  ReasonOf(c)'
  <1>0. /\ ReasonOf(c) /\ CourseOf(c) /\ turn[c] \in TurnType
        /\ UNCHANGED <<pc, em, peer>>
    BY DEF Reasons, Course, Types, Engine, Bark, handlers
  <1>1. CASE Engine(c) /\ Take(c)
    <2>1. turn'[c] = [turn[c] EXCEPT !.at = "running"] /\ turn[c].at = "queued" /\ stopping' = stopping
      BY <1>1 DEF Take, Becomes, Types
    <2>2. /\ turn'[c].how = turn[c].how /\ turn'[c].told = turn[c].told
          /\ turn'[c].aborted = turn[c].aborted /\ turn'[c].named = turn[c].named
      BY <1>0, <2>1 DEF TurnType
    <2> QED BY <1>0, <2>1, <2>2 DEF ReasonOf
  <1>2. CASE Engine(c) /\ Give(c)
    <2>1. PICK how \in Ways(c) : turn'[c] = [turn[c] EXCEPT !.at = "ended", !.how = how]
      BY <1>2 DEF Give, Becomes, Types
    <2>2. /\ turn'[c].how = how /\ turn'[c].told = turn[c].told /\ turn'[c].at = "ended"
          /\ turn'[c].aborted = turn[c].aborted /\ turn'[c].named = turn[c].named
      BY <1>0, <2>1 DEF TurnType
    <2>3. how = "cut" => turn[c].aborted BY <2>1 DEF Ways
    <2>4. turn[c].at = "running" /\ stopping' = stopping BY <1>2 DEF Give
    <2>5. turn[c].told = "none" BY <1>0, <2>4 DEF CourseOf
    <2> QED BY <1>0, <2>2, <2>3, <2>4, <2>5 DEF ReasonOf
  <1>3. CASE Engine(c) /\ Refuse(c)
    <2>1. turn'[c] = [turn[c] EXCEPT !.at = "ended", !.how = "refused", !.told = "closing"]
      BY <1>3 DEF Refuse, Becomes, Types
    <2>2. /\ turn'[c].how = "refused" /\ turn'[c].told = "closing"
          /\ turn'[c].aborted = turn[c].aborted /\ turn'[c].named = turn[c].named
      BY <1>0, <2>1 DEF TurnType
    <2> QED BY <1>0, <1>3, <2>2 DEF ReasonOf, Refuse
  <1>4. CASE Engine(c) /\ Tell(c)
    <2>1. PICK told \in Tellable(c) : turn'[c] = [turn[c] EXCEPT !.told = told]
      BY <1>4 DEF Tell, Becomes, Types
    <2>2. /\ turn'[c].how = turn[c].how /\ turn'[c].told = told /\ turn'[c].at = turn[c].at
          /\ turn'[c].aborted = turn[c].aborted /\ turn'[c].named = turn[c].named
      BY <1>0, <2>1 DEF TurnType
    <2>3. told = "done" /\ turn[c].how = "cut" => ~turn[c].named
      <3> SUFFICES ASSUME told = "done", turn[c].how = "cut" PROVE ~turn[c].named
        OBVIOUS
      <3>1. turn[c].aborted BY <1>0 DEF ReasonOf
      <3>2. told \in {"discarded", IF turn[c].named THEN "cut" ELSE "done"}
        BY <2>1, <3>1 DEF Tellable
      <3> QED BY <3>2
    <2>4. stopping' = stopping BY <1>4 DEF Tell
    <2> QED BY <1>0, <2>2, <2>3, <2>4 DEF ReasonOf
  <1>5. CASE \E named \in BOOLEAN : Abort(c, named) /\ (named \/ (named = turn[c].named /\ stopping))
    <2>1. PICK named \in BOOLEAN : Abort(c, named) /\ (named \/ (named = turn[c].named /\ stopping))
      BY <1>5
    <2>2. turn'[c] = Stopped(turn[c], named) BY <2>1 DEF Abort, Becomes, Stopped, Types
    <2>3. /\ turn'[c].at = turn[c].at /\ turn'[c].told = turn[c].told /\ turn'[c].aborted
          /\ turn'[c].how = turn[c].how /\ (turn'[c].named <=> turn[c].named \/ named)
      BY <1>0, <2>2, AbortType
    <2>4. turn[c].at \in Live /\ stopping' = stopping BY <2>1 DEF Abort
    <2>5. turn[c].told = "none" BY <1>0, <2>4 DEF CourseOf, Live
    <2> QED BY <1>0, <2>1, <2>3, <2>4, <2>5 DEF ReasonOf
  <1> QED BY <1>0, <1>1, <1>2, <1>3, <1>4, <1>5 DEF Engine, Bark, TurnType

\* Whoever moves, a turn has been cut for a reason its client may be told.
LEMMA ReasonsStep == Types /\ Course /\ Reasons /\ [Next]_vars => Reasons'
  <1> SUFFICES ASSUME Types, Course, Reasons, [Next]_vars, NEW d \in Turn PROVE ReasonOf(d)'
    BY DEF Reasons
  <1>0. ReasonOf(d) /\ turn[d] \in TurnType BY DEF Reasons, Types
  <1>1. ASSUME em'[d].gone = em[d].gone, pc'[d] = pc[d], turn'[d] = turn[d],
               peer'[d] = "here" => peer[d] = "here", em'[d].gone => peer'[d] = "gone",
               stopping => stopping'
        PROVE  ReasonOf(d)'
    BY <1>0, <1>1 DEF ReasonOf
  <1>2. ASSUME NEW c \in Turn, Handle(c) PROVE ReasonOf(d)'
    <2>1. CASE d # c
      <3>1. /\ em'[d] = em[d] /\ pc'[d] = pc[d] /\ turn'[d] = turn[d]
            /\ UNCHANGED <<peer, stopping>>
        BY <1>2, <2>1, HandlerMoves DEF Types
      <3> QED BY <1>0, <1>1, <3>1 DEF ReasonOf
    <2> QED BY <1>2, <2>1, ReasonOfHandler
  <1>3. ASSUME NEW c \in Turn, CountStarts(c) \/ CountEnds(c) PROVE ReasonOf(d)'
    <2>1. PICK b \in BOOLEAN : em' = [em EXCEPT ![c] = [em[c] EXCEPT !.counting = b]]
      BY <1>3 DEF CountStarts, CountEnds, With
    <2>2. UNCHANGED <<turn, stopping, pc, peer>>
      BY <1>3 DEF CountStarts, CountEnds, Borrow, Return
    <2>3. em[c] \in Local BY DEF Types
    <2>4. em'[d].gone = em[d].gone BY <2>1, <2>3 DEF Local, Types
    <2> QED BY <1>0, <1>1, <2>2, <2>4 DEF ReasonOf
  <1>4. ASSUME NEW c \in Turn,
               Engine(c) \/ Bark(c)
                 \/ (Abort(c, turn[c].named) /\ stopping /\ UNCHANGED handlers)
        PROVE  ReasonOf(d)'
    <2>1. CASE d # c
      <3>0. turn[c] \in TurnType BY DEF Types
      <3>1. /\ Take(c) \/ Give(c) \/ Refuse(c) \/ Tell(c) \/ \E named \in BOOLEAN : Abort(c, named)
            /\ UNCHANGED <<pc, em, peer>>
        BY <1>4, <3>0 DEF Engine, Bark, TurnType, handlers
      <3>2. turn'[d] = turn[d] /\ stopping' = stopping BY <2>1, <3>1, EngineMoves DEF Types
      <3> QED BY <1>0, <1>1, <3>1, <3>2 DEF ReasonOf
    <2> QED BY <1>4, <2>1, ReasonOfEngine
  <1>5. CASE Stop /\ UNCHANGED handlers
    <2>1. /\ turn'[d].at = turn[d].at /\ turn'[d].told = turn[d].told
          /\ turn'[d].aborted = turn[d].aborted /\ turn'[d].how = turn[d].how
          /\ turn'[d] = turn[d] \/ turn[d].at = "running"
      <3>1. CASE \E t \in Turn : turn[t].at = "running" /\ Becomes(t, [turn[t] EXCEPT !.named = TRUE])
        <4>1. PICK t \in Turn : /\ turn[t].at = "running"
                               /\ turn' = [turn EXCEPT ![t] = [turn[t] EXCEPT !.named = TRUE]]
          BY <3>1 DEF Becomes
        <4>2. turn'[d] = IF d = t THEN [turn[d] EXCEPT !.named = TRUE] ELSE turn[d]
          BY <4>1 DEF Types
        <4> QED BY <1>0, <4>1, <4>2, MarkType
      <3> QED BY <1>5, <3>1 DEF Stop
    <2>2. UNCHANGED <<pc, em, peer>> /\ stopping' = TRUE BY <1>5 DEF handlers, Stop
    <2>3. turn[d].at = "running" => turn[d].told = "none" BY DEF Course, CourseOf
    <2> QED BY <1>0, <2>1, <2>2, <2>3 DEF ReasonOf
  <1>6. ASSUME NEW c \in Turn, Depart(c) PROVE ReasonOf(d)'
    <2>1. /\ UNCHANGED <<turn, stopping, pc, em>>
          /\ peer'[d] \in {peer[d], "gone"}
      BY <1>6 DEF Depart, service, Types
    <2> QED BY <1>0, <1>1, <2>1 DEF ReasonOf
  <1>7. ASSUME NEW c \in Turn, Say(c) PROVE ReasonOf(d)'
    BY <1>0, <1>1, <1>7 DEF Say, service, ReasonOf
  <1>8. CASE UNCHANGED vars BY <1>0, <1>1, <1>8 DEF vars, handlers, service, ReasonOf
  <1>9. CASE Next
    BY <1>2, <1>3, <1>4, <1>5, <1>6, <1>7, <1>8, <1>9 DEF Next, Shutdown, Rest
  <1> QED BY <1>8, <1>9

-----------------------------------------------------------------------------
(* What a client that stays has been sent: nothing of the text before the  *)
(* generation; then what the gate has let pass, the rest being held; at    *)
(* the end the whole, in one piece or in pieces.                           *)
Final == {"finish", "200"}
NoFinish(s) == \A i \in DOMAIN s : s[i].is \notin Final
CountTo(n) == [i \in 1..n |-> i]

SentOf(c) ==
  IF peer[c] = "gone" THEN wire[c] = <<>>
  ELSE /\ em[c].chunks = CountTo(Len(em[c].chunks))
       /\ em[c].open => em[c].held = <<>>
       /\ pc[c] \in Early =>
            /\ NoFinish(wire[c]) /\ Carries(wire[c], <<>>)
            /\ em[c].chunks = <<>> /\ em[c].held = <<>>
       /\ pc[c] = "generating" =>
            /\ NoFinish(wire[c])
            /\ \E d : /\ Carries(wire[c], d)
                     /\ IF Gated(c) THEN em[c].chunks = d \o em[c].held ELSE d = <<>>
       /\ pc[c] = "billing" =>
            /\ Len(em[c].chunks) = said[c]
            /\ IF Streams(c) THEN Carries(wire[c], CountTo(said[c]))
               ELSE NoFinish(wire[c]) /\ Carries(wire[c], <<>>)
       /\ \/ NoFinish(wire[c])
          \/ /\ turn[c].told = "done" /\ Carries(wire[c], CountTo(said[c]))
             /\ turn[c].how = "cut" => stopping /\ ~turn[c].named
Sent ==
  /\ wire = [c \in Turn |-> wire[c]]
  /\ \A c \in Turn : SentOf(c)

\* Two frames behind a wire, one by one.
LEMMA TwoMore ==
  ASSUME NEW S, NEW s \in Seq(S), NEW x \in S, NEW y \in S
  PROVE  s \o <<x, y>> = Append(Append(s, x), y)
  <1> DEFINE g == s \o <<x, y>>
             h == Append(Append(s, x), y)
             n == Len(s)
  <1>1. /\ n \in Nat /\ <<x, y>> \in Seq(S) /\ Len(<<x, y>>) = 2
        /\ <<x, y>>[1] = x /\ <<x, y>>[2] = y
    OBVIOUS
  <1>2. g \in Seq(S) /\ h \in Seq(S) /\ Len(g) = n + 2 BY <1>1
  <1>3. Append(s, x) \in Seq(S) /\ Len(Append(s, x)) = n + 1 OBVIOUS
  <1>4. Len(h) = n + 2 BY <1>1, <1>3
  <1>5. ASSUME NEW i \in 1..(n + 2) PROVE g[i] = h[i]
    <2>1. CASE i \in 1..n
      <3>1. g[i] = s[i] /\ Append(s, x)[i] = s[i] BY <1>1, <2>1
      <3>2. h[i] = Append(s, x)[i] BY <1>1, <1>3, <2>1
      <3> QED BY <3>1, <3>2
    <2>2. CASE i = n + 1 BY <1>1, <1>3, <2>2
    <2>3. CASE i = n + 2
      <3>1. g[i] = <<x, y>>[2] BY <1>1, <2>3
      <3>2. h[i] = y BY <1>1, <1>3, <2>3
      <3> QED BY <1>1, <3>1, <3>2
    <2> QED BY <1>1, <2>1, <2>2, <2>3
  <1> HIDE DEF g, h
  <1>6. g = h BY <1>1, <1>2, <1>4, <1>5
  <1> QED BY <1>6 DEF g, h

\* Two frames are a sequence of two.
LEMMA FramesOfTwo ==
  ASSUME NEW a, NEW b
  PROVE  Frames(<<a, b>>) = <<Frame(a), Frame(b)>>
  <1> DEFINE g == [i \in 1..2 |-> Frame(<<a, b>>[i])]
             h == <<Frame(a), Frame(b)>>
  <1>1. DOMAIN <<a, b>> = 1..2 /\ <<a, b>>[1] = a /\ <<a, b>>[2] = b OBVIOUS
  <1>2. g[1] = Frame(<<a, b>>[1]) /\ g[2] = Frame(<<a, b>>[2]) OBVIOUS
  <1>3. h[1] = Frame(a) /\ h[2] = Frame(b) /\ h = [i \in 1..2 |-> h[i]] OBVIOUS
  <1>4. g[1] = h[1] /\ g[2] = h[2] BY <1>1, <1>2, <1>3
  <1>5. g = h
    <2>1. \A i \in 1..2 : g[i] = h[i] BY <1>4
    <2>2. DOMAIN g = 1..2 OBVIOUS
    <2> HIDE DEF h
    <2> QED BY <1>3, <2>1, <2>2
  <1> QED BY <1>1, <1>5 DEF Frames

\* A frame that is no finish finishes nothing.
LEMMA OneMore ==
  ASSUME NEW s \in Seq(FrameType), NEW fr \in FrameType, fr.is \notin Final, NoFinish(s)
  PROVE  NoFinish(Append(s, fr))
  <1>1. \A i \in DOMAIN Append(s, fr) :
          Append(s, fr)[i] = fr \/ (i \in DOMAIN s /\ Append(s, fr)[i] = s[i])
    OBVIOUS
  <1> QED BY <1>1 DEF NoFinish

\* Text more is carried, and finishes nothing.
LEMMA TextMore ==
  ASSUME NEW s, NEW d, Carries(s, d), NEW w \in Seq(Nat)
  PROVE  /\ Carries(s \o Text(w), d \o w)
         /\ NoFinish(s) => NoFinish(s \o Text(w))
  <1>0. s \in Seq(FrameType) /\ d \in Seq(Nat) BY DEF Carries
  <1>1. CASE w = <<>>
    <2>1. s \o Text(w) = s /\ d \o w = d BY <1>0, <1>1 DEF Text
    <2> QED BY <2>1
  <1>2. CASE w # <<>>
    <2> DEFINE fr == [is |-> "text", chunks |-> w]
    <2>1. fr \in FrameType /\ fr.chunks = w /\ fr.is = "text" BY DEF FrameType, FrameKind
    <2>2. s \o Text(w) = Append(s, fr) BY <1>0, <1>2, <2>1 DEF Text
    <2>3. Carries(Append(s, fr), d \o fr.chunks) BY <2>1, CarriesMore
    <2>4. ASSUME NoFinish(s) PROVE NoFinish(Append(s, fr))
      <3>1. fr.is \notin Final BY <2>1 DEF Final
      <3> HIDE DEF fr
      <3> QED BY <1>0, <2>1, <2>4, <3>1, OneMore
    <2> QED BY <2>1, <2>2, <2>3, <2>4
  <1> QED BY <1>1, <1>2

\* Frames behind a wire, one by one.
LEMMA FramesBehind ==
  ASSUME NEW s \in Seq(FrameType), NEW a \in FrameKind, NEW b \in FrameKind
  PROVE  /\ Frame(a) \in FrameType /\ Frame(a).chunks = <<>> /\ Frame(a).is = a
         /\ s \o <<Frame(a)>> = Append(s, Frame(a)) /\ <<Frame(a)>> # <<>>
         /\ s \o Frames(<<a, b>>) = Append(Append(s, Frame(a)), Frame(b))
         /\ Frames(<<a, b>>) # <<>>
  <1>0. <<>> \in Seq(Nat) OBVIOUS
  <1>1. /\ Frame(a) \in FrameType /\ Frame(b) \in FrameType /\ Frame(a).chunks = <<>>
        /\ Frame(a).is = a
    BY <1>0 DEF Frame, FrameType
  <1>4. s \o <<Frame(a)>> = Append(s, Frame(a)) /\ <<Frame(a)>> # <<>>
    <2>1. Len(<<Frame(a)>>) = 1 /\ Len(<<>>) = 0 OBVIOUS
    <2> QED BY <1>1, <2>1
  <1>5. Frames(<<a, b>>) = <<Frame(a), Frame(b)>> BY FramesOfTwo
  <1>6. s \o <<Frame(a), Frame(b)>> = Append(Append(s, Frame(a)), Frame(b))
    BY <1>1, TwoMore
  <1>7. Frames(<<a, b>>) # <<>>
    <2>1. <<Frame(a), Frame(b)>> # <<>>
      <3>1. Len(<<Frame(a), Frame(b)>>) = 2 /\ Len(<<>>) = 0 OBVIOUS
      <3> QED BY <3>1
    <2> QED BY <1>5, <2>1
  <1> QED BY <1>1, <1>4, <1>5, <1>6, <1>7

\* Frames without text carry nothing.
LEMMA FramesMore ==
  ASSUME NEW s, NEW d, Carries(s, d), NEW a \in FrameKind, NEW b \in FrameKind
  PROVE  /\ Carries(Append(s, Frame(a)), d)
         /\ NoFinish(s) /\ a \notin Final => NoFinish(Append(s, Frame(a)))
         /\ s \o <<Frame(a)>> = Append(s, Frame(a)) /\ <<Frame(a)>> # <<>>
         /\ s \o Frames(<<a, b>>) = Append(Append(s, Frame(a)), Frame(b))
         /\ Frames(<<a, b>>) # <<>>
  <1>0. s \in Seq(FrameType) /\ d \in Seq(Nat) BY DEF Carries
  <1>1. Frame(a) \in FrameType /\ Frame(a).chunks = <<>> /\ Frame(a).is = a
    BY <1>0, FramesBehind
  <1>2. Carries(Append(s, Frame(a)), d)
    <2>1. d \o <<>> = d BY <1>0
    <2>2. Carries(Append(s, Frame(a)), d \o Frame(a).chunks) BY <1>1, CarriesMore
    <2> QED BY <1>1, <2>1, <2>2
  <1>3. ASSUME NoFinish(s), a \notin Final PROVE NoFinish(Append(s, Frame(a)))
    <2>1. Frame(a).is \notin Final BY <1>1, <1>3
    <2> QED BY <1>0, <1>1, <1>3, <2>1, OneMore
  <1>4. /\ s \o <<Frame(a)>> = Append(s, Frame(a)) /\ <<Frame(a)>> # <<>>
        /\ s \o Frames(<<a, b>>) = Append(Append(s, Frame(a)), Frame(b))
        /\ Frames(<<a, b>>) # <<>>
    BY <1>0, FramesBehind
  <1> QED BY <1>2, <1>3, <1>4

\* Counting on.
LEMMA CountOn ==
  /\ CountTo(0) = <<>>
  /\ \A n \in Nat : Append(CountTo(n), n + 1) = CountTo(n + 1)
  <1>1. CountTo(0) = <<>> BY DEF CountTo
  <1>2. ASSUME NEW n \in Nat PROVE Append(CountTo(n), n + 1) = CountTo(n + 1)
    <2> DEFINE s == CountTo(n)
               g == Append(s, n + 1)
    <2>1. s \in Seq(Nat) /\ Len(s) = n /\ \A i \in 1..n : s[i] = i BY DEF CountTo
    <2> HIDE DEF s
    <2>2. g \in Seq(Nat) /\ Len(g) = n + 1 BY <2>1
    <2>3. \A i \in 1..(n + 1) : g[i] = i BY <2>1
    <2> HIDE DEF g
    <2>4. g = [i \in 1..(n + 1) |-> g[i]] BY <2>2
    <2>5. g = CountTo(n + 1) BY <2>3, <2>4 DEF CountTo
    <2> QED BY <2>5 DEF g, s
  <1> QED BY <1>1, <1>2

\* A write to a client that is there arrives.
LEMMA WritesHere ==
  ASSUME Types, wire = [d \in Turn |-> wire[d]], NEW c \in Turn, peer[c] = "here",
         NEW e \in Local, ~e.gone, NEW frames, Writes(c, frames, e)
  PROVE  /\ em'[c] = e /\ UNCHANGED service
         /\ wire'[c] = IF frames = <<>> THEN wire[c] ELSE wire[c] \o frames
  <1>1. With(c, e) /\ UNCHANGED service BY DEF Writes
  <1>2. em'[c] = e BY <1>1 DEF With, Types
  <1>3. \/ frames = <<>> /\ UNCHANGED wire
        \/ frames # <<>> /\ wire' = [wire EXCEPT ![c] = @ \o frames]
    BY DEF Writes
  <1> QED BY <1>1, <1>2, <1>3

\* So does a status.
LEMMA AnswersHere ==
  ASSUME wire = [d \in Turn |-> wire[d]], NEW c \in Turn, peer[c] = "here", NEW status,
         Answers(c, status)
  PROVE  wire'[c] = Append(wire[c], Frame(status))
  BY DEF Answers

\* One that has left is sent nothing, and nobody else's wire is written to.
LEMMA WireElsewhere ==
  ASSUME Types, wire = [d \in Turn |-> wire[d]], NEW c \in Turn, Handle(c)
  PROVE  /\ wire' = [d \in Turn |-> wire'[d]]
         /\ \A d \in Turn : d # c \/ peer[d] = "gone" => wire'[d] = wire[d]
  <1> DEFINE Reached == \/ wire' = wire
                        \/ peer[c] = "here" /\ \E w : wire' = [wire EXCEPT ![c] = w]
  <1>1. ASSUME NEW status, Answers(c, status) PROVE Reached
    BY <1>1 DEF Answers
  <1>2. ASSUME NEW e, NEW frames, Writes(c, frames, e) \/ Probes(c, e) PROVE Reached
    BY <1>2 DEF Writes, Probes
  <1>3. Reached
    <2>1. CASE \/ BadRequest(c) \/ HealthGate(c) \/ Enter(c) \/ Unfit(c) \/ Fault(c)
               \/ Generate(c) \/ Break(c) \/ Release(c)
      BY <1>1, <2>1
         DEF BadRequest, HealthGate, Enter, Unfit, Fault, Generate, Break, Release
    <2>2. CASE Headers(c) \/ Start(c) BY <1>2, <2>2 DEF Headers, Start
    <2>3. CASE Consume(c) BY <1>2, <2>3 DEF Consume
    <2>4. CASE Fail(c) \/ Finish(c) BY <1>1, <1>2, <2>4 DEF Fail, Finish
    <2>5. CASE Bill(c) BY <1>2, <2>5 DEF Bill
    <2> QED BY <2>1, <2>2, <2>3, <2>4, <2>5 DEF Handle
  <1> QED BY <1>3

\* A client that stays is done with: a finish it got was a whole one.
SettledFor(c) ==
  \/ NoFinish(wire[c])
  \/ /\ turn[c].told = "done" /\ Carries(wire[c], CountTo(said[c]))
     /\ turn[c].how = "cut" => stopping /\ ~turn[c].named

\* A frame without text that is no finish keeps what is settled so.
LEMMA SettledMore ==
  ASSUME NEW c \in Turn, SettledFor(c), NEW d, Carries(wire[c], d), NEW a \in FrameKind \ Final,
         UNCHANGED <<turn, said, stopping>>, wire'[c] = Append(wire[c], Frame(a))
  PROVE  SettledFor(c)'
  <1>1. CASE NoFinish(wire[c]) BY <1>1, FramesMore DEF SettledFor
  <1>2. CASE ~NoFinish(wire[c])
    <2>1. Carries(Append(wire[c], Frame(a)), CountTo(said[c]))
      BY <1>2, FramesMore DEF SettledFor
    <2> QED BY <1>2, <2>1 DEF SettledFor
  <1> QED BY <1>1, <1>2

\* Up to the generation nothing of the text is sent.
LEMMA SentBefore ==
  ASSUME Types, Course, Reasons, Sent, NEW c \in Turn, peer[c] = "here",
         \/ BadRequest(c) \/ HealthGate(c) \/ Enter(c) \/ Unfit(c) \/ Headers(c) \/ Start(c)
         \/ Generate(c)
  PROVE  SentOf(c)'
  <1>0. /\ pc[c] \in Early /\ peer' = peer /\ req' = req /\ em[c] \in Local /\ ~em[c].gone
        /\ SentOf(c) /\ wire = [d \in Turn |-> wire[d]] /\ Handle(c)
    BY DEF BadRequest, HealthGate, Enter, Unfit, Headers, Start, Generate, Early, Types, Sent,
           Reasons, ReasonOf, Handle
  <1>1. /\ em[c].chunks = <<>> /\ em[c].held = <<>>
        /\ NoFinish(wire[c]) /\ Carries(wire[c], <<>>)
    BY <1>0 DEF SentOf
  <1>2. CountTo(Len(<<>>)) = <<>> BY CountOn
  <1>3. ASSUME NEW p, To(c, p) PROVE pc'[c] = p
    BY <1>3 DEF To, Types
  <1>4. ASSUME em'[c].chunks = <<>>, em'[c].held = <<>>, NoFinish(wire'[c]),
               Carries(wire'[c], <<>>), pc'[c] \in Early \cup {"leaving", "served"}
        PROVE  SentOf(c)'
    BY <1>0, <1>2, <1>4 DEF SentOf, Early
  <1>5. ASSUME NEW a \in FrameKind \ Final
        PROVE  /\ NoFinish(Append(wire[c], Frame(a))) /\ Carries(Append(wire[c], Frame(a)), <<>>)
               /\ wire[c] \o <<Frame(a)>> = Append(wire[c], Frame(a)) /\ <<Frame(a)>> # <<>>
    BY <1>1, FramesMore
  <1>6. {"4xx", "503", "429", "200_SSE", "role", "message_start", "block_start"}
          \subseteq FrameKind \ Final
    BY DEF FrameKind, Statuses, Refusals, Bodies, Final
  <1>7. CASE BadRequest(c) \/ HealthGate(c) \/ Enter(c) \/ Unfit(c)
    <2>1. /\ em' = em /\ pc'[c] \in Early \cup {"leaving", "served"}
          /\ \/ wire'[c] = wire[c]
             \/ \E a \in {"4xx", "503", "429"} : wire'[c] = Append(wire[c], Frame(a))
      BY <1>0, <1>3, <1>7, AnswersHere DEF BadRequest, HealthGate, Enter, Unfit, Early
    <2> QED BY <1>1, <1>4, <1>5, <1>6, <2>1
  <1>8. CASE Headers(c)
    <2>1. pc'[c] \in Early BY <1>3, <1>8 DEF Headers, Early
    <2>2. CASE Writes(c, <<Frame("200_SSE")>>, em[c])
      <3>1. em'[c] = em[c] /\ wire'[c] = wire[c] \o <<Frame("200_SSE")>>
        BY <1>0, <2>2, WritesHere
      <3> QED BY <1>1, <1>4, <1>5, <1>6, <2>1, <3>1
    <2>3. CASE Probes(c, em[c])
      <3>1. em'[c] = em[c] /\ wire' = wire BY <2>3 DEF Probes, With, Types
      <3> QED BY <1>1, <1>4, <2>1, <3>1
    <2> QED BY <1>8, <2>2, <2>3 DEF Headers
  <1>9. CASE Start(c)
    <2>1. pc'[c] \in Early BY <1>3, <1>9 DEF Start, Early
    <2>2. /\ em'[c] = em[c]
          /\ wire'[c] = IF FirstFrames(c) = <<>> THEN wire[c] ELSE wire[c] \o FirstFrames(c)
      BY <1>0, <1>9, WritesHere DEF Start
    <2>3. \/ FirstFrames(c) = <<>>
          \/ \E a \in {"role", "message_start"} : FirstFrames(c) = <<Frame(a)>>
          \/ FirstFrames(c) = Frames(<<"message_start", "block_start">>)
      BY DEF FirstFrames
    <2>4. CASE FirstFrames(c) = <<>> BY <1>1, <1>4, <2>1, <2>2, <2>4
    <2>5. ASSUME NEW a \in {"role", "message_start"}, FirstFrames(c) = <<Frame(a)>>
          PROVE  SentOf(c)'
      <3>1. wire'[c] = Append(wire[c], Frame(a)) BY <1>5, <1>6, <2>2, <2>5
      <3> QED BY <1>1, <1>4, <1>5, <1>6, <2>1, <2>2, <3>1
    <2>6. CASE FirstFrames(c) = Frames(<<"message_start", "block_start">>)
      <3> DEFINE w == Append(wire[c], Frame("message_start"))
      <3>1. /\ "message_start" \in FrameKind \ Final /\ "block_start" \in FrameKind \ Final
        BY <1>6
      <3>2. NoFinish(w) /\ Carries(w, <<>>) BY <1>5, <3>1
      <3>3. /\ wire[c] \o Frames(<<"message_start", "block_start">>)
                 = Append(w, Frame("block_start"))
            /\ Frames(<<"message_start", "block_start">>) # <<>>
        <4>1. Carries(wire[c], <<>>) BY <1>1
        <4>2. "message_start" \in FrameKind /\ "block_start" \in FrameKind BY <3>1
        <4> QED BY <4>1, <4>2, FramesMore
      <3>4. wire'[c] = Append(w, Frame("block_start")) BY <2>2, <2>6, <3>3
      <3> HIDE DEF w
      <3>5. /\ Carries(Append(w, Frame("block_start")), <<>>)
            /\ NoFinish(Append(w, Frame("block_start")))
        BY <3>1, <3>2, FramesMore
      <3> QED BY <1>1, <1>4, <2>1, <2>2, <3>4, <3>5
    <2> QED BY <2>3, <2>4, <2>5, <2>6
  <1>10. CASE Generate(c)
    <2>1. pc'[c] = "generating" /\ em' = em /\ wire' = wire
      BY <1>0, <1>3, <1>10 DEF Generate, GivesUp
    <2>2. <<>> \o <<>> = <<>> OBVIOUS
    <2> QED BY <1>0, <1>1, <1>2, <2>1, <2>2 DEF SentOf, Early
  <1> QED BY <1>7, <1>8, <1>9, <1>10

\* The gate of the locals after one more chunk.
LEMMA LongerGate ==
  ASSUME Types, NEW c \in Turn, NEW open \in BOOLEAN, NEW back \in Seq(Nat)
  PROVE  Longer(c, open, back).open = open /\ Longer(c, open, back).held = back
  <1> DEFINE w == Append(em[c].chunks, Len(em[c].chunks) + 1)
             u == IF peer[c] = "gone" /\ ~Streams(c) THEN em[c].unheard + 1
                  ELSE em[c].unheard
             e2 == [[em[c] EXCEPT !.chunks = w] EXCEPT !.unheard = u]
             e3 == [e2 EXCEPT !.open = open]
             e4 == [e3 EXCEPT !.held = back]
  <1>1. em[c] \in Local /\ w \in Seq(Nat) /\ u \in Nat BY DEF Types, Local
  <1>2. Longer(c, open, back) = e4 BY <1>1 DEF Longer, Local
  <1>3. e2 \in Local
    <2> HIDE DEF w, u
    <2> QED BY <1>1 DEF Local
  <1>4. e4.open = open /\ e4.held = back
    <2> HIDE DEF e2
    <2> QED BY <1>3 DEF Local
  <1> HIDE DEF e4
  <1> QED BY <1>2, <1>4

\* A text that is not empty arrives at a client that is there.
LEMMA WritesText ==
  ASSUME Types, wire = [d \in Turn |-> wire[d]], NEW c \in Turn, peer[c] = "here",
         NEW e \in Local, ~e.gone, NEW w \in Seq(Nat), w # <<>>, Writes(c, Text(w), e)
  PROVE  em'[c] = e /\ wire'[c] = wire[c] \o Text(w)
  <1>1. Text(w) # <<>>
    <2>1. Len(<<[is |-> "text", chunks |-> w]>>) = 1 /\ Len(<<>>) = 0 OBVIOUS
    <2> QED BY <2>1 DEF Text
  <1> QED BY <1>1, WritesHere

\* Appending to the end of a concatenation, with nothing behind.
LEMMA AppendMore ==
  ASSUME NEW d \in Seq(Nat), NEW h \in Seq(Nat), NEW n \in Nat
  PROVE  /\ Append(d \o h, n) = d \o Append(h, n)
         /\ Append(d \o h, n) = (d \o Append(h, n)) \o <<>>
  <1> DEFINE f == Append(d \o h, n)
             g == d \o Append(h, n)
  <1>1. /\ Len(d) \in Nat /\ Len(h) \in Nat /\ d \o h \in Seq(Nat)
        /\ Len(d \o h) = Len(d) + Len(h) /\ Append(h, n) \in Seq(Nat)
        /\ Len(Append(h, n)) = Len(h) + 1
    OBVIOUS
  <1>2. f \in Seq(Nat) /\ g \in Seq(Nat) BY <1>1
  <1>3. Len(f) = Len(d) + Len(h) + 1 /\ Len(g) = Len(d) + Len(h) + 1 BY <1>1
  <1>4. ASSUME NEW i \in 1..(Len(d) + Len(h) + 1) PROVE f[i] = g[i]
    <2>1. CASE i \in 1..Len(d) BY <1>1, <2>1
    <2>2. CASE i \in (Len(d) + 1)..(Len(d) + Len(h))
      <3>1. f[i] = (d \o h)[i] /\ (d \o h)[i] = h[i - Len(d)] BY <1>1, <2>2
      <3>2. i - Len(d) \in 1..Len(h) /\ Append(h, n)[i - Len(d)] = h[i - Len(d)]
        BY <1>1, <2>2
      <3>3. g[i] = Append(h, n)[i - Len(d)] BY <1>1, <2>2
      <3> QED BY <3>1, <3>2, <3>3
    <2>3. CASE i = Len(d) + Len(h) + 1
      <3>1. f[i] = n BY <1>1, <2>3
      <3>2. g[i] = Append(h, n)[Len(h) + 1] BY <1>1, <2>3
      <3> QED BY <1>1, <3>1, <3>2
    <2> QED BY <1>1, <2>1, <2>2, <2>3
  <1> HIDE DEF f, g
  <1>5. f = g BY <1>1, <1>2, <1>3, <1>4
  <1>6. g \o <<>> = g BY <1>2
  <1> QED BY <1>5, <1>6 DEF f, g

\* Through the gate: a chunk goes out, behind what was held, or is held.
LEMMA SentConsume ==
  ASSUME Types, Course, Reasons, Sent, NEW c \in Turn, peer[c] = "here", Consume(c)
  PROVE  SentOf(c)'
  <1> DEFINE n == Len(em[c].chunks) + 1
             u == IF peer[c] = "gone" /\ ~Streams(c) THEN em[c].unheard + 1
                  ELSE em[c].unheard
             e == [em[c] EXCEPT !.chunks = Append(@, n), !.unheard = u]
             opened == [e EXCEPT !.open = TRUE, !.held = <<>>]
             held == [e EXCEPT !.held = Append(em[c].held, n)]
             L(open, back) == Longer(c, open, back)
  <1>0. /\ pc[c] = "generating" /\ pc' = pc /\ peer' = peer /\ req' = req /\ em[c] \in Local
        /\ ~em[c].gone /\ SentOf(c) /\ wire = [d \in Turn |-> wire[d]] /\ n \in Nat
    <2>1. em[c] \in Local /\ n \in Nat BY DEF Types, Local
    <2>2. SentOf(c) /\ wire = [d \in Turn |-> wire[d]] BY DEF Sent
    <2> QED BY <2>1, <2>2, ConsumeIsHeard
  <1>1. /\ em[c].chunks = CountTo(Len(em[c].chunks)) /\ NoFinish(wire[c])
        /\ em[c].open => em[c].held = <<>>
    BY <1>0 DEF SentOf
  <1>2. PICK d : /\ Carries(wire[c], d)
                 /\ IF Gated(c) THEN em[c].chunks = d \o em[c].held ELSE d = <<>>
    BY <1>0 DEF SentOf
  <1>3. /\ d \in Seq(Nat) /\ em[c].held \in Seq(Nat) /\ em[c].chunks \in Seq(Nat)
        /\ em[c].open \in BOOLEAN
    BY <1>0, <1>2 DEF Carries, Local
  <1>4. /\ e = L(em[c].open, em[c].held) /\ opened = L(TRUE, <<>>)
        /\ held = L(em[c].open, Append(em[c].held, n))
    BY <1>0 DEF Longer, Local
  <1>5. ASSUME NEW open \in BOOLEAN, NEW back \in Seq(Nat)
        PROVE  /\ L(open, back) \in Local /\ ~L(open, back).gone
               /\ L(open, back).chunks = Append(em[c].chunks, n)
               /\ L(open, back).open = open /\ L(open, back).held = back
    <2>1. L(open, back).open = open /\ L(open, back).held = back
      BY LongerGate
    <2> QED BY <1>0, <2>1, LongerFields
  <1>6. ASSUME NEW open \in BOOLEAN, NEW back \in Seq(Nat), em'[c] = L(open, back),
               open => back = <<>>, NoFinish(wire'[c]), NEW x, Carries(wire'[c], x),
               IF Gated(c) THEN Append(em[c].chunks, n) = x \o back ELSE x = <<>>
        PROVE  SentOf(c)'
    <2>1. /\ em'[c].chunks = Append(em[c].chunks, n) /\ em'[c].open = open
          /\ em'[c].held = back
      BY <1>5, <1>6
    <2>2. Len(Append(em[c].chunks, n)) = n BY <1>3
    <2>3. Append(em[c].chunks, n) = CountTo(n)
      <3>1. n - 1 \in Nat /\ Len(em[c].chunks) = n - 1 /\ (n - 1) + 1 = n BY <1>3
      <3>2. em[c].chunks = CountTo(n - 1) BY <1>1, <3>1
      <3> HIDE DEF n
      <3> QED BY <3>1, <3>2, CountOn
    <2>4. Gated(c)' = Gated(c) BY <1>0 DEF Gated
    <2> HIDE DEF n, L
    <2> QED BY <1>0, <1>6, <2>1, <2>2, <2>3, <2>4 DEF SentOf, Early
  <1>12. Append(em[c].held, n) \in Seq(Nat) /\ <<>> \in Seq(Nat) /\ TRUE \in BOOLEAN
         /\ <<n>> \in Seq(Nat) /\ <<n>> # <<>> /\ Append(em[c].held, n) # <<>>
    <2>1. n \in Nat /\ em[c].held \in Seq(Nat) BY <1>0, <1>3
    <2> HIDE DEF n
    <2>2. Len(Append(em[c].held, n)) # 0 /\ Len(<<n>>) # 0 /\ Len(<<>>) = 0 BY <2>1
    <2> QED BY <2>1, <2>2
  <1>13. /\ e \in Local /\ ~e.gone /\ opened \in Local /\ ~opened.gone
         /\ held \in Local /\ ~held.gone
    <2> HIDE DEF e, opened, held, L, n
    <2> QED BY <1>3, <1>4, <1>5, <1>12
  <1> HIDE DEF e, opened, held, L, n, u
  <1>7. ASSUME Gated(c), em[c].open, Writes(c, Text(<<n>>), e) PROVE SentOf(c)'
    <2>1. em'[c] = e /\ wire'[c] = wire[c] \o Text(<<n>>)
      BY <1>0, <1>7, <1>12, <1>13, WritesText
    <2>2. NoFinish(wire'[c]) /\ Carries(wire'[c], d \o <<n>>)
      BY <1>1, <1>2, <1>12, <2>1, TextMore
    <2>3. Append(em[c].chunks, n) = (d \o <<n>>) \o <<>> /\ em[c].held = <<>>
      <3>1. em[c].held = <<>> /\ em[c].chunks = d \o em[c].held BY <1>1, <1>2, <1>7
      <3>2. em[c].chunks = d BY <1>3, <3>1
      <3>3. Append(d, n) = (d \o <<n>>) \o <<>> BY <1>0, <1>3
      <3> QED BY <3>1, <3>2, <3>3
    <2> QED BY <1>3, <1>4, <1>6, <1>7, <2>1, <2>2, <2>3
  <1>8. ASSUME Gated(c), Writes(c, Text(Append(em[c].held, n)), opened) PROVE SentOf(c)'
    <2>1. em'[c] = opened /\ wire'[c] = wire[c] \o Text(Append(em[c].held, n))
      BY <1>0, <1>8, <1>12, <1>13, WritesText
    <2>2. NoFinish(wire'[c]) /\ Carries(wire'[c], d \o Append(em[c].held, n))
      BY <1>1, <1>2, <1>12, <2>1, TextMore
    <2>3. Append(em[c].chunks, n) = (d \o Append(em[c].held, n)) \o <<>>
      <3>1. em[c].chunks = d \o em[c].held BY <1>2, <1>8
      <3>2. Append(d \o em[c].held, n) = (d \o Append(em[c].held, n)) \o <<>>
        BY <1>0, <1>3, AppendMore
      <3> QED BY <3>1, <3>2
    <2> QED BY <1>4, <1>6, <1>8, <1>12, <2>1, <2>2, <2>3
  <1>9. ASSUME Gated(c), ~em[c].open,
               Probes(c, held) \/ (With(c, held) /\ UNCHANGED <<wire, service>>)
        PROVE  SentOf(c)'
    <2>1. em'[c] = held /\ wire' = wire BY <1>0, <1>9 DEF Probes, With, Types
    <2>2. Append(em[c].chunks, n) = d \o Append(em[c].held, n)
      <3>1. em[c].chunks = d \o em[c].held BY <1>2, <1>9
      <3>2. Append(d \o em[c].held, n) = d \o Append(em[c].held, n)
        BY <1>0, <1>3, AppendMore
      <3> QED BY <3>1, <3>2
    <2> QED BY <1>1, <1>2, <1>3, <1>4, <1>6, <1>9, <1>12, <2>1, <2>2
  <1>10. ASSUME ~Gated(c), Probes(c, e) \/ (With(c, e) /\ UNCHANGED <<wire, service>>)
         PROVE  SentOf(c)'
    <2>1. em'[c] = e /\ wire' = wire BY <1>0, <1>10 DEF Probes, With, Types
    <2> QED BY <1>1, <1>2, <1>3, <1>4, <1>6, <1>10, <2>1
  <1>11. \/ Gated(c) /\ em[c].open /\ Writes(c, Text(<<n>>), e)
         \/ Gated(c) /\ Writes(c, Text(Append(em[c].held, n)), opened)
         \/ /\ Gated(c) /\ ~em[c].open
            /\ Probes(c, held) \/ (With(c, held) /\ UNCHANGED <<wire, service>>)
         \/ ~Gated(c) /\ (Probes(c, e) \/ (With(c, e) /\ UNCHANGED <<wire, service>>))
    <2>1. e.held = em[c].held BY <1>0 DEF Local, e, n, u
    <2> QED BY <2>1 DEF Consume, e, opened, held, n, u
  <1> QED BY <1>7, <1>8, <1>9, <1>10, <1>11

\* A text is frames, and a frame behind it is a frame behind it.
LEMMA TextThenFrame ==
  ASSUME NEW s \in Seq(FrameType), NEW w \in Seq(Nat), NEW a \in FrameKind
  PROVE  /\ Text(w) \in Seq(FrameType) /\ Append(Text(w), Frame(a)) # <<>>
         /\ s \o Append(Text(w), Frame(a)) = Append(s \o Text(w), Frame(a))
  <1>1. Text(w) \in Seq(FrameType)
    <2>1. "text" \in FrameKind BY DEF FrameKind
    <2>2. CASE w = <<>>
      <3>1. <<>> \in Seq(FrameType) OBVIOUS
      <3> QED BY <2>2, <3>1 DEF Text
    <2>3. CASE w # <<>>
      <3> DEFINE fr == [is |-> "text", chunks |-> w]
      <3>1. fr \in FrameType BY <2>1 DEF FrameType
      <3>2. Text(w) = <<fr>> BY <2>3 DEF Text
      <3> HIDE DEF fr
      <3>3. <<fr>> \in Seq(FrameType) BY <3>1
      <3> QED BY <3>2, <3>3
    <2> QED BY <2>2, <2>3
  <1>2. Frame(a) \in FrameType
    <2>1. <<>> \in Seq(Nat) OBVIOUS
    <2> QED BY <2>1 DEF Frame, FrameType
  <1>3. ASSUME NEW t \in Seq(FrameType), NEW fr \in FrameType
        PROVE  Append(t, fr) # <<>> /\ s \o Append(t, fr) = Append(s \o t, fr)
    <2>1. s \o t \in Seq(FrameType) /\ <<fr>> \in Seq(FrameType) OBVIOUS
    <2>2. Append(t, fr) = t \o <<fr>> /\ Append(s \o t, fr) = (s \o t) \o <<fr>>
      BY <2>1, AppendIsConcat
    <2>3. (s \o t) \o <<fr>> = s \o (t \o <<fr>>) BY <2>1, ConcatAssociative
    <2>4. Append(t, fr) # <<>> BY AppendProperties
    <2> QED BY <2>2, <2>3, <2>4
  <1> QED BY <1>1, <1>2, <1>3

\* What is put together of three does not depend on the order.
LEMMA TwoBehind ==
  ASSUME NEW s \in Seq(FrameType), NEW t \in Seq(FrameType), NEW u \in Seq(FrameType),
         u # <<>>
  PROVE  (s \o t) \o u = s \o (t \o u) /\ t \o u # <<>>
  <1>1. (s \o t) \o u = s \o (t \o u) BY ConcatAssociative
  <1>2. t \o u = <<>> => u = <<>> BY ConcatSimplifications
  <1> QED BY <1>1, <1>2

\* Flushing closes nothing and leaves nothing held.
LEMMA FlushedGate ==
  ASSUME Types, NEW c \in Turn
  PROVE  Flushed(c).open = em[c].open /\ Flushed(c).held = <<>>
  <1>1. em[c] \in Local /\ <<>> \in Seq(Nat) BY DEF Types
  <1> QED BY <1>1 DEF Flushed, Local

\* Once the handler is on its way out, its client is settled, and so it stays.
LEMMA SentLeaving ==
  ASSUME Types, NEW c \in Turn, peer'[c] = "here", pc'[c] \in {"leaving", "served"},
         em'[c].chunks = CountTo(Len(em'[c].chunks)), em'[c].open => em'[c].held = <<>>,
         SettledFor(c)'
  PROVE  SentOf(c)'
  BY DEF SentOf, SettledFor, Early

\* A turn that failed is an error, whatever is held back before it.
LEMMA SentFail ==
  ASSUME Types, Course, Reasons, Sent, NEW c \in Turn, peer[c] = "here", Fail(c)
  PROVE  SentOf(c)'
  <1>0. /\ pc[c] = "generating" /\ peer' = peer /\ em[c] \in Local
        /\ ~em[c].gone /\ SentOf(c) /\ wire = [d \in Turn |-> wire[d]]
        /\ pc'[c] = "leaving"
    BY DEF Fail, Ended, Types, Sent, To
  <1>1. /\ em[c].chunks = CountTo(Len(em[c].chunks)) /\ NoFinish(wire[c])
        /\ em[c].open => em[c].held = <<>>
    BY <1>0 DEF SentOf
  <1>2. PICK d : Carries(wire[c], d) BY <1>0 DEF SentOf
  <1>3. ASSUME NoFinish(wire'[c]), em'[c] \in {em[c], Flushed(c)} PROVE SentOf(c)'
    <2>1. em'[c].chunks = em[c].chunks BY <1>3, FlushedFields
    <2>2. em'[c].open => em'[c].held = <<>> BY <1>1, <1>3, FlushedGate
    <2> QED BY <1>0, <1>1, <1>3, <2>1, <2>2, SentLeaving DEF SettledFor
  <1>4. CASE Streams(c)
    <2> DEFINE w == Text(em[c].held)
               last == Frames(<<"error", "end">>)
    <2>1. /\ em[c].held \in Seq(Nat) /\ {"error", "end"} \subseteq FrameKind \ Final
      BY <1>0 DEF Local, FrameKind, Final, Statuses, Refusals, Bodies
    <2>2. Carries(wire[c] \o w, d \o em[c].held) /\ NoFinish(wire[c] \o w)
      BY <1>1, <1>2, <2>1, TextMore
    <2>3. /\ (wire[c] \o w) \o last
               = Append(Append(wire[c] \o w, Frame("error")), Frame("end"))
          /\ NoFinish(Append(wire[c] \o w, Frame("error")))
          /\ Carries(Append(wire[c] \o w, Frame("error")), d \o em[c].held)
      <3> DEFINE s == wire[c] \o w
                 t == d \o em[c].held
      <3>1. Carries(s, t) /\ NoFinish(s) BY <2>2
      <3>2. "error" \in FrameKind \ Final /\ "end" \in FrameKind BY <2>1
      <3> HIDE DEF s, t, w
      <3>3. /\ s \o last = Append(Append(s, Frame("error")), Frame("end"))
            /\ NoFinish(Append(s, Frame("error"))) /\ Carries(Append(s, Frame("error")), t)
        BY <3>1, <3>2, FramesMore
      <3> QED BY <3>3 DEF s, t
    <2>4. NoFinish((wire[c] \o w) \o last)
      <3> DEFINE s == Append(wire[c] \o w, Frame("error"))
                 t == d \o em[c].held
      <3>1. Carries(s, t) /\ NoFinish(s) BY <2>3
      <3>2. "end" \in FrameKind \ Final BY <2>1
      <3> HIDE DEF s, t
      <3>3. NoFinish(Append(s, Frame("end"))) BY <3>1, <3>2, FramesMore
      <3> QED BY <2>3, <3>3 DEF s
    <2>5. w \in Seq(FrameType) /\ last \in Seq(FrameType) /\ last # <<>>
      <3>1. w \in Seq(FrameType) BY <1>2, <2>1, TextThenFrame DEF Carries
      <3>2. last = <<Frame("error"), Frame("end")>> BY FramesOfTwo
      <3>3. Frame("error") \in FrameType /\ Frame("end") \in FrameType
        <4>1. <<>> \in Seq(Nat) OBVIOUS
        <4> QED BY <2>1, <4>1 DEF Frame, FrameType
      <3> HIDE DEF last
      <3>4. <<Frame("error"), Frame("end")>> \in Seq(FrameType)
            /\ Len(<<Frame("error"), Frame("end")>>) = 2 /\ Len(<<>>) = 0
        BY <3>3
      <3> QED BY <3>1, <3>2, <3>4
    <2>6. wire[c] \in Seq(FrameType) BY <1>2 DEF Carries
    <2> HIDE DEF w, last
    <2>7. (wire[c] \o w) \o last = wire[c] \o (w \o last) /\ w \o last # <<>>
      BY <2>5, <2>6, TwoBehind, Zenon
    <2>8. Flushed(c) \in Local /\ ~Flushed(c).gone BY <1>0, FlushedFields
    <2>9. Writes(c, w \o last, Flushed(c)) BY <1>4 DEF Fail, w, last
    <2>10. em'[c] = Flushed(c) /\ wire'[c] = wire[c] \o (w \o last)
      BY <1>0, <2>7, <2>8, <2>9, WritesHere
    <2> QED BY <1>3, <2>4, <2>7, <2>10
  <1>5. CASE ~Streams(c)
    <2>1. PICK a \in {"500", "503_or_500"} : wire'[c] = Append(wire[c], Frame(a))
      BY <1>0, <1>5, AnswersHere DEF Fail
    <2>2. em' = em BY <1>5 DEF Fail
    <2>3. a \in FrameKind /\ a \notin Final BY DEF FrameKind, Final, Statuses, Refusals, Bodies
    <2>4. NoFinish(wire'[c]) BY <1>1, <1>2, <2>1, <2>3, FramesMore
    <2> QED BY <1>3, <2>2, <2>4
  <1> QED BY <1>4, <1>5

\* A turn that is done is finished with everything it said, in one piece or
\* with what was held back.
LEMMA SentFinish ==
  ASSUME Types, Course, Reasons, Sent, NEW c \in Turn, peer[c] = "here", Finish(c)
  PROVE  SentOf(c)'
  <1>0. /\ pc[c] = "generating" /\ peer' = peer /\ req' = req /\ said' = said
        /\ em[c] \in Local /\ req[c] \in Request
        /\ ~em[c].gone /\ SentOf(c) /\ wire = [d \in Turn |-> wire[d]]
        /\ pc'[c] = "billing" /\ Len(em[c].chunks) = said[c] /\ turn[c].told # "none"
        /\ turn[c] \in TurnType /\ ReasonOf(c) /\ CourseOf(c) /\ said[c] \in Nat
    BY ServerAssumption DEF Finish, Ended, Types, Sent, To, Reasons, Course
  <1>1. /\ em[c].chunks = CountTo(said[c]) /\ NoFinish(wire[c])
        /\ em[c].open => em[c].held = <<>>
    BY <1>0 DEF SentOf
  <1>2. PICK d : /\ Carries(wire[c], d)
                 /\ IF Gated(c) THEN em[c].chunks = d \o em[c].held ELSE d = <<>>
    BY <1>0 DEF SentOf
  <1>3. turn[c].told = "done" /\ (turn[c].how = "cut" => stopping /\ ~turn[c].named)
    <2>1. turn[c].told \notin {"error", "closing", "cut"} BY DEF Finish, Bad
    <2>2. turn[c].told = "done" BY <1>0, <2>1 DEF TurnType, CourseOf
    <2>3. ASSUME turn[c].how = "cut" PROVE stopping /\ ~turn[c].named
      BY <1>0, <2>2, <2>3 DEF ReasonOf
    <2> QED BY <2>2, <2>3
  <1>4. ASSUME UNCHANGED <<turn, stopping>>, em'[c] \in {em[c], Flushed(c)},
               IF Streams(c) THEN Carries(wire'[c], CountTo(said[c])) ELSE wire'[c] = wire[c]
        PROVE  SentOf(c)'
    <2>1. em'[c].chunks = em[c].chunks BY <1>4, FlushedFields
    <2>2. em'[c].open => em'[c].held = <<>> BY <1>1, <1>4, FlushedGate
    <2>3. Streams(c)' = Streams(c) BY <1>0 DEF Streams
    <2>4. ~Streams(c) => Carries(wire'[c], <<>>)
      BY <1>2, <1>4 DEF Gated, Streams
    <2>5. /\ em'[c].chunks = CountTo(Len(em'[c].chunks)) /\ Len(em'[c].chunks) = said'[c]
          /\ pc'[c] \notin Early /\ pc'[c] # "generating" /\ peer'[c] = "here"
      BY <1>0, <1>1, <2>1 DEF Early
    <2>6. IF Streams(c)' THEN Carries(wire'[c], CountTo(said'[c]))
          ELSE NoFinish(wire'[c]) /\ Carries(wire'[c], <<>>)
      <3>1. CASE Streams(c) BY <1>0, <1>4, <2>3, <3>1
      <3>2. CASE ~Streams(c) BY <1>1, <1>4, <2>3, <2>4, <3>2
      <3> QED BY <3>1, <3>2
    <2>7. SettledFor(c)'
      BY <1>0, <1>3, <1>4, <2>3, <2>6 DEF SettledFor
    <2> QED BY <2>2, <2>5, <2>6, <2>7 DEF SentOf, SettledFor
  <1>5. CASE ~Streams(c)
    BY <1>0, <1>4, <1>5 DEF Finish, service
  <1>6. CASE Streams(c)
    <2> DEFINE x == IF req[c].tools THEN em[c].chunks ELSE em[c].held
               last == IF req[c].api = "openai" THEN "finish" ELSE "block_stop"
    <2>1. x \in Seq(Nat) /\ last \in FrameKind BY <1>0 DEF Local, FrameKind
    <2>2. Carries(wire[c] \o Text(x), CountTo(said[c]))
      <3>1. d \o x = CountTo(said[c])
        <4>1. CASE req[c].tools
          <5>1. d = <<>> /\ x = CountTo(said[c]) BY <1>1, <1>2, <4>1 DEF Gated
          <5>2. <<>> \o x = x BY <2>1
          <5> QED BY <5>1, <5>2
        <4>2. CASE ~req[c].tools
          BY <1>1, <1>2, <1>6, <4>2 DEF Gated, Streams
        <4> QED BY <4>1, <4>2
      <3>2. Carries(wire[c] \o Text(x), d \o x) BY <1>2, <2>1, TextMore
      <3> QED BY <3>1, <3>2
    <2>3. Carries(Append(wire[c] \o Text(x), Frame(last)), CountTo(said[c]))
      <3> HIDE DEF x, last
      <3> QED BY <2>1, <2>2, FramesMore
    <2>4. /\ Append(Text(x), Frame(last)) # <<>>
          /\ wire[c] \o Append(Text(x), Frame(last)) = Append(wire[c] \o Text(x), Frame(last))
      <3>1. wire[c] \in Seq(FrameType) BY <1>2 DEF Carries
      <3> HIDE DEF x, last
      <3> QED BY <2>1, <3>1, TextThenFrame
    <2>5. Flushed(c) \in Local /\ ~Flushed(c).gone BY <1>0, FlushedFields
    <2>6. Text(x) = IF req[c].tools THEN Text(em[c].chunks) ELSE Text(em[c].held)
      OBVIOUS
    <2>7. \/ Writes(c, Append(Text(x), Frame(last)), Flushed(c))
          \/ Writes(c, Text(x), Flushed(c))
      <3>1. CASE req[c].api = "openai" BY <1>6, <2>6, <3>1 DEF Finish
      <3>2. CASE req[c].api # "openai" /\ req[c].tools BY <1>6, <2>6, <3>2 DEF Finish
      <3>3. CASE req[c].api # "openai" /\ ~req[c].tools BY <1>6, <2>6, <3>3 DEF Finish
      <3> QED BY <3>1, <3>2, <3>3
    <2> HIDE DEF x, last
    <2>8. CASE Writes(c, Append(Text(x), Frame(last)), Flushed(c))
      <3>1. /\ em'[c] = Flushed(c) /\ UNCHANGED service
            /\ wire'[c] = wire[c] \o Append(Text(x), Frame(last))
        <4> DEFINE frames == Append(Text(x), Frame(last))
        <4>1. wire = [b \in Turn |-> wire[b]] BY <1>0
        <4>2. frames # <<>> /\ Writes(c, frames, Flushed(c)) BY <2>4, <2>8
        <4> HIDE DEF frames
        <4>3. /\ em'[c] = Flushed(c) /\ UNCHANGED service
              /\ wire'[c] = wire[c] \o frames
          BY <2>5, <4>1, <4>2, WritesHere
        <4> QED BY <4>3 DEF frames
      <3>2. UNCHANGED <<turn, stopping>> BY <3>1 DEF service
      <3>3. Carries(wire'[c], CountTo(said[c])) BY <2>3, <2>4, <3>1
      <3> QED BY <1>4, <1>6, <3>1, <3>2, <3>3
    <2>9. CASE Writes(c, Text(x), Flushed(c))
      <3>1. /\ em'[c] = Flushed(c) /\ UNCHANGED service
            /\ wire'[c] = IF Text(x) = <<>> THEN wire[c] ELSE wire[c] \o Text(x)
        BY <1>0, <2>5, <2>9, WritesHere
      <3>2. wire[c] \o <<>> = wire[c] BY <1>2 DEF Carries
      <3>3. wire'[c] = wire[c] \o Text(x) BY <3>1, <3>2
      <3> QED BY <1>4, <1>6, <2>2, <3>1, <3>3 DEF service
    <2> QED BY <2>7, <2>8, <2>9
  <1> QED BY <1>5, <1>6

\* What is left to send once the turn is done carries no text, and a body
\* carries all of it.
LEMMA SentBill ==
  ASSUME Types, Course, Reasons, Sent, NEW c \in Turn, peer[c] = "here",
         Bill(c)
  PROVE  SentOf(c)'
  <1>0. /\ pc[c] = "billing" /\ peer' = peer /\ req' = req /\ said' = said
        /\ em[c] \in Local /\ ~em[c].gone /\ SentOf(c) /\ wire = [d \in Turn |-> wire[d]]
        /\ pc'[c] = "leaving" /\ turn[c] \in TurnType /\ ReasonOf(c) /\ CourseOf(c)
        /\ said[c] \in Nat
    BY ServerAssumption DEF Bill, Types, Sent, To, Reasons, Course, ReasonOf
  <1>1. /\ em[c].chunks = CountTo(said[c])
        /\ em[c].open => em[c].held = <<>>
        /\ IF Streams(c) THEN Carries(wire[c], CountTo(said[c]))
           ELSE NoFinish(wire[c]) /\ Carries(wire[c], <<>>)
        /\ SettledFor(c)
    BY <1>0 DEF SentOf, SettledFor
  <1>2. turn[c].told = "done" /\ (turn[c].how = "cut" => stopping /\ ~turn[c].named)
    BY <1>0 DEF CourseOf, ReasonOf, TurnType
  <1>3. ASSUME em'[c] = em[c], SettledFor(c)' PROVE SentOf(c)'
    BY <1>0, <1>1, <1>3, SentLeaving DEF SentOf
  <1>4. ASSUME em'[c] = em[c], UNCHANGED <<turn, stopping>>,
               Carries(wire'[c], CountTo(said[c]))
        PROVE  SentOf(c)'
    <2>1. /\ turn'[c].told = "done" /\ Carries(wire'[c], CountTo(said'[c]))
          /\ turn'[c].how = "cut" => stopping' /\ ~turn'[c].named
      BY <1>0, <1>2, <1>4
    <2>2. SettledFor(c)' BY <2>1 DEF SettledFor
    <2> QED BY <1>3, <1>4, <2>2
  <1>6. CASE Bill(c) /\ Streams(c)
    <2>1. Writes(c, LastFrames(c), em[c]) BY <1>6 DEF Bill
    <2>2. /\ em'[c] = em[c] /\ UNCHANGED <<turn, stopping>>
          /\ wire'[c] = IF LastFrames(c) = <<>> THEN wire[c] ELSE wire[c] \o LastFrames(c)
      BY <1>0, <2>1, WritesHere DEF service
    <2>3. {"finish", "end", "usage"} \subseteq FrameKind BY DEF FrameKind
    <2>4. Carries(wire[c], CountTo(said[c])) BY <1>1, <1>6
    <2>5. ASSUME NEW s, Carries(s, CountTo(said[c])), NEW a \in FrameKind
          PROVE  /\ Carries(Append(s, Frame(a)), CountTo(said[c]))
                 /\ s \o <<Frame(a)>> = Append(s, Frame(a)) /\ <<Frame(a)>> # <<>>
                 /\ s \o Frames(<<a, "end">>) = Append(Append(s, Frame(a)), Frame("end"))
                 /\ Frames(<<a, "end">>) # <<>>
      BY <2>3, <2>5, FramesMore
    <2>6. CASE LastFrames(c) = <<Frame("end")>>
      <3>1. wire'[c] = Append(wire[c], Frame("end")) BY <2>2, <2>3, <2>6, <2>4, <2>5
      <3> QED BY <1>4, <2>2, <2>3, <2>4, <2>5, <3>1
    <2>7. ASSUME NEW a \in {"finish", "usage"}, LastFrames(c) = Frames(<<a, "end">>)
          PROVE  SentOf(c)'
      <3>1. Carries(Append(wire[c], Frame(a)), CountTo(said[c])) BY <2>3, <2>4, <2>5
      <3>2. wire'[c] = Append(Append(wire[c], Frame(a)), Frame("end"))
        <4>1. /\ wire[c] \o Frames(<<a, "end">>) = Append(Append(wire[c], Frame(a)), Frame("end"))
              /\ Frames(<<a, "end">>) # <<>>
          BY <2>3, <2>4, <2>5
        <4> QED BY <2>2, <2>7, <4>1
      <3>3. Carries(Append(Append(wire[c], Frame(a)), Frame("end")), CountTo(said[c]))
        BY <2>3, <2>5, <3>1
      <3> QED BY <1>4, <2>2, <3>2, <3>3
    <2> QED BY <2>6, <2>7 DEF LastFrames
  <1>7. CASE Bill(c) /\ ~Streams(c)
    <2> DEFINE fr == [is |-> "200", chunks |-> em[c].chunks]
    <2>1. em' = em /\ UNCHANGED <<turn, stopping>> BY <1>7 DEF Bill, service
    <2>2. fr \in FrameType /\ fr.chunks = em[c].chunks
      BY <1>0 DEF FrameType, FrameKind, Statuses, Refusals, Bodies, Local
    <2>3. wire'[c] = wire[c] \o <<fr>> BY <1>0, <1>7 DEF Bill
    <2>4. wire[c] \in Seq(FrameType) /\ Carries(wire[c], <<>>) BY <1>1, <1>7 DEF Carries
    <2>5. Carries(Append(wire[c], fr), <<>> \o fr.chunks)
      <3> HIDE DEF fr
      <3> QED BY <2>2, <2>4, CarriesMore
    <2>6. wire[c] \o <<fr>> = Append(wire[c], fr)
      <3> HIDE DEF fr
      <3> QED BY <2>2, <2>4, AppendIsConcat
    <2>7. <<>> \o em[c].chunks = CountTo(said[c])
      <3>1. em[c].chunks \in Seq(Nat) BY <1>0 DEF Local
      <3>2. \A s \in Seq(Nat) : <<>> \o s = s BY ConcatEmptySeq
      <3> QED BY <1>1, <3>1, <3>2
    <2> HIDE DEF fr
    <2>8. Carries(wire'[c], CountTo(said[c])) BY <2>2, <2>3, <2>5, <2>6, <2>7
    <2> QED BY <1>4, <2>1, <2>8
  <1> QED BY <1>6, <1>7

\* Wherever it breaks down, what goes out carries no text and is no finish.
LEMMA SentFault ==
  ASSUME Types, Course, Reasons, Sent, NEW c \in Turn, peer[c] = "here", Fault(c)
  PROVE  SentOf(c)'
  <1>0. /\ SentOf(c) /\ wire = [d \in Turn |-> wire[d]]
        /\ pc'[c] = "leaving" /\ UNCHANGED <<service, req, peer, em, said, permits>>
        /\ pc[c] \in {"sizing", "opening", "generating", "billing"}
    BY FaultMoves DEF Sent
  <1>1. /\ em[c].chunks = CountTo(Len(em[c].chunks))
        /\ em[c].open => em[c].held = <<>>
        /\ SettledFor(c) /\ \E d : Carries(wire[c], d)
    BY <1>0 DEF SentOf, SettledFor, Early
  <1>2. PICK a \in {"4xx", "500", "closed"} : Answers(c, a)
    BY FaultMoves DEF Failure
  <1>3. a \in FrameKind \ Final BY DEF FrameKind, Final, Statuses, Refusals, Bodies
  <1>4. wire'[c] = Append(wire[c], Frame(a)) BY <1>0, <1>2, AnswersHere
  <1>5. UNCHANGED <<turn, said, stopping>> BY <1>0 DEF service
  <1>6. SettledFor(c)' BY <1>1, <1>3, <1>4, <1>5, SettledMore
  <1>7. em'[c] = em[c] /\ peer'[c] = "here" BY <1>0
  <1> QED BY <1>0, <1>1, <1>6, <1>7, SentLeaving

\* A handler's step, seen at a client that stays.
LEMMA SentOfHandler ==
  ASSUME Types, Course, Reasons, Sent, NEW c \in Turn, peer[c] = "here", Handle(c)
  PROVE  SentOf(c)'
  <1>0. SentOf(c) /\ wire = [d \in Turn |-> wire[d]] /\ ReasonOf(c) /\ peer' = peer
        /\ em[c] \in Local
    BY HandlerMoves DEF Sent, Reasons, Types
  <1>1. CASE \/ BadRequest(c) \/ HealthGate(c) \/ Enter(c) \/ Unfit(c) \/ Headers(c)
             \/ Start(c) \/ Generate(c)
    BY <1>1, SentBefore
  <1>2. CASE Consume(c) BY <1>2, SentConsume
  <1>3. CASE Break(c) BY <1>0, <1>3 DEF Break, ReasonOf
  <1>4. CASE Fail(c) BY <1>4, SentFail
  <1>5. CASE Finish(c) BY <1>5, SentFinish
  <1>6. CASE Bill(c) \/ Fault(c) BY <1>6, SentBill, SentFault
  <1>7. CASE Release(c)
    <2>1. pc[c] = "leaving" /\ pc'[c] = "served" /\ em'[c] = Fresh
          /\ UNCHANGED <<turn, stopping, said, wire>>
      BY <1>7 DEF Release, To, With, Types, service
    <2>2. Fresh.chunks = <<>> /\ Fresh.held = <<>> BY DEF Fresh
    <2>3. Fresh.chunks = CountTo(Len(Fresh.chunks)) BY <2>2, CountOn
    <2>4. SettledFor(c) BY <1>0 DEF SentOf, SettledFor
    <2>5. SettledFor(c)' BY <2>1, <2>4 DEF SettledFor
    <2> QED BY <1>0, <2>1, <2>2, <2>3, <2>5, SentLeaving
  <1> QED BY <1>1, <1>2, <1>3, <1>4, <1>5, <1>6, <1>7 DEF Handle

\* What a client has been sent stays true of it while its handler does
\* nothing, whatever becomes of its turn short of being told once more.
LEMMA SentStays ==
  ASSUME Types, Course, Sent, NEW d \in Turn,
         peer'[d] = peer[d], wire'[d] = wire[d], req' = req, pc'[d] = pc[d],
         em'[d].chunks = em[d].chunks, em'[d].held = em[d].held, em'[d].open = em[d].open,
         \/ said'[d] = said[d] /\ (stopping => stopping')
              /\ (turn'[d] = turn[d] \/ turn[d].told = "none")
         \/ turn[d].told = "none"
  PROVE  SentOf(d)'
  <1>0. SentOf(d) /\ CourseOf(d) BY DEF Sent, Course
  <1>1. CASE peer[d] = "gone" BY <1>0, <1>1 DEF SentOf
  <1>2. CASE peer[d] # "gone"
    <2>1. SettledFor(d) BY <1>0, <1>2 DEF SentOf, SettledFor
    <2>2. turn[d].told = "none" => NoFinish(wire[d]) BY <2>1 DEF SettledFor
    <2>3. SettledFor(d)'
      <3>1. CASE NoFinish(wire[d]) BY <3>1 DEF SettledFor
      <3>2. CASE ~NoFinish(wire[d])
        <4>1. /\ said'[d] = said[d] /\ (stopping => stopping') /\ turn'[d] = turn[d]
          BY <2>2, <3>2
        <4> QED BY <2>1, <4>1 DEF SettledFor
      <3> QED BY <3>1, <3>2
    <2>4. pc[d] = "billing" => said'[d] = said[d]
      BY <1>0 DEF CourseOf
    <2>5. Gated(d)' = Gated(d) /\ Streams(d)' = Streams(d) BY DEF Gated, Streams
    <2> QED BY <1>0, <1>2, <2>3, <2>4, <2>5 DEF SentOf, SettledFor
  <1> QED BY <1>1, <1>2

\* A step changes what one client has been sent, and keeps it true of all.
LEMMA SentStep == Types /\ Course /\ Reasons /\ Sent /\ [Next]_vars => Sent'
  <1> SUFFICES ASSUME Types, Course, Reasons, Sent, [Next]_vars
               PROVE  wire' = [c \in Turn |-> wire'[c]] /\ \A d \in Turn : SentOf(d)'
    BY DEF Sent
  <1>0. /\ wire = [c \in Turn |-> wire[c]] /\ \A d \in Turn : SentOf(d) /\ em[d] \in Local
        /\ \A d \in Turn : CourseOf(d) /\ turn[d] \in TurnType
    BY DEF Sent, Course, Types
  <1>1. ASSUME NEW c \in Turn, Handle(c)
        PROVE  wire' = [d \in Turn |-> wire'[d]] /\ \A d \in Turn : SentOf(d)'
    <2>1. wire' = [d \in Turn |-> wire'[d]] BY <1>0, <1>1, WireElsewhere
    <2>2. ASSUME NEW d \in Turn PROVE SentOf(d)'
      <3>1. CASE d # c
        <4>1. /\ em'[d] = em[d] /\ pc'[d] = pc[d] /\ turn'[d] = turn[d]
              /\ UNCHANGED <<peer, req, said, stopping>>
          BY <1>1, <3>1, HandlerMoves DEF Types
        <4>2. wire'[d] = wire[d] BY <1>0, <1>1, <3>1, WireElsewhere
        <4> QED BY <4>1, <4>2, SentStays
      <3>2. CASE d = c /\ peer[c] = "gone"
        <4>1. peer' = peer /\ wire'[c] = wire[c] BY <1>0, <1>1, <3>2, HandlerMoves, WireElsewhere
        <4> QED BY <1>0, <3>2, <4>1 DEF SentOf
      <3>3. CASE d = c /\ peer[c] = "here" BY <1>1, <3>3, SentOfHandler
      <3> QED BY <3>1, <3>2, <3>3 DEF Types
    <2> QED BY <2>1, <2>2
  <1>2. ASSUME NEW c \in Turn, CountStarts(c) \/ CountEnds(c)
        PROVE  wire' = wire /\ \A d \in Turn : SentOf(d)'
    <2>1. PICK b \in BOOLEAN : em' = [em EXCEPT ![c] = [em[c] EXCEPT !.counting = b]]
      BY <1>2 DEF CountStarts, CountEnds, With
    <2>2. UNCHANGED <<req, peer, pc, said, wire, turn, stopping>>
      BY <1>2 DEF CountStarts, CountEnds, Borrow, Return
    <2>3. ASSUME NEW d \in Turn
          PROVE  /\ em'[d].chunks = em[d].chunks /\ em'[d].held = em[d].held
                 /\ em'[d].open = em[d].open
      BY <1>0, <2>1 DEF Local, Types
    <2> QED BY <2>2, <2>3, SentStays
  <1>3. ASSUME NEW c \in Turn, Say(c) PROVE wire' = wire /\ \A d \in Turn : SentOf(d)'
    <2>1. /\ UNCHANGED <<req, peer, pc, em, wire, turn, stopping>> /\ turn[c].told = "none"
          /\ \A d \in Turn : d # c => said'[d] = said[d]
      BY <1>0, <1>3 DEF Say, service, CourseOf, Types
    <2> QED BY <2>1, SentStays
  <1>4. ASSUME NEW c \in Turn,
               Engine(c) \/ Bark(c)
                 \/ (Abort(c, turn[c].named) /\ UNCHANGED handlers)
        PROVE  wire' = wire /\ \A d \in Turn : SentOf(d)'
    <2>1. /\ Take(c) \/ Give(c) \/ Refuse(c) \/ Tell(c) \/ \E named \in BOOLEAN : Abort(c, named)
          /\ UNCHANGED <<pc, em, peer, req, wire, said>>
      BY <1>0, <1>4 DEF Engine, Bark, TurnType, handlers
    <2>2. turn[c].told = "none"
      BY <1>0, <2>1 DEF Take, Give, Refuse, Tell, Abort, CourseOf, Live
    <2>3. /\ stopping' = stopping /\ \A d \in Turn : d # c => turn'[d] = turn[d]
      BY <2>1, EngineMoves DEF Types
    <2> QED BY <2>1, <2>2, <2>3, SentStays
  <1>5. CASE Stop /\ UNCHANGED handlers
    <2>1. UNCHANGED <<pc, em, peer, req, wire, said>> /\ stopping'
      BY <1>5 DEF handlers, Stop
    <2>2. ASSUME NEW d \in Turn PROVE turn'[d] = turn[d] \/ turn[d].told = "none"
      <3>1. CASE \E t \in Turn : turn[t].at = "running" /\ Becomes(t, [turn[t] EXCEPT !.named = TRUE])
        BY <1>0, <3>1 DEF Becomes, CourseOf, Types
      <3> QED BY <1>5, <3>1 DEF Stop
    <2>3. ASSUME NEW d \in Turn PROVE SentOf(d)'
      <3>1. turn'[d] = turn[d] \/ turn[d].told = "none" BY <2>2
      <3>2. /\ peer'[d] = peer[d] /\ wire'[d] = wire[d] /\ pc'[d] = pc[d] /\ em'[d] = em[d]
            /\ said'[d] = said[d] /\ req' = req /\ stopping'
        BY <2>1
      <3> QED BY <3>1, <3>2, SentStays
    <2> QED BY <1>0, <2>1, <2>3
  <1>6. ASSUME NEW c \in Turn, Depart(c)
        PROVE  wire' = [d \in Turn |-> wire'[d]] /\ \A d \in Turn : SentOf(d)'
    <2>1. /\ UNCHANGED <<turn, stopping, req, pc, em, said>>
          /\ wire' = [wire EXCEPT ![c] = <<>>] /\ peer' = [peer EXCEPT ![c] = "gone"]
      BY <1>6 DEF Depart, service
    <2>2. wire' = [d \in Turn |-> wire'[d]] BY <1>0, <2>1
    <2>3. ASSUME NEW d \in Turn, d # c PROVE SentOf(d)'
      <3>1. peer'[d] = peer[d] /\ wire'[d] = wire[d] BY <1>0, <2>1, <2>3 DEF Types
      <3> QED BY <2>1, <3>1, SentStays
    <2>4. SentOf(c)'
      <3>1. peer'[c] = "gone" /\ wire'[c] = <<>> BY <1>0, <2>1 DEF Types
      <3> QED BY <3>1 DEF SentOf
    <2> QED BY <2>2, <2>3, <2>4
  <1>7. CASE UNCHANGED vars
    <2>1. UNCHANGED <<req, peer, pc, em, said, wire, turn, stopping>>
      BY <1>7 DEF vars, handlers, service
    <2>2. \A d \in Turn : SentOf(d)' BY <2>1, SentStays
    <2> QED BY <1>0, <2>1, <2>2
  <1>8. CASE Next
    BY <1>0, <1>1, <1>2, <1>3, <1>4, <1>5, <1>6, <1>7, <1>8 DEF Next, Shutdown, Rest
  <1> QED BY <1>7, <1>8

\* Nothing is sent and nothing is cut in the beginning.
LEMMA SentInit == Init => Reasons /\ Sent
  <1> SUFFICES ASSUME Init, NEW c \in Turn
               PROVE  ReasonOf(c) /\ SentOf(c) /\ wire = [d \in Turn |-> wire[d]]
    <2>1. Init => wire = [d \in Turn |-> wire[d]] BY DEF Init
    <2> QED BY <2>1 DEF Reasons, Sent
  <1>1. /\ turn[c] = Unasked /\ peer[c] = "here" /\ pc[c] = "door" /\ em[c] = Fresh
        /\ wire[c] = <<>> /\ wire = [d \in Turn |-> wire[d]]
    BY DEF Init
  <1>2. /\ ~Fresh.gone /\ ~Fresh.open /\ Fresh.chunks = <<>> /\ Fresh.held = <<>>
        /\ ~Unasked.aborted /\ Unasked.how = "none" /\ Unasked.told = "none"
    BY DEF Fresh, Unasked
  <1>3. ReasonOf(c) BY <1>1, <1>2 DEF ReasonOf
  <1>4. NoFinish(<<>>) BY DEF NoFinish
  <1>5. Fresh.chunks = CountTo(Len(Fresh.chunks)) BY <1>2, CountOn
  <1>6. SentOf(c) BY <1>1, <1>2, <1>4, <1>5, CarriesNothing DEF SentOf
  <1> QED BY <1>1, <1>3, <1>6

\* A finish is sent for a turn that was done, with everything it said, each
\* chunk once and in order, whichever way it went; a turn that was cut by the
\* watchdog, or by shutdown having marked it, is never a finish.
THEOREM FinishesAreWholeHolds == Spec => []FinishesAreWhole
  <1>1. Init => Reasons /\ Sent BY SentInit
  <1>2. (Types /\ Course) /\ (Reasons /\ Sent) /\ [Next]_vars => (Reasons /\ Sent)'
    BY ReasonsStep, SentStep
  <1>3. Sent => FinishesAreWhole
    <2> SUFFICES ASSUME Sent, NEW c \in Turn, NEW i \in DOMAIN wire[c],
                        wire[c][i].is \in {"finish", "200"}
                 PROVE  /\ turn[c].told = "done"
                        /\ Delivered(c) = [n \in 1..said[c] |-> n]
                        /\ turn[c].how = "cut" => stopping /\ ~turn[c].named
      BY DEF FinishesAreWhole
    <2>1. SentOf(c) BY DEF Sent
    <2>2. ~NoFinish(wire[c]) BY DEF NoFinish, Final
    <2>3. peer[c] # "gone" BY <2>1 DEF SentOf
    <2>4. /\ turn[c].told = "done" /\ Carries(wire[c], CountTo(said[c]))
          /\ (turn[c].how = "cut" => stopping /\ ~turn[c].named)
      BY <2>1, <2>2, <2>3 DEF SentOf
    <2>5. Delivered(c) = CountTo(said[c]) BY <2>4, DeliveredIsCarried
    <2> QED BY <2>4, <2>5 DEF CountTo
  <1> QED BY <1>1, <1>2, <1>3, CourseInvariant, PTL DEF Spec

-----------------------------------------------------------------------------
(***************************************************************************)
(* OneAnswer.  What a client has been shown is again a recursion over its  *)
(* wire, whose solution is carried along; what it is follows from where    *)
(* its handler is.                                                         *)
(***************************************************************************)
More(f, fr) == IF fr.is = "text" THEN f ELSE Append(f, fr.is)
Keeps(k, s) == k = [i \in 0..Len(s) |-> IF i = 0 THEN <<>> ELSE More(k[i - 1], s[i])]

Shows(s, f) ==
  /\ s \in Seq(FrameType) /\ f \in Seq(FrameKind)
  /\ \E k : Keeps(k, s)
  /\ \A k : Keeps(k, s) => k[Len(s)] = f

\* Shown is what the wire shows.
LEMMA ShownIsShows ==
  ASSUME NEW c \in Turn, NEW f, Shows(wire[c], f)
  PROVE  Shown(c) = f
  <1> DEFINE F == CHOOSE k : Keeps(k, wire[c])
  <1>1. Keeps(F, wire[c]) BY DEF Shows
  <1>2. Shown(c) = F[Len(wire[c])] BY DEF Shown, Keeps, More
  <1> QED BY <1>1, <1>2 DEF Shows

\* No frames show nothing.
LEMMA ShowsNothing == Shows(<<>>, <<>>)
  <1>1. Keeps([i \in 0..0 |-> <<>>], <<>>) BY DEF Keeps
  <1>2. ASSUME NEW k, Keeps(k, <<>>) PROVE k[Len(<<>>)] = <<>>
    BY <1>2 DEF Keeps
  <1>3. <<>> \in Seq(FrameType) /\ <<>> \in Seq(FrameKind) OBVIOUS
  <1> QED BY <1>1, <1>2, <1>3 DEF Shows

\* One frame more is shown, unless it is text.
LEMMA ShowsMore ==
  ASSUME NEW s, NEW d, Shows(s, d), NEW fr \in FrameType
  PROVE  Shows(Append(s, fr), More(d, fr))
  <1> DEFINE t == Append(s, fr)
             n == Len(s)
             w == More(d, fr)
  <1>1. /\ s \in Seq(FrameType) /\ n \in Nat /\ t \in Seq(FrameType) /\ Len(t) = n + 1
        /\ t[n + 1] = fr /\ \A i \in 1..n : t[i] = s[i]
    BY DEF Shows
  <1>2. w \in Seq(FrameKind) BY DEF Shows, FrameType, More
  <1> HIDE DEF t, n, w
  <1>3. \E g : Keeps(g, t)
    <2>1. PICK f : Keeps(f, s) BY DEF Shows
    <2>2. /\ f[n] = d /\ DOMAIN f = 0..n
          /\ \A i \in 0..n : f[i] = IF i = 0 THEN <<>> ELSE More(f[i - 1], s[i])
      BY <2>1 DEF Shows, Keeps, n
    <2> DEFINE g == [i \in 0..(n + 1) |-> IF i <= n THEN f[i] ELSE w]
               h == [i \in 0..Len(t) |-> IF i = 0 THEN <<>> ELSE More(g[i - 1], t[i])]
    <2>3. ASSUME NEW i \in 0..(n + 1) PROVE g[i] = h[i]
      <3>1. CASE i = 0
        <4>1. 0 \in 0..n /\ 0 \in 0..(n + 1) /\ 0 \in 0..Len(t) /\ 0 <= n BY <1>1
        <4>2. g[0] = f[0] /\ f[0] = <<>> BY <2>2, <4>1
        <4>3. h[0] = <<>> BY <4>1
        <4> QED BY <3>1, <4>2, <4>3
      <3>2. CASE i \in 1..n
        <4>1. i - 1 \in 0..n /\ i \in 0..n /\ t[i] = s[i] /\ i # 0 /\ i \in 0..Len(t)
          BY <1>1, <3>2
        <4>2. g[i - 1] = f[i - 1] /\ g[i] = f[i] BY <1>1, <4>1, <3>2
        <4>3. h[i] = More(g[i - 1], t[i])
          <5> HIDE DEF g
          <5> QED BY <4>1
        <4> QED BY <2>2, <4>1, <4>2, <4>3
      <3>3. CASE i = n + 1
        <4>1. g[n] = d /\ g[i] = w BY <1>1, <2>2, <3>3
        <4>2. h[i] = More(g[n], t[n + 1])
          <5>1. i \in 0..Len(t) /\ i # 0 /\ i - 1 = n BY <1>1, <3>3
          <5>2. h[i] = More(g[i - 1], t[i]) BY <5>1
          <5> HIDE DEF g, h
          <5> QED BY <3>3, <5>1, <5>2
        <4> QED BY <1>1, <4>1, <4>2 DEF w
      <3> QED BY <1>1, <3>1, <3>2, <3>3
    <2>4. g = h BY <1>1, <2>3
    <2> HIDE DEF g
    <2> QED BY <2>4 DEF Keeps
  <1>4. ASSUME NEW g, Keeps(g, t) PROVE g[Len(t)] = w
    <2>1. \A i \in 0..(n + 1) : g[i] = IF i = 0 THEN <<>> ELSE More(g[i - 1], t[i])
      BY <1>1, <1>4 DEF Keeps
    <2> DEFINE h == [i \in 0..n |-> g[i]]
    <2>2. Keeps(h, s)
      <3> DEFINE k == [i \in 0..n |-> IF i = 0 THEN <<>> ELSE More(h[i - 1], s[i])]
      <3>1. ASSUME NEW i \in 0..n PROVE h[i] = k[i]
        <4>1. CASE i = 0 BY <1>1, <2>1, <4>1
        <4>2. CASE i # 0
          <5>1. i \in 1..n /\ i - 1 \in 0..n /\ i \in 0..(n + 1) BY <1>1, <4>2
          <5>2. h[i] = g[i] /\ h[i - 1] = g[i - 1] /\ t[i] = s[i] BY <1>1, <5>1
          <5>3. k[i] = More(h[i - 1], s[i])
            <6> HIDE DEF h
            <6> QED BY <4>2
          <5> QED BY <2>1, <4>2, <5>1, <5>2, <5>3
        <4> QED BY <4>1, <4>2
      <3>2. h = k BY <3>1
      <3> HIDE DEF h
      <3> QED BY <3>2 DEF Keeps, n
    <2>3. h[n] = d BY <2>2 DEF Shows, n
    <2>4. g[n] = d BY <1>1, <2>3
    <2>5. g[n + 1] = More(g[n], t[n + 1])
      <3>1. n + 1 \in 0..(n + 1) /\ n + 1 # 0 /\ (n + 1) - 1 = n BY <1>1
      <3>2. g[n + 1] = More(g[(n + 1) - 1], t[n + 1]) BY <2>1, <3>1
      <3> QED BY <3>1, <3>2
    <2> QED BY <1>1, <2>4, <2>5 DEF w
  <1>5. Shows(t, w) BY <1>1, <1>2, <1>3, <1>4 DEF Shows
  <1> QED BY <1>5 DEF t, w

\* Text comes before what closes a stream, and while nothing has closed it,
\* more may come.
InOrder(s) ==
  \A i, j \in DOMAIN s : i < j /\ s[j].is = "text" => s[i].is \notin Closing
Unclosed(s) == \A i \in DOMAIN s : s[i].is \notin Closing

\* A wire with what it shows, closed or not.
Reads(s, f) == Shows(s, f) /\ InOrder(s)
Opens(s, f) == Shows(s, f) /\ Unclosed(s)

\* What is not closed is in order.
LEMMA OpenReads ==
  ASSUME NEW s, NEW f, Opens(s, f)
  PROVE  Reads(s, f)
  BY DEF Opens, Reads, InOrder, Unclosed

\* Text goes on an open wire, and does not show.
LEMMA OpensText ==
  ASSUME NEW s, NEW f, Opens(s, f), NEW w \in Seq(Nat)
  PROVE  Opens(s \o Text(w), f)
  <1>0. s \in Seq(FrameType) BY DEF Opens, Shows
  <1>1. CASE w = <<>>
    <2>1. s \o Text(w) = s BY <1>0, <1>1 DEF Text
    <2> QED BY <2>1
  <1>2. CASE w # <<>>
    <2> DEFINE fr == [is |-> "text", chunks |-> w]
    <2>1. fr \in FrameType /\ fr.is = "text" BY DEF FrameType, FrameKind
    <2>2. s \o Text(w) = Append(s, fr) BY <1>0, <1>2, <2>1 DEF Text
    <2> HIDE DEF fr
    <2>3. Shows(Append(s, fr), f)
      <3>1. Shows(Append(s, fr), More(f, fr)) BY <2>1, ShowsMore DEF Opens
      <3> QED BY <2>1, <3>1 DEF More
    <2>4. Unclosed(Append(s, fr))
      <3>1. \A i \in DOMAIN Append(s, fr) :
              Append(s, fr)[i] = fr \/ (i \in DOMAIN s /\ Append(s, fr)[i] = s[i])
        BY <1>0, <2>1
      <3> QED BY <2>1, <3>1 DEF Unclosed, Opens, Closing
    <2> QED BY <2>2, <2>3, <2>4 DEF Opens
  <1> QED BY <1>1, <1>2

\* A frame without text shows, and keeps the order.
LEMMA ReadsMore ==
  ASSUME NEW s, NEW f, Reads(s, f), NEW fr \in FrameType, fr.is # "text"
  PROVE  /\ Reads(Append(s, fr), Append(f, fr.is))
         /\ Opens(s, f) /\ fr.is \notin Closing => Opens(Append(s, fr), Append(f, fr.is))
  <1>0. s \in Seq(FrameType) BY DEF Reads, Shows
  <1> DEFINE t == Append(s, fr)
             n == Len(s)
  <1>1. /\ n \in Nat /\ t \in Seq(FrameType) /\ Len(t) = n + 1
        /\ t[n + 1] = fr /\ (\A i \in 1..n : t[i] = s[i]) /\ DOMAIN t = 1..(n + 1)
        /\ DOMAIN s = 1..n
    BY <1>0
  <1>2. Shows(t, Append(f, fr.is))
    <2>1. Shows(t, More(f, fr)) BY ShowsMore DEF Reads
    <2> QED BY <2>1 DEF More
  <1> HIDE DEF t, n
  <1>3. InOrder(t)
    <2> SUFFICES ASSUME NEW i \in DOMAIN t, NEW j \in DOMAIN t, i < j, t[j].is = "text"
                 PROVE  t[i].is \notin Closing
      BY DEF InOrder
    <2>1. j # n + 1 BY <1>1
    <2>2. j \in 1..n /\ i \in 1..n BY <1>1, <2>1
    <2>3. s[j].is = "text" BY <1>1, <2>2
    <2>4. s[i].is \notin Closing BY <1>1, <2>2, <2>3 DEF Reads, InOrder
    <2> QED BY <1>1, <2>2, <2>4
  <1>4. ASSUME Unclosed(s), fr.is \notin Closing PROVE Unclosed(t)
    <2> SUFFICES ASSUME NEW i \in DOMAIN t PROVE t[i].is \notin Closing
      BY DEF Unclosed
    <2>1. CASE i = n + 1 BY <1>1, <1>4, <2>1
    <2>2. CASE i \in 1..n BY <1>1, <1>4, <2>2 DEF Unclosed
    <2> QED BY <1>1, <2>1, <2>2
  <1> QED BY <1>2, <1>3, <1>4 DEF Reads, Opens, t

\* The same of a frame by its name.
LEMMA ReadsFrame ==
  ASSUME NEW s, NEW f, Reads(s, f), NEW a \in FrameKind \ {"text"}
  PROVE  /\ Reads(Append(s, Frame(a)), Append(f, a))
         /\ Opens(s, f) /\ a \notin Closing => Opens(Append(s, Frame(a)), Append(f, a))
  <1>1. s \in Seq(FrameType) BY DEF Reads, Shows
  <1>2. Frame(a) \in FrameType /\ Frame(a).is = a BY <1>1, FramesBehind
  <1> QED BY <1>2, ReadsMore

\* A prefix of a prefix.
LEMMA Prefixes ==
  ASSUME NEW S, NEW s \in Seq(S), NEW t \in Seq(S), NEW x \in S, Prefix(s, t)
  PROVE  Prefix(s, s) /\ Prefix(s, Append(t, x))
  <1>1. /\ Len(s) \in Nat /\ Len(t) \in Nat /\ Len(Append(t, x)) = Len(t) + 1
        /\ DOMAIN s = 1..Len(s) /\ \A i \in 1..Len(t) : Append(t, x)[i] = t[i]
    OBVIOUS
  <1>2. Len(s) <= Len(t) /\ \A i \in 1..Len(s) : s[i] = t[i] BY <1>1 DEF Prefix
  <1>3. \A i \in 1..Len(s) : i \in 1..Len(t) BY <1>1, <1>2
  <1> HIDE DEF Prefix
  <1>4. Prefix(s, s) BY <1>1 DEF Prefix
  <1>5. Prefix(s, Append(t, x)) BY <1>1, <1>2, <1>3 DEF Prefix
  <1> QED BY <1>4, <1>5

\* Everything is a beginning of itself.
LEMMA PrefixOfItself ==
  ASSUME NEW S, NEW s \in Seq(S)
  PROVE  Prefix(s, s)
  <1>1. Len(s) \in Nat OBVIOUS
  <1> QED BY <1>1 DEF Prefix

\* Short sequences, put together one by one.
LEMMA ShortOnes ==
  ASSUME NEW a, NEW b, NEW d
  PROVE  /\ Append(<<>>, a) = <<a>> /\ Append(<<a>>, b) = <<a, b>>
         /\ Append(<<a, b>>, d) = <<a, b, d>>
  <1> DEFINE S == {a, b, d}
             two == Append(<<a>>, b)
             three == Append(<<a, b>>, d)
  <1>0. <<a>> \in Seq(S) /\ <<a, b>> \in Seq(S) /\ b \in S /\ d \in S OBVIOUS
  <1>1. two \in Seq(S) /\ Len(two) = 2 /\ two[1] = a /\ two[2] = b BY <1>0
  <1>2. three \in Seq(S) /\ Len(three) = 3 /\ three[1] = a /\ three[2] = b /\ three[3] = d
    BY <1>0
  <1> HIDE DEF two, three
  <1>3. two = <<a, b>> BY <1>0, <1>1
  <1>4. three = <<a, b, d>> BY <1>0, <1>2
  <1>5. Append(<<>>, a) = <<a>> OBVIOUS
  <1> QED BY <1>3, <1>4, <1>5 DEF two, three

\* How the beginning of a stream is put together.
LEMMA OpenedIs ==
  ASSUME Types, NEW c \in Turn
  PROVE  LET head == Append(<<>>, "200_SSE") IN
         /\ req[c].api \in {"openai", "anthropic"} /\ req[c].tools \in BOOLEAN
         /\ req[c].stream \in BOOLEAN /\ req[c].usage \in BOOLEAN
         /\ Opened(c) = IF req[c].api = "openai" THEN Append(head, "role")
                        ELSE IF req[c].tools THEN Append(head, "message_start")
                        ELSE Append(Append(head, "message_start"), "block_start")
         /\ Opened(c) \in Seq(FrameKind) /\ Complete(c) \in Seq(FrameKind)
         /\ head \in Seq(FrameKind) /\ Prefix(<<>>, Opened(c)) /\ Prefix(head, Opened(c))
  <1> DEFINE head == Append(<<>>, "200_SSE")
             three == Append(Append(head, "message_start"), "block_start")
  <1>0. {"200_SSE", "role", "message_start", "block_start", "finish", "block_stop"}
          \subseteq FrameKind
    BY DEF FrameKind
  <1>1. req[c] \in Request BY DEF Types
  <1>2. /\ req[c].api \in {"openai", "anthropic"} /\ req[c].tools \in BOOLEAN
        /\ req[c].stream \in BOOLEAN /\ req[c].usage \in BOOLEAN
    BY <1>1, ServerAssumption
  <1>3. <<>> \in Seq(FrameKind) /\ head \in Seq(FrameKind) /\ head = <<"200_SSE">>
    BY <1>0
  <1>4. /\ Append(head, "role") = <<"200_SSE", "role">>
        /\ Append(head, "message_start") = <<"200_SSE", "message_start">>
    <2>1. /\ Append(<<"200_SSE">>, "role") = <<"200_SSE", "role">>
          /\ Append(<<"200_SSE">>, "message_start") = <<"200_SSE", "message_start">>
      BY ShortOnes
    <2> QED BY <1>3, <2>1
  <1>5. three = <<"200_SSE", "message_start", "block_start">>
    <2>1. three = Append(<<"200_SSE", "message_start">>, "block_start") BY <1>4
    <2>2. Append(<<"200_SSE", "message_start">>, "block_start")
            = <<"200_SSE", "message_start", "block_start">>
      BY ShortOnes
    <2> HIDE DEF three
    <2> QED BY <2>1, <2>2
  <1>6. Opened(c) = IF req[c].api = "openai" THEN Append(head, "role")
                    ELSE IF req[c].tools THEN Append(head, "message_start") ELSE three
    BY <1>4, <1>5 DEF Opened
  <1> HIDE DEF head, three
  <1>7. Opened(c) \in Seq(FrameKind)
    <2>1. /\ Append(head, "role") \in Seq(FrameKind)
          /\ Append(head, "message_start") \in Seq(FrameKind)
      BY <1>0, <1>3
    <2>2. three \in Seq(FrameKind) BY <1>0, <2>1 DEF three
    <2> QED BY <1>6, <2>1, <2>2
  <1>8. Complete(c) \in Seq(FrameKind) BY <1>0, <1>7 DEF Complete
  <1>9. Prefix(<<>>, Opened(c))
    <2>1. Len(<<>>) = 0 /\ DOMAIN <<>> = {} /\ Len(Opened(c)) \in Nat BY <1>7
    <2> QED BY <2>1 DEF Prefix
  <1>10. Prefix(head, Opened(c))
    <2>1. Prefix(head, head) BY <1>3, PrefixOfItself
    <2>2. Prefix(head, Append(head, "role")) /\ Prefix(head, Append(head, "message_start"))
      BY <1>0, <1>3, <2>1, Prefixes
    <2>3. Prefix(head, three)
      <3> DEFINE two == Append(head, "message_start")
      <3>1. two \in Seq(FrameKind) /\ Prefix(head, two) BY <1>0, <1>3, <2>2
      <3>2. three = Append(two, "block_start") BY DEF three
      <3> HIDE DEF two
      <3> QED BY <1>0, <1>3, <3>1, <3>2, Prefixes
    <2> QED BY <1>6, <2>2, <2>3
  <1> QED BY <1>2, <1>3, <1>6, <1>7, <1>8, <1>9, <1>10 DEF head, three

\* What a handler that is done may have shown: a refusal; a body, or a stream
\* to its end, to an error, or to where it broke off.
LEMMA ProtocolsHave ==
  ASSUME Types, NEW c \in Turn
  PROVE  /\ \A a \in Refusals : Append(<<>>, a) \in Protocols(c)
         /\ ~Streams(c) => \A a \in Bodies : Append(<<>>, a) \in Protocols(c)
         /\ Streams(c) =>
              /\ Append(Append(Opened(c), "error"), "end") \in Protocols(c)
              /\ Append(Append(<<>>, "200_SSE"), "closed") \in Protocols(c)
              /\ Append(Opened(c), "closed") \in Protocols(c)
              /\ Append(Complete(c), "closed") \in Protocols(c)
              /\ (IF req[c].api = "anthropic"
                  THEN Append(Append(Complete(c), "finish"), "end")
                  ELSE IF req[c].usage THEN Append(Append(Complete(c), "usage"), "end")
                  ELSE Append(Complete(c), "end")) \in Protocols(c)
  <1> DEFINE last == IF req[c].api = "anthropic" THEN <<"finish", "end">>
                    ELSE IF req[c].usage THEN <<"usage", "end">> ELSE <<"end">>
  <1>1. Opened(c) \in Seq(FrameKind) /\ Complete(c) \in Seq(FrameKind)
    BY OpenedIs
  <1>2. {"error", "end", "finish", "usage"} \subseteq FrameKind BY DEF FrameKind
  <1>3. Opened(c) \o <<"error", "end">> = Append(Append(Opened(c), "error"), "end")
    BY <1>1, <1>2, TwoMore
  <1>4. /\ Complete(c) \o <<"finish", "end">> = Append(Append(Complete(c), "finish"), "end")
        /\ Complete(c) \o <<"usage", "end">> = Append(Append(Complete(c), "usage"), "end")
    BY <1>1, <1>2, TwoMore
  <1>5. Complete(c) \o <<"end">> = Append(Complete(c), "end") BY <1>1, <1>2
  <1>6. \A a : Append(<<>>, a) = <<a>> OBVIOUS
  <1>7. Protocols(c) =
          {<<s>> : s \in Refusals}
            \cup (IF Streams(c)
                  THEN {Complete(c) \o last, Opened(c) \o <<"error", "end">>}
                         \cup {Append(seen, "closed") :
                                 seen \in {<<"200_SSE">>, Opened(c), Complete(c)}}
                  ELSE {<<s>> : s \in Bodies})
    BY DEF Protocols
  <1>8. \A a \in Refusals : Append(<<>>, a) \in Protocols(c) BY <1>6, <1>7
  <1>9. ASSUME ~Streams(c) PROVE \A a \in Bodies : Append(<<>>, a) \in Protocols(c)
    BY <1>6, <1>7, <1>9
  <1>10. ASSUME Streams(c)
         PROVE  /\ Opened(c) \o <<"error", "end">> \in Protocols(c)
                /\ Append(<<"200_SSE">>, "closed") \in Protocols(c)
                /\ Append(Opened(c), "closed") \in Protocols(c)
                /\ Append(Complete(c), "closed") \in Protocols(c)
                /\ Complete(c) \o last \in Protocols(c)
    <2> HIDE DEF last
    <2> QED BY <1>7, <1>10
  <1>11. Complete(c) \o last = IF req[c].api = "anthropic"
                  THEN Append(Append(Complete(c), "finish"), "end")
                  ELSE IF req[c].usage THEN Append(Append(Complete(c), "usage"), "end")
                  ELSE Append(Complete(c), "end")
    BY <1>4, <1>5
  <1> HIDE DEF last
  <1> QED BY <1>3, <1>6, <1>8, <1>9, <1>10, <1>11

(* What a client that stays has been shown, by where its handler is.       *)
ShownTo(c) ==
  IF peer[c] = "gone" THEN wire[c] = <<>>
  ELSE /\ pc[c] \in {"door", "checked", "sizing"} => Opens(wire[c], <<>>)
       /\ pc[c] = "opening" =>
            Opens(wire[c], IF Streams(c) THEN Append(<<>>, "200_SSE") ELSE <<>>)
       /\ pc[c] \in {"started", "generating"} =>
            Opens(wire[c], IF Streams(c) THEN Opened(c) ELSE <<>>)
       /\ pc[c] = "billing" => Reads(wire[c], IF Streams(c) THEN Complete(c) ELSE <<>>)
       /\ pc[c] \in {"leaving", "served"} => \E p \in Protocols(c) : Reads(wire[c], p)
Showing == \A c \in Turn : ShownTo(c)

\* What is asked of a handler does not change, nor what may be answered.
LEMMA SameAnswers ==
  ASSUME NEW c \in Turn, req' = req
  PROVE  /\ Streams(c)' = Streams(c) /\ Opened(c)' = Opened(c)
         /\ Complete(c)' = Complete(c) /\ Protocols(c)' = Protocols(c)
  BY DEF Streams, Opened, Complete, Protocols

\* The handler is at its next place with what that place shows.
LEMMA ShownAt ==
  ASSUME NEW c \in Turn, peer[c] = "here", peer' = peer, req' = req,
         \/ pc'[c] = "checked" /\ Opens(wire'[c], <<>>)
         \/ pc'[c] = "sizing" /\ Opens(wire'[c], <<>>)
         \/ /\ pc'[c] = "opening"
            /\ Opens(wire'[c], IF Streams(c) THEN Append(<<>>, "200_SSE") ELSE <<>>)
         \/ /\ pc'[c] \in {"started", "generating"}
            /\ Opens(wire'[c], IF Streams(c) THEN Opened(c) ELSE <<>>)
         \/ /\ pc'[c] = "billing"
            /\ Reads(wire'[c], IF Streams(c) THEN Complete(c) ELSE <<>>)
         \/ /\ pc'[c] \in {"leaving", "served"}
            /\ \E p \in Protocols(c) : Reads(wire'[c], p)
  PROVE  ShownTo(c)'
  <1>1. /\ Streams(c)' = Streams(c) /\ Opened(c)' = Opened(c)
        /\ Complete(c)' = Complete(c) /\ Protocols(c)' = Protocols(c)
    BY SameAnswers
  <1>2. peer'[c] # "gone" OBVIOUS
  <1> QED BY <1>1, <1>2 DEF ShownTo

\* A status alone is an answer.
LEMMA ShownStatus ==
  ASSUME Types, NEW c \in Turn, Opens(wire[c], <<>>), NEW a \in Statuses,
         wire'[c] = Append(wire[c], Frame(a)), a \in Refusals \/ ~Streams(c)
  PROVE  \E p \in Protocols(c) : Reads(wire'[c], p)
  <1>1. a \in FrameKind \ {"text"} BY DEF FrameKind, Statuses, Refusals, Bodies
  <1>2. Reads(Append(wire[c], Frame(a)), Append(<<>>, a)) BY <1>1, OpenReads, ReadsFrame
  <1>3. Append(<<>>, a) \in Protocols(c)
    BY ProtocolsHave DEF Statuses
  <1> QED BY <1>2, <1>3

\* Up to the generation: refused, or opened frame by frame.
LEMMA ShownBefore ==
  ASSUME Types, Reasons, Sent, Showing, NEW c \in Turn, peer[c] = "here",
         \/ BadRequest(c) \/ HealthGate(c) \/ Enter(c) \/ Unfit(c) \/ Headers(c) \/ Start(c)
         \/ Generate(c)
  PROVE  ShownTo(c)'
  <1>0. /\ peer' = peer /\ req' = req /\ em[c] \in Local /\ ~em[c].gone
        /\ ShownTo(c) /\ wire = [d \in Turn |-> wire[d]]
    BY DEF BadRequest, HealthGate, Enter, Unfit, Headers, Start, Generate, Types, Sent,
           Reasons, ReasonOf, Showing
  <1>1. ASSUME NEW p, To(c, p) PROVE pc'[c] = p
    BY <1>1 DEF To, Types
  <1>2. ASSUME NEW a \in Refusals, Opens(wire[c], <<>>), Answers(c, a),
               pc'[c] \in {"leaving", "served"}
        PROVE  ShownTo(c)'
    <2>1. wire'[c] = Append(wire[c], Frame(a)) BY <1>0, <1>2, AnswersHere
    <2>2. \E p \in Protocols(c) : Reads(wire'[c], p)
      BY <1>2, <2>1, ShownStatus DEF Statuses
    <2> QED BY <1>0, <1>2, <2>2, ShownAt
  <1>3. {"4xx", "429", "503"} \subseteq Refusals BY DEF Refusals
  <1>4. pc[c] \in {"door", "checked", "sizing"} => Opens(wire[c], <<>>)
    BY <1>0 DEF ShownTo
  <1>5. CASE BadRequest(c)
    <2>1. pc'[c] = "served" /\ Answers(c, "4xx") /\ pc[c] = "door"
      BY <1>1, <1>5 DEF BadRequest
    <2> QED BY <1>2, <1>3, <1>4, <2>1
  <1>6. CASE HealthGate(c)
    <2>1. pc[c] = "door" BY <1>6 DEF HealthGate
    <2>2. \/ Answers(c, "503") /\ pc'[c] = "served"
          \/ wire' = wire /\ pc'[c] = "checked"
      BY <1>1, <1>6 DEF HealthGate
    <2> QED BY <1>0, <1>2, <1>3, <1>4, <2>1, <2>2, ShownAt
  <1>7. CASE Enter(c)
    <2>1. pc[c] = "checked" BY <1>7 DEF Enter
    <2>2. \/ Answers(c, "429") /\ pc'[c] = "served"
          \/ wire' = wire /\ pc'[c] = "sizing"
      BY <1>1, <1>7 DEF Enter
    <2> QED BY <1>0, <1>2, <1>3, <1>4, <2>1, <2>2, ShownAt
  <1>8. CASE Unfit(c)
    <2>1. pc'[c] = "leaving" /\ Answers(c, "4xx") /\ pc[c] = "sizing"
      BY <1>1, <1>8 DEF Unfit
    <2> QED BY <1>2, <1>3, <1>4, <2>1
  <1>9. CASE Headers(c)
    <2>1. pc'[c] = "opening" /\ Opens(wire[c], <<>>) BY <1>1, <1>4, <1>9 DEF Headers
    <2>2. CASE Streams(c)
      <3>1. Writes(c, <<Frame("200_SSE")>>, em[c]) BY <1>9, <2>2 DEF Headers
      <3>2. "200_SSE" \in FrameKind \ {"text"} /\ "200_SSE" \notin Closing
        BY DEF FrameKind, Closing
      <3>3. /\ wire[c] \o <<Frame("200_SSE")>> = Append(wire[c], Frame("200_SSE"))
            /\ <<Frame("200_SSE")>> # <<>>
        BY <2>1, <3>2, FramesBehind DEF Opens, Shows
      <3>4. wire'[c] = Append(wire[c], Frame("200_SSE")) BY <1>0, <3>1, <3>3, WritesHere
      <3>5. Opens(wire'[c], Append(<<>>, "200_SSE"))
        BY <2>1, <3>2, <3>4, OpenReads, ReadsFrame
      <3> QED BY <1>0, <2>1, <2>2, <3>5, ShownAt
    <2>3. CASE ~Streams(c)
      <3>1. wire' = wire BY <1>9, <2>3 DEF Headers, Probes
      <3> QED BY <1>0, <2>1, <2>3, <3>1, ShownAt
    <2> QED BY <2>2, <2>3
  <1>10. CASE Start(c)
    <2>1. pc'[c] = "started" /\ pc[c] = "opening" BY <1>1, <1>10 DEF Start
    <2>2. wire'[c] = IF FirstFrames(c) = <<>> THEN wire[c] ELSE wire[c] \o FirstFrames(c)
      BY <1>0, <1>10, WritesHere DEF Start
    <2>3. Opens(wire[c], IF Streams(c) THEN Append(<<>>, "200_SSE") ELSE <<>>)
      BY <1>0, <2>1 DEF ShownTo
    <2>4. CASE ~Streams(c)
      <3>1. wire'[c] = wire[c] BY <2>2, <2>4 DEF FirstFrames
      <3> QED BY <1>0, <2>1, <2>3, <2>4, <3>1, ShownAt
    <2>5. CASE Streams(c)
      <3> DEFINE head == Append(<<>>, "200_SSE")
      <3>1. Opens(wire[c], head) /\ wire[c] \in Seq(FrameType)
        BY <2>3, <2>5 DEF Opens, Shows
      <3>2. /\ {"role", "message_start", "block_start"} \subseteq FrameKind \ {"text"}
            /\ {"role", "message_start", "block_start"} \cap Closing = {}
        BY DEF FrameKind, Closing
      <3>3. /\ req[c].api \in {"openai", "anthropic"} /\ req[c].tools \in BOOLEAN
            /\ Opened(c) = IF req[c].api = "openai" THEN Append(head, "role")
                           ELSE IF req[c].tools THEN Append(head, "message_start")
                           ELSE Append(Append(head, "message_start"), "block_start")
        BY OpenedIs
      <3> HIDE DEF head
      <3>4. ASSUME NEW s, NEW f, Opens(s, f), NEW a \in {"role", "message_start", "block_start"}
            PROVE  Opens(Append(s, Frame(a)), Append(f, a))
        BY <3>2, <3>4, OpenReads, ReadsFrame
      <3>5. ASSUME Opens(wire'[c], Opened(c)) PROVE ShownTo(c)'
        BY <1>0, <2>1, <2>5, <3>5, ShownAt
      <3>6. ASSUME NEW a \in {"role", "message_start"}, FirstFrames(c) = <<Frame(a)>>
            PROVE  wire'[c] = Append(wire[c], Frame(a))
        <4>1. wire[c] \o <<Frame(a)>> = Append(wire[c], Frame(a)) /\ <<Frame(a)>> # <<>>
          BY <3>1, <3>2, FramesBehind
        <4> QED BY <2>2, <3>6, <4>1
      <3>7. CASE req[c].api = "openai"
        <4>1. FirstFrames(c) = <<Frame("role")>> BY <2>5, <3>7 DEF FirstFrames
        <4>2. wire'[c] = Append(wire[c], Frame("role")) BY <3>6, <4>1
        <4> QED BY <3>1, <3>3, <3>4, <3>5, <3>7, <4>2
      <3>8. CASE req[c].api = "anthropic" /\ req[c].tools
        <4>1. FirstFrames(c) = <<Frame("message_start")>> BY <2>5, <3>8 DEF FirstFrames
        <4>2. wire'[c] = Append(wire[c], Frame("message_start")) BY <3>6, <4>1
        <4> QED BY <3>1, <3>3, <3>4, <3>5, <3>8, <4>2
      <3>9. CASE req[c].api = "anthropic" /\ ~req[c].tools
        <4>1. FirstFrames(c) = Frames(<<"message_start", "block_start">>)
          BY <2>5, <3>9 DEF FirstFrames
        <4>2. /\ wire[c] \o Frames(<<"message_start", "block_start">>)
                   = Append(Append(wire[c], Frame("message_start")), Frame("block_start"))
              /\ Frames(<<"message_start", "block_start">>) # <<>>
          BY <3>1, <3>2, FramesBehind
        <4>3. wire'[c] = Append(Append(wire[c], Frame("message_start")), Frame("block_start"))
          BY <2>2, <4>1, <4>2
        <4>4. Opens(Append(wire[c], Frame("message_start")), Append(head, "message_start"))
          BY <3>1, <3>4
        <4>5. Opens(wire'[c], Append(Append(head, "message_start"), "block_start"))
          BY <3>4, <4>3, <4>4
        <4> QED BY <3>3, <3>5, <3>9, <4>5
      <3> QED BY <3>3, <3>7, <3>8, <3>9
    <2> QED BY <2>4, <2>5
  <1>11. CASE Generate(c)
    <2>1. pc[c] = "started" /\ pc'[c] = "generating" /\ wire' = wire
      BY <1>0, <1>1, <1>11 DEF Generate, GivesUp
    <2>2. Opens(wire[c], IF Streams(c) THEN Opened(c) ELSE <<>>)
      BY <1>0, <2>1 DEF ShownTo
    <2> QED BY <1>0, <2>1, <2>2, ShownAt
  <1> QED BY <1>5, <1>6, <1>7, <1>8, <1>9, <1>10, <1>11

\* While the turn is consumed, text is all that reaches the client.
LEMMA ShownConsume ==
  ASSUME Types, Sent, Showing, NEW c \in Turn, peer[c] = "here", Consume(c)
  PROVE  ShownTo(c)'
  <1> DEFINE n == Len(em[c].chunks) + 1
             f == IF Streams(c) THEN Opened(c) ELSE <<>>
  <1>0. /\ peer' = peer /\ req' = req /\ pc'[c] = "generating" /\ pc[c] = "generating"
        /\ ShownTo(c) /\ wire = [d \in Turn |-> wire[d]] /\ em[c] \in Local
    BY DEF Consume, Types, Sent, Showing
  <1>1. Opens(wire[c], f) BY <1>0 DEF ShownTo
  <1>2. <<n>> \in Seq(Nat) /\ Append(em[c].held, n) \in Seq(Nat) BY <1>0 DEF Local
  <1>3. ASSUME NEW frames, NEW e, Writes(c, frames, e)
        PROVE  wire' = wire \/ wire' = [wire EXCEPT ![c] = @ \o frames]
    BY <1>3 DEF Writes
  <1>4. ASSUME NEW e, Probes(c, e) PROVE wire' = wire BY <1>4 DEF Probes
  <1>5. \/ wire' = wire \/ wire' = [wire EXCEPT ![c] = @ \o Text(<<n>>)]
        \/ wire' = [wire EXCEPT ![c] = @ \o Text(Append(em[c].held, n))]
    BY <1>3, <1>4 DEF Consume
  <1> HIDE DEF n, f
  <1>6. Opens(wire'[c], f)
    <2>1. ASSUME NEW w \in Seq(Nat), wire' = [wire EXCEPT ![c] = @ \o Text(w)]
          PROVE  Opens(wire'[c], f)
      <3>1. wire'[c] = wire[c] \o Text(w) BY <1>0, <2>1
      <3> QED BY <1>1, <3>1, OpensText
    <2> QED BY <1>1, <1>2, <1>5, <2>1
  <1> QED BY <1>0, <1>6, ShownAt DEF f

\* A text that is let out and frames behind it: as if one were sent first.
LEMMA TextThenTwo ==
  ASSUME NEW s \in Seq(FrameType), NEW w \in Seq(Nat), NEW a \in FrameKind,
         NEW b \in FrameKind
  PROVE  /\ Text(w) \o Frames(<<a, b>>) # <<>>
         /\ s \o (Text(w) \o Frames(<<a, b>>))
              = Append(Append(s \o Text(w), Frame(a)), Frame(b))
  <1> DEFINE t == Text(w)
             last == Frames(<<a, b>>)
  <1>1. t \in Seq(FrameType) /\ s \o t \in Seq(FrameType) BY TextThenFrame
  <1>2. Frame(a) \in FrameType /\ Frame(b) \in FrameType /\ last # <<>>
    BY FramesBehind
  <1>3. last = <<Frame(a), Frame(b)>> BY FramesOfTwo
  <1> HIDE DEF last, t
  <1>4. last \in Seq(FrameType) BY <1>2, <1>3
  <1>5. (s \o t) \o last = s \o (t \o last) /\ t \o last # <<>>
    <2>1. s \in Seq(FrameType) /\ t \in Seq(FrameType) BY <1>1
    <2>2. (s \o t) \o last = s \o (t \o last) BY <1>4, <2>1, ConcatAssociative
    <2>3. t \o last # <<>>
      <3>1. t \o last = <<>> => last = <<>> BY <1>4, <2>1, ConcatSimplifications
      <3> QED BY <1>2, <3>1
    <2> QED BY <2>2, <2>3
  <1>6. (s \o t) \o last = Append(Append(s \o t, Frame(a)), Frame(b))
    <2> DEFINE x == s \o t
    <2>1. x \in Seq(FrameType) BY <1>1
    <2> HIDE DEF x
    <2>2. x \o last = Append(Append(x, Frame(a)), Frame(b))
      BY <2>1, FramesBehind DEF last
    <2> QED BY <2>2 DEF x
  <1> QED BY <1>5, <1>6 DEF t, last

\* A failure ends the stream, or is the answer.
LEMMA ShownFail ==
  ASSUME Types, Reasons, Sent, Showing, NEW c \in Turn, peer[c] = "here", Fail(c)
  PROVE  ShownTo(c)'
  <1>0. /\ peer' = peer /\ req' = req /\ pc'[c] = "leaving" /\ pc[c] = "generating"
        /\ ShownTo(c) /\ wire = [d \in Turn |-> wire[d]] /\ em[c] \in Local /\ ~em[c].gone
    BY DEF Fail, Ended, To, Types, Sent, Showing
  <1>1. SUFFICES \E p \in Protocols(c) : Reads(wire'[c], p)
    BY <1>0, ShownAt
  <1>2. CASE ~Streams(c)
    <2>1. Opens(wire[c], <<>>) BY <1>0, <1>2 DEF ShownTo
    <2>2. PICK a \in {"500", "503_or_500"} : wire'[c] = Append(wire[c], Frame(a))
      BY <1>0, <1>2, AnswersHere DEF Fail
    <2>3. a \in Statuses BY DEF Statuses, Bodies
    <2> QED BY <1>2, <2>1, <2>2, <2>3, ShownStatus
  <1>3. CASE Streams(c)
    <2> DEFINE s == wire[c] \o Text(em[c].held)
               w == Text(em[c].held) \o Frames(<<"error", "end">>)
    <2>1. /\ em[c].held \in Seq(Nat) /\ {"error", "end"} \subseteq FrameKind \ {"text"}
      BY <1>0 DEF Local, FrameKind
    <2>2. Opens(wire[c], Opened(c)) /\ wire[c] \in Seq(FrameType)
      BY <1>0, <1>3 DEF ShownTo, Opens, Shows
    <2>3. Opens(s, Opened(c)) BY <2>1, <2>2, OpensText
    <2>4. wire[c] \o w = Append(Append(s, Frame("error")), Frame("end")) /\ w # <<>>
      <3> DEFINE before == wire[c]
                 back == em[c].held
      <3>1. before \in Seq(FrameType) /\ back \in Seq(Nat) BY <2>1, <2>2
      <3>2. "error" \in FrameKind /\ "end" \in FrameKind BY <2>1
      <3> HIDE DEF before, back
      <3>3. /\ Text(back) \o Frames(<<"error", "end">>) # <<>>
            /\ before \o (Text(back) \o Frames(<<"error", "end">>))
                 = Append(Append(before \o Text(back), Frame("error")), Frame("end"))
        BY <3>1, <3>2, TextThenTwo
      <3> QED BY <3>3 DEF before, back
    <2>5. Flushed(c) \in Local /\ ~Flushed(c).gone BY <1>0, FlushedFields
    <2>6. Writes(c, w, Flushed(c)) BY <1>3 DEF Fail
    <2> HIDE DEF s, w
    <2>7. wire'[c] = wire[c] \o w BY <1>0, <2>4, <2>5, <2>6, WritesHere
    <2>8. Reads(Append(s, Frame("error")), Append(Opened(c), "error"))
      BY <2>1, <2>3, OpenReads, ReadsFrame
    <2>9. Reads(wire'[c], Append(Append(Opened(c), "error"), "end"))
      BY <2>1, <2>4, <2>7, <2>8, ReadsFrame
    <2> QED BY <1>3, <2>9, ProtocolsHave
  <1> QED BY <1>2, <1>3

\* What is held goes out and the blocks close, up to the counts.
LEMMA ShownFinish ==
  ASSUME Types, Reasons, Sent, Showing, NEW c \in Turn, peer[c] = "here", Finish(c)
  PROVE  ShownTo(c)'
  <1>0. /\ peer' = peer /\ req' = req /\ pc'[c] = "billing" /\ pc[c] = "generating"
        /\ ShownTo(c) /\ wire = [d \in Turn |-> wire[d]] /\ em[c] \in Local /\ ~em[c].gone
    BY DEF Finish, Ended, To, Types, Sent, Showing
  <1>1. SUFFICES Reads(wire'[c], IF Streams(c) THEN Complete(c) ELSE <<>>)
    BY <1>0, ShownAt
  <1>2. CASE ~Streams(c)
    <2>1. Opens(wire[c], <<>>) BY <1>0, <1>2 DEF ShownTo
    <2>2. wire' = wire BY <1>2 DEF Finish
    <2> QED BY <1>2, <2>1, <2>2, OpenReads
  <1>3. CASE Streams(c)
    <2> DEFINE x == IF req[c].tools THEN em[c].chunks ELSE em[c].held
               s == wire[c] \o Text(x)
               last == IF req[c].api = "openai" THEN "finish" ELSE "block_stop"
               whole == Text(x)
               frames == IF req[c].api = "openai" THEN Append(whole, Frame("finish"))
                         ELSE IF req[c].tools THEN whole
                         ELSE Append(whole, Frame("block_stop"))
    <2>1. x \in Seq(Nat) /\ last \in FrameKind \ {"text"} BY <1>0 DEF Local, FrameKind
    <2>2. Opens(wire[c], Opened(c)) /\ wire[c] \in Seq(FrameType)
      BY <1>0, <1>3 DEF ShownTo, Opens, Shows
    <2>3. Flushed(c) \in Local /\ ~Flushed(c).gone BY <1>0, FlushedFields
    <2>4. Writes(c, frames, Flushed(c)) BY <1>3 DEF Finish, whole, x, frames
    <2>5. frames = IF req[c].api = "openai" \/ ~req[c].tools THEN Append(whole, Frame(last))
                   ELSE whole
      OBVIOUS
    <2> HIDE DEF x, last, frames
    <2>6. Opens(s, Opened(c)) BY <2>1, <2>2, OpensText
    <2>7. /\ whole \in Seq(FrameType) /\ Append(whole, Frame(last)) # <<>>
          /\ wire[c] \o Append(whole, Frame(last)) = Append(s, Frame(last))
      BY <2>1, <2>2, TextThenFrame
    <2>8. wire'[c] = IF frames = <<>> THEN wire[c] ELSE wire[c] \o frames
      BY <1>0, <2>3, <2>4, WritesHere
    <2> HIDE DEF s, whole
    <2>9. CASE req[c].api = "openai" \/ ~req[c].tools
      <3>1. wire'[c] = Append(s, Frame(last)) BY <2>5, <2>7, <2>8, <2>9
      <3>2. Reads(wire'[c], Append(Opened(c), last))
        BY <2>1, <2>6, <3>1, OpenReads, ReadsFrame
      <3>3. Complete(c) = Append(Opened(c), last) BY <2>9 DEF Complete, last
      <3> QED BY <1>3, <3>2, <3>3
    <2>10. CASE req[c].api # "openai" /\ req[c].tools
      <3>1. wire'[c] = s
        <4>1. wire[c] \o <<>> = wire[c] BY <2>2
        <4> QED BY <2>5, <2>8, <2>10, <4>1 DEF s, whole
      <3>2. Complete(c) = Opened(c) BY <2>10 DEF Complete
      <3> QED BY <1>3, <2>6, <3>1, <3>2, OpenReads
    <2> QED BY <2>9, <2>10
  <1> QED BY <1>2, <1>3

\* The last frames, or the body.
LEMMA ShownBill ==
  ASSUME Types, Reasons, Sent, Showing, NEW c \in Turn, peer[c] = "here", Bill(c)
  PROVE  ShownTo(c)'
  <1>0. /\ peer' = peer /\ req' = req /\ pc'[c] = "leaving" /\ pc[c] = "billing"
        /\ ShownTo(c) /\ wire = [d \in Turn |-> wire[d]] /\ em[c] \in Local
        /\ ReasonOf(c) /\ ~em[c].gone
    BY DEF Bill, To, Types, Sent, Showing, Reasons, ReasonOf
  <1>1. SUFFICES \E p \in Protocols(c) : Reads(wire'[c], p)
    BY <1>0, ShownAt
  <1>2. /\ Reads(wire[c], IF Streams(c) THEN Complete(c) ELSE <<>>)
        /\ wire[c] \in Seq(FrameType)
    BY <1>0 DEF ShownTo, Reads, Shows
  <1>3. {"200", "500", "closed", "finish", "usage", "end"} \subseteq FrameKind \ {"text"}
    BY DEF FrameKind, Statuses, Refusals, Bodies
  <1>5. CASE Bill(c) /\ ~Streams(c)
    <2> DEFINE fr == [is |-> "200", chunks |-> em[c].chunks]
    <2>1. fr \in FrameType /\ fr.is = "200" BY <1>0, <1>3 DEF FrameType, Local
    <2>2. wire'[c] = wire[c] \o <<fr>> BY <1>0, <1>5 DEF Bill
    <2> HIDE DEF fr
    <2>3. wire[c] \o <<fr>> = Append(wire[c], fr) BY <1>2, <2>1, AppendIsConcat
    <2>4. Reads(wire'[c], Append(<<>>, "200"))
      BY <1>2, <1>5, <2>1, <2>2, <2>3, ReadsMore
    <2>5. "200" \in Bodies BY DEF Bodies
    <2> QED BY <1>5, <2>4, <2>5, ProtocolsHave
  <1>6. CASE Bill(c) /\ Streams(c)
    <2>1. Writes(c, LastFrames(c), em[c]) BY <1>6 DEF Bill
    <2>2. wire'[c] = IF LastFrames(c) = <<>> THEN wire[c] ELSE wire[c] \o LastFrames(c)
      BY <1>0, <2>1, WritesHere
    <2>3. Reads(wire[c], Complete(c)) BY <1>2, <1>6
    <2>4. ASSUME NEW a \in {"finish", "usage"}, LastFrames(c) = Frames(<<a, "end">>)
          PROVE  Reads(wire'[c], Append(Append(Complete(c), a), "end"))
      <3>1. /\ wire[c] \o Frames(<<a, "end">>)
                 = Append(Append(wire[c], Frame(a)), Frame("end"))
            /\ Frames(<<a, "end">>) # <<>>
        BY <1>2, <1>3, FramesBehind
      <3>2. wire'[c] = Append(Append(wire[c], Frame(a)), Frame("end"))
        BY <2>2, <2>4, <3>1
      <3>3. Reads(Append(wire[c], Frame(a)), Append(Complete(c), a))
        BY <1>3, <2>3, ReadsFrame
      <3> QED BY <1>3, <3>2, <3>3, ReadsFrame
    <2>5. CASE req[c].api = "anthropic"
      <3>1. LastFrames(c) = Frames(<<"finish", "end">>) BY <2>5 DEF LastFrames
      <3>2. Reads(wire'[c], Append(Append(Complete(c), "finish"), "end"))
        BY <2>4, <3>1
      <3> QED BY <1>6, <2>5, <3>2, ProtocolsHave
    <2>6. CASE req[c].api # "anthropic" /\ req[c].usage
      <3>1. LastFrames(c) = Frames(<<"usage", "end">>) BY <2>6 DEF LastFrames
      <3>2. Reads(wire'[c], Append(Append(Complete(c), "usage"), "end"))
        BY <2>4, <3>1
      <3> QED BY <1>6, <2>6, <3>2, ProtocolsHave
    <2>7. CASE req[c].api # "anthropic" /\ ~req[c].usage
      <3>1. LastFrames(c) = <<Frame("end")>> BY <2>7 DEF LastFrames
      <3>2. wire[c] \o <<Frame("end")>> = Append(wire[c], Frame("end"))
            /\ <<Frame("end")>> # <<>>
        BY <1>2, <1>3, FramesBehind
      <3>3. wire'[c] = Append(wire[c], Frame("end")) BY <2>2, <3>1, <3>2
      <3>4. Reads(wire'[c], Append(Complete(c), "end")) BY <1>3, <2>3, <3>3, ReadsFrame
      <3> QED BY <1>6, <2>7, <3>4, ProtocolsHave
    <2> QED BY <2>5, <2>6, <2>7
  <1> QED BY <1>5, <1>6

\* Where it breaks down: a status as long as there is none, or a stream that
\* breaks off behind its headers, its first frames or its last count.
LEMMA ShownFault ==
  ASSUME Types, Course, Sent, Showing, NEW c \in Turn, peer[c] = "here", Fault(c)
  PROVE  ShownTo(c)'
  <1>0. /\ ShownTo(c) /\ wire = [d \in Turn |-> wire[d]]
        /\ pc'[c] = "leaving" /\ peer' = peer /\ req' = req
        /\ pc[c] \in {"sizing", "opening", "generating", "billing"}
    BY FaultMoves DEF Sent, Showing
  <1>1. SUFFICES \E p \in Protocols(c) : Reads(wire'[c], p)
    BY <1>0, ShownAt
  <1>2. {"4xx", "500", "closed"} \subseteq FrameKind \ {"text"}
    BY DEF FrameKind, Statuses, Refusals, Bodies
  <1>3. PICK a \in Failure(c) : Answers(c, a) BY FaultMoves
  <1>4. wire'[c] = Append(wire[c], Frame(a)) BY <1>0, <1>3, AnswersHere
  <1>5. ASSUME NEW f, Reads(wire[c], f), a \in FrameKind \ {"text"},
               Append(f, a) \in Protocols(c)
        PROVE  \E p \in Protocols(c) : Reads(wire'[c], p)
    BY <1>4, <1>5, ReadsFrame
  <1>6. CASE pc[c] = "sizing"
    <2>1. Reads(wire[c], <<>>) BY <1>0, <1>6, OpenReads DEF ShownTo
    <2>2. a \in {"4xx", "500"} BY <1>6 DEF Failure
    <2>3. a \in Refusals BY <2>2 DEF Refusals
    <2> QED BY <1>2, <1>5, <2>1, <2>2, <2>3, ProtocolsHave
  <1>7. CASE pc[c] # "sizing" /\ Streams(c)
    <2>1. a = "closed" BY <1>7 DEF Failure
    <2>2. PICK f \in {Append(<<>>, "200_SSE"), Opened(c), Complete(c)} : Reads(wire[c], f)
      BY <1>0, <1>7, OpenReads DEF ShownTo
    <2> QED BY <1>2, <1>5, <1>7, <2>1, <2>2, ProtocolsHave
  <1>8. CASE pc[c] # "sizing" /\ ~Streams(c)
    <2>1. a = "500" BY <1>8 DEF Failure
    <2>2. Reads(wire[c], <<>>) BY <1>0, <1>8, OpenReads DEF ShownTo
    <2>3. "500" \in Bodies BY DEF Bodies
    <2> QED BY <1>2, <1>5, <1>8, <2>1, <2>2, <2>3, ProtocolsHave
  <1> QED BY <1>6, <1>7, <1>8

\* A handler's step, seen at a client that stays.
LEMMA ShownOfHandler ==
  ASSUME Types, Course, Reasons, Sent, Showing, NEW c \in Turn, peer[c] = "here", Handle(c)
  PROVE  ShownTo(c)'
  <1>1. CASE \/ BadRequest(c) \/ HealthGate(c) \/ Enter(c) \/ Unfit(c) \/ Headers(c)
             \/ Start(c) \/ Generate(c)
    BY <1>1, ShownBefore
  <1>2. CASE Consume(c) BY <1>2, ShownConsume
  <1>3. CASE Break(c) BY <1>3 DEF Break, Reasons, ReasonOf
  <1>4. CASE Fail(c) BY <1>4, ShownFail
  <1>5. CASE Finish(c) BY <1>5, ShownFinish
  <1>6. CASE Bill(c) \/ Fault(c) BY <1>6, ShownBill, ShownFault
  <1>7. CASE Release(c)
    <2>1. /\ pc[c] = "leaving" /\ pc'[c] = "served" /\ wire' = wire /\ peer' = peer
          /\ req' = req /\ ShownTo(c)
      BY <1>7 DEF Release, To, Types, Showing
    <2>2. \E p \in Protocols(c) : Reads(wire[c], p) BY <2>1 DEF ShownTo
    <2> QED BY <2>1, <2>2, ShownAt
  <1> QED BY <1>1, <1>2, <1>3, <1>4, <1>5, <1>6, <1>7 DEF Handle

\* What a client has been shown stays so while its handler stands.
LEMMA ShownStays ==
  ASSUME Showing, NEW d \in Turn,
         peer'[d] = peer[d], wire'[d] = wire[d], req' = req, pc'[d] = pc[d]
  PROVE  ShownTo(d)'
  <1>1. /\ Streams(d)' = Streams(d) /\ Opened(d)' = Opened(d)
        /\ Complete(d)' = Complete(d) /\ Protocols(d)' = Protocols(d)
    BY SameAnswers
  <1>2. ShownTo(d) BY DEF Showing
  <1> QED BY <1>1, <1>2 DEF ShownTo

\* A step shows one client more, and keeps what it is shown an answer.
LEMMA ShownStep == Types /\ Course /\ Reasons /\ Sent /\ Showing /\ [Next]_vars => Showing'
  <1> SUFFICES ASSUME Types, Course, Reasons, Sent, Showing, [Next]_vars, NEW d \in Turn
               PROVE  ShownTo(d)'
    BY DEF Showing
  <1>0. wire = [c \in Turn |-> wire[c]] /\ ShownTo(d) /\ peer[d] \in {"here", "gone"}
        /\ turn[d] \in TurnType
    BY DEF Sent, Showing, Types
  <1>1. ASSUME NEW c \in Turn, Handle(c) PROVE ShownTo(d)'
    <2>1. CASE d # c
      <3>1. pc'[d] = pc[d] /\ UNCHANGED <<peer, req>>
        BY <1>1, <2>1, HandlerMoves DEF Types
      <3>2. wire'[d] = wire[d] BY <1>0, <1>1, <2>1, WireElsewhere
      <3> QED BY <3>1, <3>2, ShownStays
    <2>2. CASE d = c /\ peer[c] = "gone"
      <3>1. peer' = peer /\ wire'[c] = wire[c]
        BY <1>0, <1>1, <2>2, HandlerMoves, WireElsewhere
      <3> QED BY <1>0, <2>2, <3>1 DEF ShownTo
    <2>3. CASE d = c /\ peer[c] = "here" BY <1>1, <2>3, ShownOfHandler
    <2> QED BY <1>0, <2>1, <2>2, <2>3
  <1>2. ASSUME NEW c \in Turn, Depart(c) PROVE ShownTo(d)'
    <2>1. /\ UNCHANGED <<req, pc>>
          /\ wire' = [wire EXCEPT ![c] = <<>>] /\ peer' = [peer EXCEPT ![c] = "gone"]
      BY <1>2 DEF Depart
    <2>2. CASE d # c
      <3>1. peer'[d] = peer[d] /\ wire'[d] = wire[d] BY <1>0, <2>1, <2>2 DEF Types
      <3> QED BY <2>1, <3>1, ShownStays
    <2>3. CASE d = c
      <3>1. peer'[d] = "gone" /\ wire'[d] = <<>> BY <1>0, <2>1, <2>3 DEF Types
      <3> QED BY <3>1 DEF ShownTo
    <2> QED BY <2>2, <2>3
  <1>3. ASSUME UNCHANGED <<req, peer, pc, wire>> PROVE ShownTo(d)'
    BY <1>3, ShownStays
  <1>4. ASSUME NEW c \in Turn,
               CountStarts(c) \/ CountEnds(c) \/ Say(c) \/ Engine(c) \/ Bark(c)
        PROVE  ShownTo(d)'
    BY <1>3, <1>4 DEF CountStarts, CountEnds, Say, Engine, Bark, handlers
  <1>5. CASE Shutdown BY <1>3, <1>5 DEF Shutdown, handlers
  <1>6. CASE UNCHANGED vars BY <1>3, <1>6 DEF vars, handlers
  <1>7. CASE Next BY <1>1, <1>2, <1>4, <1>5, <1>6, <1>7 DEF Next, Rest
  <1> QED BY <1>6, <1>7

\* Nothing has been shown in the beginning.
LEMMA ShownInit == Init => Showing
  <1> SUFFICES ASSUME Init, NEW c \in Turn PROVE ShownTo(c)
    BY DEF Showing
  <1>1. peer[c] = "here" /\ pc[c] = "door" /\ wire[c] = <<>> BY DEF Init
  <1>2. Opens(<<>>, <<>>) BY ShowsNothing DEF Opens, Unclosed
  <1> QED BY <1>1, <1>2 DEF ShownTo

\* What is shown at any place of a handler is the beginning of an answer.
LEMMA BeginningOfAnswer ==
  ASSUME Types, NEW c \in Turn
  PROVE  /\ \E p \in Protocols(c) : Prefix(<<>>, p)
         /\ Streams(c) => \E p \in Protocols(c) : Prefix(Append(<<>>, "200_SSE"), p)
         /\ Streams(c) => \E p \in Protocols(c) : Prefix(Opened(c), p)
         /\ Streams(c) => \E p \in Protocols(c) : Prefix(Complete(c), p)
         /\ \A p \in Protocols(c) : p \in Seq(FrameKind) => Prefix(p, p)
  <1> DEFINE head == Append(<<>>, "200_SSE")
             bad == Append(Append(Opened(c), "error"), "end")
  <1>1. /\ Opened(c) \in Seq(FrameKind) /\ Complete(c) \in Seq(FrameKind)
        /\ head \in Seq(FrameKind) /\ Prefix(head, Opened(c))
    BY OpenedIs
  <1>2. {"error", "end", "closed", "4xx"} \subseteq FrameKind
    BY DEF FrameKind, Statuses, Refusals
  <1>3. "4xx" \in Refusals BY DEF Refusals
  <1>4. Append(<<>>, "4xx") \in Protocols(c) BY <1>3, ProtocolsHave
  <1>5. Prefix(<<>>, Append(<<>>, "4xx"))
    <2>1. <<>> \in Seq(FrameKind) OBVIOUS
    <2>2. Prefix(<<>>, <<>>) BY <2>1, PrefixOfItself
    <2> QED BY <1>2, <2>1, <2>2, Prefixes
  <1>6. ASSUME NEW s \in Seq(FrameKind), Prefix(s, Opened(c)) PROVE Prefix(s, bad)
    <2> DEFINE one == Append(Opened(c), "error")
    <2>1. one \in Seq(FrameKind) BY <1>1, <1>2
    <2>2. Prefix(s, one) BY <1>1, <1>2, <1>6, Prefixes
    <2>3. bad = Append(one, "end") OBVIOUS
    <2> HIDE DEF one, bad
    <2> QED BY <1>2, <2>1, <2>2, <2>3, Prefixes
  <1> HIDE DEF head, bad
  <1>7. Prefix(head, bad) /\ Prefix(Opened(c), bad) BY <1>1, <1>6, PrefixOfItself
  <1>8. Prefix(Complete(c), Append(Complete(c), "closed"))
    <2>1. Prefix(Complete(c), Complete(c)) BY <1>1, PrefixOfItself
    <2> QED BY <1>1, <1>2, <2>1, Prefixes
  <1>9. Streams(c) => bad \in Protocols(c) /\ Append(Complete(c), "closed") \in Protocols(c)
    BY ProtocolsHave DEF bad
  <1>10. \A p \in Protocols(c) : p \in Seq(FrameKind) => Prefix(p, p) BY PrefixOfItself
  <1> QED BY <1>4, <1>5, <1>7, <1>8, <1>9, <1>10 DEF head

\* One status per request, a lone one or a stream's headers, wherever the
\* handler breaks down; the frames of a stream in the order its API asks for,
\* text only between the opening and the closing ones, an error or a finish
\* and never both, nothing behind the end; and a client that stayed has a
\* complete answer once its handler is done with it, or a stream broken off
\* and a connection closed.
THEOREM OneAnswerHolds == Spec => []OneAnswer
  <1>1. Init => Reasons /\ Sent /\ Showing BY SentInit, ShownInit
  <1>2. (Types /\ Course) /\ (Reasons /\ Sent /\ Showing) /\ [Next]_vars
          => (Reasons /\ Sent /\ Showing)'
    BY ReasonsStep, SentStep, ShownStep
  <1>3. Types /\ Showing => OneAnswer
    <2> SUFFICES ASSUME Types, Showing, NEW c \in Turn
                 PROVE  /\ \E p \in Protocols(c) : Prefix(Shown(c), p)
                        /\ InOrder(wire[c])
                        /\ pc[c] = "served" /\ peer[c] = "here" => Shown(c) \in Protocols(c)
      BY DEF OneAnswer, InOrder
    <2>0. ShownTo(c) /\ pc[c] \in Place /\ peer[c] \in {"here", "gone"}
      BY DEF Showing, Types
    <2>1. ASSUME NEW f, Reads(wire[c], f), \E p \in Protocols(c) : Prefix(f, p)
          PROVE  (\E p \in Protocols(c) : Prefix(Shown(c), p)) /\ InOrder(wire[c])
      <3>1. Shown(c) = f /\ InOrder(wire[c]) BY <2>1, ShownIsShows DEF Reads
      <3> QED BY <2>1, <3>1
    <2>2. CASE peer[c] = "gone"
      <3>1. wire[c] = <<>> BY <2>0, <2>2 DEF ShownTo
      <3>2. Reads(wire[c], <<>>) BY <3>1, ShowsNothing DEF Reads, InOrder
      <3> QED BY <2>1, <2>2, <3>2, BeginningOfAnswer
    <2>3. CASE peer[c] = "here" /\ pc[c] \in {"leaving", "served"}
      <3>1. PICK p \in Protocols(c) : Reads(wire[c], p) BY <2>0, <2>3 DEF ShownTo
      <3>2. Prefix(p, p) BY <3>1, BeginningOfAnswer DEF Reads, Shows
      <3>3. Shown(c) = p BY <3>1, ShownIsShows DEF Reads
      <3> QED BY <2>1, <3>1, <3>2, <3>3
    <2>4. CASE peer[c] = "here" /\ pc[c] \notin {"leaving", "served"}
      <3>1. PICK f : /\ Reads(wire[c], f)
                     /\ \/ f = <<>>
                        \/ Streams(c) /\ f \in {Append(<<>>, "200_SSE"), Opened(c), Complete(c)}
        BY <2>0, <2>4, OpenReads DEF ShownTo, Place
      <3>2. \E p \in Protocols(c) : Prefix(f, p) BY <3>1, BeginningOfAnswer
      <3> QED BY <2>1, <2>4, <3>1, <3>2
    <2> QED BY <2>0, <2>2, <2>3, <2>4
  <1> QED BY <1>1, <1>2, <1>3, CourseInvariant, PTL DEF Spec

-----------------------------------------------------------------------------
\* The front end asks of the engine only what the engine promises: whatever
\* the handlers, their clients and the watchdog do, the turns they see behave
\* as Turns says, which GenieEngine implements (EngineRefinement_proofs).
THEOREM ServerUsesTurns == Spec => TurnsSpec
  <1>1. Init => TurnsInit BY DEF Init
  <1>2. Types /\ [Next]_vars => [TurnsNext]_service
    <2> SUFFICES ASSUME Types, [Next]_vars PROVE TurnsNext \/ service' = service
      OBVIOUS
    <2>1. ASSUME NEW c \in Turn, NEW named \in BOOLEAN, Abort(c, named) PROVE TurnsNext
      BY <2>1 DEF TurnsNext
    <2>2. ASSUME NEW c \in Turn, Loses(c) PROVE TurnsNext \/ service' = service
      BY <2>1, <2>2 DEF Loses
    <2>3. ASSUME NEW c \in Turn, NEW e, Heard(c, e) PROVE TurnsNext \/ service' = service
      BY <2>2, <2>3 DEF Heard
    <2>4. ASSUME NEW c \in Turn, Handle(c) PROVE TurnsNext \/ service' = service
      <3>1. CASE \/ BadRequest(c) \/ HealthGate(c) \/ Enter(c) \/ Unfit(c) \/ Fault(c)
                 \/ Release(c)
        BY <3>1 DEF BadRequest, HealthGate, Enter, Unfit, Fault, Release
      <3>2. CASE Headers(c) \/ Start(c) \/ Bill(c) \/ Fail(c) \/ Finish(c)
        <4>1. service' = service \/ \E e : Heard(c, e)
          BY <3>2, WritingIsHeard DEF Headers, Start, Bill, Fail, Finish
        <4> QED BY <2>3, <4>1
      <3>3. CASE Generate(c) BY <3>3 DEF Generate, TurnsNext
      <3>4. CASE Consume(c)
        <4>1. \E e : Heard(c, e) BY <3>4, ConsumeIsHeard
        <4> QED BY <2>3, <4>1
      <3>5. CASE Break(c) BY <2>2, <3>5 DEF Break
      <3> QED BY <2>4, <3>1, <3>2, <3>3, <3>4, <3>5 DEF Handle
    <2>5. ASSUME NEW c \in Turn, CountStarts(c) \/ CountEnds(c) PROVE TurnsNext
      BY <2>5, ServerAssumption DEF CountStarts, CountEnds, TurnsNext
    <2>6. ASSUME NEW c \in Turn, Engine(c) PROVE TurnsNext
      BY <2>6 DEF Engine, TurnsNext
    <2>7. ASSUME NEW c \in Turn, turn[c].named \in BOOLEAN,
                 Bark(c) \/ Abort(c, turn[c].named)
          PROVE  TurnsNext
      BY <2>1, <2>7 DEF Bark
    <2>8. \A c \in Turn : turn[c].named \in BOOLEAN BY DEF Types, TurnType
    <2>9. ASSUME NEW c \in Turn, Say(c) \/ Depart(c) PROVE service' = service
      BY <2>9 DEF Say, Depart
    <2>10. CASE Shutdown BY <2>7, <2>8, <2>10 DEF Shutdown, TurnsNext
    <2>11. CASE UNCHANGED vars BY <2>11 DEF vars
    <2>12. CASE Next
      BY <2>4, <2>5, <2>6, <2>7, <2>8, <2>9, <2>10, <2>11, <2>12 DEF Next, Rest
    <2> QED BY <2>11, <2>12
  <1> QED BY <1>1, <1>2, CourseInvariant, PTL DEF Spec, TurnsSpec
=============================================================================
