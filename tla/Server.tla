------------------------------- MODULE Server -------------------------------
(***************************************************************************)
(* The HTTP front end: Handler.do_POST and _run, one thread per request,   *)
(* over the turns the engine offers (Turns).  A request is admitted by     *)
(* _INFLIGHT, sized, generated for by a worker that it consumes, and       *)
(* answered through an emitter on a socket whose peer may leave.           *)
(*                                                                         *)
(* wire[c] is what reached client c: statuses and frames, the frames of a  *)
(* text with the chunks it carries.  Frames of one moment go out in one    *)
(* step; keep-alives are probes and not recorded.  Whether a write fails   *)
(* once the peer has left is up to the network.                            *)
(***************************************************************************)
EXTENDS Turns, Sequences

CONSTANTS
  Request,      \* the requests: [api, stream, tools, usage]
  MaxInflight,  \* MAX_INFLIGHT
  Cap,          \* chunks a generation may have
  ProbeEvery,   \* 8 in _run
  Counter       \* the engine's holder while a handler counts or summarises

ASSUME ServerAssumption ==
  /\ MaxInflight \in Nat \ {0} /\ Cap \in Nat /\ ProbeEvery \in Nat \ {0}
  /\ Other = {Counter} /\ Counter \notin Turn /\ Nobody \notin Turn \cup Other
  /\ Request \subseteq [api : {"openai", "anthropic"}, stream : BOOLEAN,
                        tools : BOOLEAN, usage : BOOLEAN]

VARIABLES
  req,       \* what each client asks
  peer,      \* whether it is still there
  pc,        \* where its handler is
  em,        \* the handler's locals: the emitter's latch, the gate, the chunks
  said,      \* chunks its worker has put in the queue
  wire,      \* what has reached it
  permits    \* _INFLIGHT

handlers == <<req, peer, pc, em, said, wire, permits>>
vars == <<service, handlers>>

Fresh == [gone |-> FALSE, open |-> FALSE, held |-> <<>>, chunks |-> <<>>,
          counting |-> FALSE, unheard |-> 0]

Init ==
  /\ TurnsInit /\ turn = [c \in Turn |-> Unasked]
  /\ req \in [Turn -> Request]
  /\ peer = [c \in Turn |-> "here"]
  /\ pc = [c \in Turn |-> "door"]
  /\ em = [c \in Turn |-> Fresh]
  /\ said = [c \in Turn |-> 0]
  /\ wire = [c \in Turn |-> <<>>]
  /\ permits = MaxInflight

Frame(is) == [is |-> is, chunks |-> <<>>]
Text(chunks) == IF chunks = <<>> THEN <<>> ELSE <<[is |-> "text", chunks |-> chunks]>>
Frames(kinds) == [i \in DOMAIN kinds |-> Frame(kinds[i])]

To(c, place) == pc' = [pc EXCEPT ![c] = place]
With(c, e) == em' = [em EXCEPT ![c] = e]
Streams(c) == req[c].stream
Gated(c) == req[c].stream /\ ~req[c].tools

\* The latch alone would leave the turn running.
Mutant_Loses(c) == UNCHANGED service
\* lost(): the latch, and the abort of this thread's turn, if it has one.
Loses(c) == IF turn[c].at \in Live THEN Abort(c, FALSE) ELSE UNCHANGED service

\* One or more writes.  `e` is what else becomes of the locals.
Writes(c, frames, e) ==
  \/ /\ e.gone \/ frames = <<>>
     /\ With(c, e) /\ UNCHANGED <<wire, service>>
  \/ /\ ~e.gone /\ frames # <<>> /\ peer[c] = "here"
     /\ wire' = [wire EXCEPT ![c] = @ \o frames]
     /\ With(c, e) /\ UNCHANGED service
  \/ /\ ~e.gone /\ frames # <<>> /\ peer[c] = "gone"
     /\ \/ With(c, e) /\ UNCHANGED service
        \/ With(c, [e EXCEPT !.gone = TRUE]) /\ Loses(c)
     /\ UNCHANGED wire

\* probe(): a keep-alive that may fail, or the socket's own answer.
Probes(c, e) ==
  /\ UNCHANGED wire
  /\ \/ (peer[c] = "here" \/ Streams(c)) /\ With(c, e) /\ UNCHANGED service
     \/ peer[c] = "gone" /\ With(c, [e EXCEPT !.gone = TRUE]) /\ Loses(c)

\* A status of its own, on a response that has none yet.
Answers(c, status) ==
  wire' = IF peer[c] = "here" THEN [wire EXCEPT ![c] = Append(@, Frame(status))] ELSE wire

-----------------------------------------------------------------------------
(* The door: do_POST *)

\* Bad length, bad JSON, no such route, tools the bundle cannot do.
BadRequest(c) ==
  /\ pc[c] = "door" /\ To(c, "served")
  /\ Answers(c, "4xx")
  /\ UNCHANGED <<service, req, peer, em, said, permits>>

\* The health gate, ahead of the permit: refused only while somebody has
\* held the engine for too long.
HealthGate(c) ==
  /\ pc[c] = "door"
  /\ \/ holder # Nobody /\ Answers(c, "503") /\ To(c, "served")
     \/ UNCHANGED wire /\ To(c, "checked")
  /\ UNCHANGED <<service, req, peer, em, said, permits>>

\* Acquired without asking whether there is a permit left.
Mutant_Enter(c) ==
  /\ pc[c] = "checked"
  /\ UNCHANGED wire /\ To(c, "sizing") /\ permits' = permits - 1
  /\ UNCHANGED <<service, req, peer, em, said>>
Enter(c) ==
  /\ pc[c] = "checked"
  /\ IF permits = 0
     THEN Answers(c, "429") /\ To(c, "served") /\ UNCHANGED permits
     ELSE UNCHANGED wire /\ To(c, "sizing") /\ permits' = permits - 1
  /\ UNCHANGED <<service, req, peer, em, said>>

-----------------------------------------------------------------------------
(* Token counts and summaries: native calls under the engine lock, unless  *)
(* the memo has the count.                                                  *)

\* Opening an Anthropic stream counts the prompt; a body and a usage frame
\* count prompt and text, but not for a client known to be gone.
Counts(c) ==
  \/ pc[c] = "sizing"
  \/ pc[c] = "opening" /\ req[c].api = "anthropic" /\ Streams(c)
  \/ pc[c] = "billing" /\ ~em[c].gone
                       /\ (Streams(c) /\ req[c].api = "openai" => req[c].usage)

CountStarts(c) ==
  /\ Counts(c) /\ ~em[c].counting
  /\ Borrow(Counter)
  /\ With(c, [em[c] EXCEPT !.counting = TRUE])
  /\ UNCHANGED <<req, peer, pc, said, wire, permits>>

CountEnds(c) ==
  /\ em[c].counting
  /\ Return(Counter)
  /\ With(c, [em[c] EXCEPT !.counting = FALSE])
  /\ UNCHANGED <<req, peer, pc, said, wire, permits>>

-----------------------------------------------------------------------------
(* _openai_chat / _anthropic_messages, then _run up to the generation *)

\* What the handlers refuse themselves: no messages, a prompt that cannot be
\* sent or made to fit.  What raises there is a Fault.
Unfit(c) ==
  /\ pc[c] = "sizing" /\ ~em[c].counting
  /\ Answers(c, "4xx") /\ To(c, "leaving")
  /\ UNCHANGED <<service, req, peer, em, said, permits>>

\* The SSE headers, or the probe of a response without a first frame.
Headers(c) ==
  /\ pc[c] = "sizing" /\ ~em[c].counting
  /\ To(c, "opening")
  /\ IF Streams(c) THEN Writes(c, <<Frame("200_SSE")>>, em[c])
                   ELSE Probes(c, em[c])
  /\ UNCHANGED <<req, peer, said, permits>>

FirstFrames(c) ==
  CASE ~Streams(c) -> <<>>
    [] Streams(c) /\ req[c].api = "openai" -> <<Frame("role")>>
    [] Streams(c) /\ req[c].api = "anthropic" /\ req[c].tools -> <<Frame("message_start")>>
    [] OTHER -> Frames(<<"message_start", "block_start">>)

Start(c) ==
  /\ pc[c] = "opening" /\ ~em[c].counting
  /\ To(c, "started")
  /\ Writes(c, FirstFrames(c), em[c])
  /\ UNCHANGED <<req, peer, said, permits>>

\* Left before the query: it is not asked for.
GivesUp(c) == em[c].gone
Generate(c) ==
  /\ pc[c] = "started"
  /\ IF GivesUp(c) THEN To(c, "leaving") /\ UNCHANGED service
                   ELSE To(c, "generating") /\ Ask(c)
  /\ UNCHANGED <<req, peer, em, said, wire, permits>>

-----------------------------------------------------------------------------
(* The generation, consumed chunk by chunk *)

Say(c) ==
  /\ turn[c].at = "running" /\ said[c] < Cap
  /\ said' = [said EXCEPT ![c] = @ + 1]
  /\ UNCHANGED <<service, req, peer, pc, em, wire, permits>>

\* Probing only for a gate that holds.
Mutant_Due(c) == Gated(c) /\ Len(em[c].chunks) % ProbeEvery = 0
Due(c) == Len(em[c].chunks) % ProbeEvery = 0

Consume(c) ==
  LET n == Len(em[c].chunks) + 1
      e == [em[c] EXCEPT !.chunks = Append(@, n),
                         !.unheard = IF peer[c] = "gone" /\ ~Streams(c) THEN @ + 1
                                    ELSE @]
  IN
  /\ pc[c] = "generating" /\ ~em[c].gone /\ Len(em[c].chunks) < said[c]
  /\ \/ /\ Gated(c) /\ em[c].open
        /\ Writes(c, Text(<<n>>), e)
     \/ /\ Gated(c) /\ ~em[c].open                     \* the gate opens
        /\ Writes(c, Text(Append(em[c].held, n)), [e EXCEPT !.open = TRUE, !.held = <<>>])
     \/ /\ Gated(c) /\ ~em[c].open                     \* or holds
        /\ LET h == [e EXCEPT !.held = Append(@, n)]
           IN IF Due(c) THEN Probes(c, h) ELSE With(c, h) /\ UNCHANGED <<wire, service>>
     \/ /\ ~Gated(c)
        /\ IF Due(c) THEN Probes(c, e) ELSE With(c, e) /\ UNCHANGED <<wire, service>>
  /\ UNCHANGED <<req, peer, pc, said, permits>>

\* `break`, and the close of the generator, which aborts its turn.
Break(c) ==
  /\ pc[c] = "generating" /\ em[c].gone
  /\ Loses(c)
  /\ To(c, "leaving")
  /\ UNCHANGED <<req, peer, em, said, wire, permits>>

\* The queue is empty and says how the turn ended; the gate is flushed.
Ended(c) == pc[c] = "generating" /\ ~em[c].gone
              /\ Len(em[c].chunks) = said[c] /\ turn[c].told # "none"
Flushed(c) == [em[c] EXCEPT !.held = <<>>]

\* A fragment taken for an answer.
Mutant_Bad(c) == turn[c].told \in {"error", "closing"}
\* A failure, a refusal, or a turn the server cut: never a finish.
Bad(c) == turn[c].told \in {"error", "closing", "cut"}

Fail(c) ==
  /\ Ended(c) /\ Bad(c)
  /\ To(c, "leaving")
  /\ IF Streams(c)
     THEN Writes(c, Text(em[c].held) \o Frames(<<"error", "end">>), Flushed(c))
     ELSE /\ Answers(c, IF turn[c].told = "error" THEN "500" ELSE "503_or_500")
          /\ UNCHANGED <<em, service>>
  /\ UNCHANGED <<req, peer, said, permits>>

\* finish() up to the counts: what is held back goes out, blocks close.
Finish(c) ==
  /\ Ended(c) /\ ~Bad(c)
  /\ To(c, "billing")
  /\ IF Streams(c)
     THEN LET whole == IF req[c].tools THEN Text(em[c].chunks) ELSE Text(em[c].held)
          IN Writes(c, IF req[c].api = "openai" THEN Append(whole, Frame("finish"))
                       ELSE IF req[c].tools THEN whole
                       ELSE Append(whole, Frame("block_stop")), Flushed(c))
     ELSE UNCHANGED <<em, wire, service>>
  /\ UNCHANGED <<req, peer, said, permits>>

LastFrames(c) ==
  IF req[c].api = "anthropic" THEN Frames(<<"finish", "end">>)
  ELSE IF req[c].usage THEN Frames(<<"usage", "end">>) ELSE <<Frame("end")>>

Bill(c) ==
  /\ pc[c] = "billing" /\ ~em[c].counting
  /\ To(c, "leaving")
  /\ IF Streams(c) THEN Writes(c, LastFrames(c), em[c])
     ELSE /\ wire' = IF peer[c] = "here"
                     THEN [wire EXCEPT ![c] = @ \o <<[is |-> "200", chunks |-> em[c].chunks]>>]
                     ELSE wire
          /\ UNCHANGED <<em, service>>
  /\ UNCHANGED <<req, peer, said, permits>>

\* The catch-all under gen(req), _answer_failure.  What a handler does not
\* anticipate raises while the request is read and sized, in the count that
\* opens a stream, in the strip and the tool parser behind the generation,
\* or in the counts of the finish; the generation's own failures are
\* caught and told (Fail).
Breaks(c) ==
  \/ pc[c] \in {"sizing", "opening", "billing"} /\ ~em[c].counting
  \/ Ended(c) /\ ~Bad(c)

\* Ahead of _generating the exception says whose fault it is; a stream has
\* its headers out from then on, and its connection is closed mid-response.
Failure(c) ==
  IF pc[c] = "sizing" THEN {"4xx", "500"}
  ELSE IF Streams(c) THEN {"closed"} ELSE {"500"}

\* A second status on a response that has one.
Mutant_Fault(c) ==
  /\ Breaks(c) /\ To(c, "leaving")
  /\ Answers(c, "500")
  /\ UNCHANGED <<service, req, peer, em, said, permits>>
Fault(c) ==
  /\ Breaks(c) /\ To(c, "leaving")
  /\ \E status \in Failure(c) : Answers(c, status)
  /\ UNCHANGED <<service, req, peer, em, said, permits>>

Release(c) ==
  /\ pc[c] = "leaving" /\ To(c, "served")
  /\ permits' = permits + 1
  /\ With(c, Fresh)
  /\ UNCHANGED <<service, req, peer, said, wire>>

-----------------------------------------------------------------------------
(* The engine, the clients, the process *)

Engine(c) ==
  /\ Take(c) \/ Give(c) \/ Refuse(c) \/ (Tell(c) /\ turn'[c].told # "discarded")
  /\ UNCHANGED handlers

\* The watchdog aborts a turn that has run for too long, shutdown any.
Bark(c) == turn[c].at = "running" /\ Abort(c, TRUE) /\ UNCHANGED handlers
Shutdown ==
  /\ \/ ~stopping /\ Stop
     \/ stopping /\ \E c \in Turn : turn[c].at = "running" /\ Abort(c, turn[c].named)
  /\ UNCHANGED handlers

\* What reached a client that left is of no interest any more.
Depart(c) ==
  /\ peer[c] = "here" /\ pc[c] # "served"
  /\ peer' = [peer EXCEPT ![c] = "gone"]
  /\ wire' = [wire EXCEPT ![c] = <<>>]
  /\ UNCHANGED <<service, req, pc, em, said, permits>>

Handle(c) ==
  \/ BadRequest(c) \/ HealthGate(c) \/ Enter(c) \/ Unfit(c) \/ Headers(c)
  \/ Start(c) \/ Generate(c) \/ Consume(c) \/ Break(c) \/ Fail(c) \/ Finish(c)
  \/ Bill(c) \/ Fault(c) \/ Release(c)

Rest ==
  /\ \A c \in Turn : pc[c] = "served" /\ (turn[c].told # "none" \/ turn[c].at = "idle")
  /\ UNCHANGED vars

Next ==
  \/ \E c \in Turn : \/ Handle(c) \/ CountStarts(c) \/ CountEnds(c) \/ Say(c)
                      \/ Engine(c) \/ Bark(c) \/ Depart(c)
  \/ Shutdown
  \/ Rest

Spec == Init /\ [][Next]_vars

-----------------------------------------------------------------------------
(* Properties *)

TypeOK ==
  /\ pc \in [Turn -> {"door", "checked", "sizing", "opening", "started",
                      "generating", "billing", "leaving", "served"}]
  /\ permits \in 0..MaxInflight
  /\ holder \in Turn \cup {Nobody, Counter}
  /\ \A c \in Turn : em[c].counting => holder = Counter
  /\ \A c \in Turn : Len(em[c].chunks) <= said[c] /\ said[c] <= Cap

Admitted == {c \in Turn : pc[c] \in {"sizing", "opening", "started", "generating",
                                     "billing", "leaving"}}

\* "Excess requests are rejected fast instead of piling up parked threads
\* behind the single-flight lock": workers waiting for the engine are no more
\* than the permits, although a worker outlives the handler that left it; and
\* whatever way a request leaves, its permit comes back once, so the server
\* never ends up refusing everyone.  Types are kept with it.
NoPileUp ==
  /\ TypeOK
  /\ Cardinality({c \in Turn : turn[c].at = "queued"}) <= MaxInflight
  /\ permits + Cardinality(Admitted) = MaxInflight

\* No handler goes away from a generation that still runs and that nobody
\* has asked to stop.
NoAbandonedTurn ==
  \A c \in Turn : pc[c] \in {"leaving", "served"} /\ turn[c].at \in Live => turn[c].aborted

\* What a client has been shown, text frames aside.
Shown(c) ==
  LET kept[i \in 0..Len(wire[c])] ==
        IF i = 0 THEN <<>>
        ELSE IF wire[c][i].is = "text" THEN kept[i - 1]
        ELSE Append(kept[i - 1], wire[c][i].is)
  IN kept[Len(wire[c])]

Prefix(s, t) == Len(s) <= Len(t) /\ \A i \in DOMAIN s : s[i] = t[i]

\* A stream as far as its generation, and as far as the counts of its finish.
Opened(c) ==
  IF req[c].api = "openai" THEN <<"200_SSE", "role">>
  ELSE IF req[c].tools THEN <<"200_SSE", "message_start">>
  ELSE <<"200_SSE", "message_start", "block_start">>
Complete(c) ==
  IF req[c].api = "openai" THEN Append(Opened(c), "finish")
  ELSE IF req[c].tools THEN Opened(c)
  ELSE Append(Opened(c), "block_stop")

\* What an answer may look like, text frames aside.
Refusals == {"4xx", "429", "503", "500"}
Bodies == {"200", "500", "503_or_500"}
Protocols(c) ==
  LET last == IF req[c].api = "anthropic" THEN <<"finish", "end">>
              ELSE IF req[c].usage THEN <<"usage", "end">> ELSE <<"end">>
  IN {<<s>> : s \in Refusals}
       \cup (IF Streams(c)
             THEN {Complete(c) \o last, Opened(c) \o <<"error", "end">>}
                    \cup {Append(seen, "closed") :
                            seen \in {<<"200_SSE">>, Opened(c), Complete(c)}}
             ELSE {<<s>> : s \in Bodies})

Closing == {"block_stop", "finish", "usage", "error", "end"}

\* One status per request, wherever it broke down: a stream's headers are
\* that status, so a 4xx or 500 comes ahead of them or not at all.  The
\* frames of a stream come in the order its API asks for, text only between
\* the opening and the closing ones, an error or a finish and never both,
\* nothing behind the end; and a client that stayed has a complete answer
\* when its handler is done, unless that broke down after the headers and
\* closed the connection.
OneAnswer ==
  \A c \in Turn :
    /\ \E p \in Protocols(c) : Prefix(Shown(c), p)
    /\ \A i, j \in DOMAIN wire[c] :
         i < j /\ wire[c][j].is = "text" => wire[c][i].is \notin Closing
    /\ pc[c] = "served" /\ peer[c] = "here" => Shown(c) \in Protocols(c)

Delivered(c) ==
  LET carried[i \in 0..Len(wire[c])] ==
        IF i = 0 THEN <<>> ELSE carried[i - 1] \o wire[c][i].chunks
  IN carried[Len(wire[c])]

\* A finish is sent for a turn that was done, and with everything it said,
\* each chunk once and in order, through the gate or past it; a turn cut by
\* the watchdog, or by shutdown having marked it, is never a finish.
FinishesAreWhole ==
  \A c \in Turn :
    (\E i \in DOMAIN wire[c] : wire[c][i].is \in {"finish", "200"}) =>
      /\ turn[c].told = "done"
      /\ Delivered(c) = [i \in 1..said[c] |-> i]
      /\ turn[c].how = "cut" => stopping /\ ~turn[c].named

\* A buffered answer asks the socket every ProbeEvery chunks, so fewer than
\* that are taken for a client that has left before its handler knows it.
DepartureNoticed ==
  \A c \in Turn : ~Streams(c) /\ ~em[c].gone => em[c].unheard < ProbeEvery

(***************************************************************************)
(* Every thread is scheduled; a phase counts finitely often, so a handler  *)
(* gets past its counts; native calls return; and the engine serves who    *)
(* waits (strongly fair, as in GenieEngine).                               *)
(***************************************************************************)
Fairness ==
  \A c \in Turn : SF_vars(Handle(c)) /\ WF_vars(CountEnds(c)) /\ SF_vars(Engine(c))

FairSpec == Spec /\ Fairness

\* Every request that arrives is disposed of, its permit included, whoever
\* else leaves, stalls or holds the engine.
EveryRequestServed ==
  \A c \in Turn : pc[c] = "door" ~> pc[c] = "served"
=============================================================================
