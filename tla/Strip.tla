------------------------------- MODULE Strip -------------------------------
(***************************************************************************)
(* What becomes of the text of a generation on its way to the client:      *)
(* _OrphanGate over the chunks of a stream, _maybe_strip_think and         *)
(* parse_tool_calls over a whole one.  The two ways see the same text, one *)
(* as it grows, in chunks that may end anywhere, inside a tag as well.     *)
(*                                                                         *)
(* A text is a sequence of symbols: a newline, a blank, a word, a tag.     *)
(* The closing think tag is two, "</th" and "ink>", so that a chunk can    *)
(* end in it.  A tool call's body is one, by what json.loads and           *)
(* _tool_arguments make of it.                                             *)
(***************************************************************************)
EXTENDS Naturals, FiniteSets, Sequences, FiniteSetsExt

CONSTANTS
  Words,      \* symbols of a plain generation
  ToolWords,  \* symbols of one whose request has tools
  Want,       \* requests, and the settings they are served under
  MaxText,    \* symbols a generation may have
  MaxToolText,
  MaxChunk,   \* symbols a chunk may have
  Unbounded   \* a negative GENIE_ORPHAN_HOLD_CHARS

ASSUME StripAssumption ==
  /\ MaxText \in Nat /\ MaxToolText \in Nat /\ MaxChunk \in Nat \ {0}
  /\ Unbounded \notin Nat
  /\ Want \subseteq [stream : BOOLEAN, tools : BOOLEAN, prefilled : BOOLEAN,
                     hold : Nat \cup {Unbounded}, strip : BOOLEAN]

VARIABLES
  want,    \* [stream, tools, prefilled, hold, strip]: the last two are
           \* GENIE_ORPHAN_HOLD_CHARS and GENIE_STRIP_THINK
  said,    \* the chunks the model has said, joined
  gate,    \* the _OrphanGate
  sent,    \* the text in the frames sent
  answer   \* at the end: what a buffered reply says, and its calls

vars == <<want, said, gate, sent, answer>>

\* Sent as it is said; anything else is held whole, tool streams included.
Streamed == want.stream /\ ~want.tools

-----------------------------------------------------------------------------
(* Texts *)

Blank == {"nl", "sp"}
lstrip(text) ==
  LET solid == {k \in DOMAIN text : text[k] \notin Blank}
  IN  IF solid = {} THEN <<>> ELSE SubSeq(text, Min(solid), Len(text))
strip(text) ==
  LET solid == {k \in DOMAIN text : text[k] \notin Blank}
  IN  IF solid = {} THEN <<>> ELSE SubSeq(text, Min(solid), Max(solid))

Tag(text, k) == k + 1 \in DOMAIN text /\ text[k] = "</th" /\ text[k + 1] = "ink>"
Spaces(text, first, last) == \A k \in first .. last : text[k] = "sp"

\* Where the line begins that holds only the tag at k, blanks aside, and where
\* that line's text ends.  The newline before it is part of the match, the one
\* after it is not; mid-stream there has to be one.
Anchors(text, k, first, last, mid) ==
  /\ Tag(text, k)
  /\ first \in 1 .. k /\ Spaces(text, first, k - 1) /\ (first = 1 \/ text[first - 1] = "nl")
  /\ last \in k + 1 .. Len(text) /\ Spaces(text, k + 2, last)
  /\ IF last = Len(text) THEN ~mid ELSE text[last + 1] = "nl"

\* _ORPHAN_CLOSE_RE, or _ORPHAN_CLOSE_MID_RE: <<first, last>> of the matches.
Closes(text, mid) ==
  {m \in (DOMAIN text) \X (DOMAIN text) :
     \E k \in DOMAIN text : Anchors(text, k, m[1], m[2], mid)}

\* The first match.
Close(text, mid) ==
  CHOOSE m \in Closes(text, mid) : \A n \in Closes(text, mid) : m[1] <= n[1]

\* "<think>" ahead of the match.
Opened(text, m) == \E k \in 1 .. m[1] - 1 : text[k] = "<think>"

After(text, m) == SubSeq(text, m[2] + 1, Len(text))

_strip_orphan_think(text) ==
  IF Closes(text, FALSE) = {} \/ Opened(text, Close(text, FALSE)) THEN text
  ELSE lstrip(After(text, Close(text, FALSE)))

\* The opening tags from k on that are closed somewhere, and what is behind the
\* first of them, its close and the blanks after that.
Opens(text, k) ==
  {a \in k .. Len(text) : text[a] = "<think>" /\ \E b \in a .. Len(text) : Tag(text, b)}
BehindPair(text, k) ==
  LET tag == Min({n \in Min(Opens(text, k)) .. Len(text) : Tag(text, n)})
  IN  lstrip(SubSeq(text, tag + 2, Len(text)))

\* _THINK_RE.sub: the pairs and the blanks after them, from left to right.
Pairs(text) ==
  LET drop[k \in 1 .. Len(text) + 1] ==
        IF Opens(text, k) = {} THEN SubSeq(text, k, Len(text))
        ELSE SubSeq(text, k, Min(Opens(text, k)) - 1)
               \o drop[Len(text) + 1 - Len(BehindPair(text, k))]
  IN  drop[1]

_maybe_strip_think(text, prefilled) ==
  LET t == IF prefilled THEN _strip_orphan_think(text) ELSE text
  IN  IF want.strip THEN Pairs(t) ELSE t

-----------------------------------------------------------------------------
(* Tool calls.  A body is "call" (a name, and arguments that come to an     *)
(* object), "name" (a name and no arguments), "scalar" (arguments that do   *)
(* not) or anything else, which does not parse or names nothing.            *)

Ends == [x \in {"<tool_call>", "<tool_use>"} |->
           IF x = "<tool_call>" THEN "</tool_call>" ELSE "</tool_use>"]

\* What closes a tag, and the opening tags from k on that are closed.
Closers(text, a) == {b \in a + 1 .. Len(text) : text[b] = Ends[text[a]]}
Openers(text, k) ==
  {a \in k .. Len(text) : text[a] \in DOMAIN Ends /\ Closers(text, a) # {}}

\* An opening tag and the first closing one of its kind.
FirstBlock(text, k) ==
  LET a == Min(Openers(text, k)) IN <<a, Min(Closers(text, a))>>

\* _TOOL_CALL_RE.finditer: a block, and then what comes after it.
Blocks(text) ==
  LET from[k \in 1 .. Len(text) + 1] ==
        IF Openers(text, k) = {} THEN {}
        ELSE {FirstBlock(text, k)} \cup from[FirstBlock(text, k)[2] + 1]
  IN  from[1]

Body(text, block) == strip(SubSeq(text, block[1] + 1, block[2] - 1))

\* Any body that parses and names something, whatever its arguments are.
Mutant_usable(body) == body \in {<<"call">>, <<"name">>, <<"scalar">>}
usable(body) == body \in {<<"call">>, <<"name">>}

Inside(spans, k) == \E block \in spans : k \in block[1] .. block[2]

\* The text between and around the spans.
Outside(text, spans) ==
  LET out[n \in 0 .. Len(text)] ==
        IF n = 0 THEN <<>>
        ELSE IF Inside(spans, n) THEN out[n - 1] ELSE Append(out[n - 1], text[n])
  IN  out[Len(text)]

\* The visible text, and the blocks taken for calls; <<0, 0>> is the whole
\* text taken for one, bare.
parse_tool_calls(text) ==
  LET spans == {block \in Blocks(text) : usable(Body(text, block))}
      visible == strip(Outside(text, spans))
  IN  IF spans = {} /\ visible = <<"call">>
      THEN [text |-> <<>>, calls |-> {<<0, 0>>}]
      ELSE [text |-> visible, calls |-> spans]

-----------------------------------------------------------------------------
(* _OrphanGate.  An operation gives the gate it leaves, and what is out.    *)

NewGate == [buf |-> <<>>, open |-> want.hold = 0 \/ ~want.prefilled, dropped |-> FALSE]

\* Open, with nothing held.
OpenGate == [buf |-> <<>>, open |-> TRUE, dropped |-> FALSE]

Result(g, out) == [gate |-> g, out |-> out]

_after_drop(g, text) ==
  IF ~g.dropped THEN Result(g, text)
  ELSE Result([g EXCEPT !.dropped = lstrip(text) = <<>>], lstrip(text))

\* With the anchor of a whole text.
Mutant_MidClose == FALSE
\* The end of what is held is not the end of what will be said.
MidClose == TRUE

feed(g, chunk) ==
  LET held == g.buf \o chunk
      m == Close(held, MidClose)
  IN  IF g.open THEN _after_drop(g, chunk)
      ELSE IF Closes(held, MidClose) # {}
      THEN IF Opened(held, m) THEN Result(OpenGate, held)
           ELSE _after_drop([OpenGate EXCEPT !.dropped = TRUE], After(held, m))
      ELSE IF want.hold # Unbounded /\ Len(held) >= want.hold
      THEN Result(OpenGate, held)
      ELSE Result([g EXCEPT !.buf = held], <<>>)

\* What is held at the end is dropped with the gate.
Mutant_flush(g) == Result(OpenGate, <<>>)
flush(g) ==
  IF g.open \/ g.buf = <<>> THEN Result(g, <<>>)
  ELSE Result(OpenGate, _strip_orphan_think(g.buf))

-----------------------------------------------------------------------------
NoAnswer == [text |-> <<>>, calls |-> {}, done |-> FALSE]

Init ==
  /\ want \in Want
  /\ said = <<>> /\ sent = <<>>
  /\ gate = NewGate
  /\ answer = NoAnswer

Chunks ==
  LET words == IF want.tools THEN ToolWords ELSE Words
  IN  UNION {[1 .. n -> words] : n \in 1 .. (IF Streamed THEN MaxChunk ELSE 1)}

\* The callback hands over a chunk, and _run feeds it to the gate, if any.
Say(chunk) ==
  /\ ~answer.done
  /\ Len(said) + Len(chunk) <= (IF want.tools THEN MaxToolText ELSE MaxText)
  /\ said' = said \o chunk
  /\ IF Streamed
     THEN LET r == feed(gate, chunk) IN gate' = r.gate /\ sent' = sent \o r.out
     ELSE UNCHANGED <<gate, sent>>
  /\ UNCHANGED <<want, answer>>

\* The generation is over, for whatever reason: what the gate still holds
\* goes out, or the whole text is answered.
Finish ==
  /\ ~answer.done
  /\ IF Streamed
     THEN LET r == flush(gate)
          IN  /\ gate' = r.gate /\ sent' = sent \o r.out
              /\ answer' = [answer EXCEPT !.done = TRUE]
     ELSE LET text == _maybe_strip_think(said, want.prefilled)
              out == IF want.tools THEN parse_tool_calls(text)
                     ELSE [text |-> text, calls |-> {}]
          IN  /\ answer' = [text |-> out.text, calls |-> out.calls, done |-> TRUE]
              /\ UNCHANGED <<gate, sent>>
  /\ UNCHANGED <<want, said>>

Next == Finish \/ \E chunk \in Chunks : Say(chunk)

Spec == Init /\ [][Next]_vars

-----------------------------------------------------------------------------
(***************************************************************************)
(* Properties.                                                             *)
(***************************************************************************)
TypeOK ==
  /\ want \in Want
  /\ said \in Seq(Words \cup ToolWords) /\ Len(said) <= MaxText + MaxToolText
  /\ gate.open \in BOOLEAN /\ gate.dropped \in BOOLEAN
  /\ gate.buf \in Seq(Words) /\ (gate.open => gate.buf = <<>>)
  /\ sent \in Seq(Words) /\ Len(sent) <= Len(said)
  /\ answer.done \in BOOLEAN

\* However the chunks fall, a stream says in the end what a buffered answer
\* would have said of the same generation ("this is also what keeps a streamed
\* result identical to the buffered one").  Under GENIE_STRIP_THINK the two
\* differ, and by the <think> pairs alone: those are taken from a buffered
\* answer and never from a stream ("always faithful to the model").  A bounded
\* hold may miss a tag that is not complete, line and all, within it, and then
\* everything is sent.
StreamIsBuffered ==
  Streamed /\ answer.done =>
    LET buffered == _maybe_strip_think(said, want.prefilled)
    IN  \/ /\ ~want.strip => sent = buffered
           /\ want.strip => /\ Pairs(sent) = buffered
                            /\ sent = IF want.prefilled THEN _strip_orphan_think(said)
                                      ELSE said
        \/ /\ want.hold # Unbounded /\ sent = said
           /\ Close(said, FALSE)[2] >= want.hold

\* Before there is an unopened closing tag on a line of its own, nothing is
\* lost and nothing is out of order: what was sent and what is held are what
\* was said ("generated text lost or reordered").  Types are kept with it.
NothingLost ==
  /\ TypeOK
  /\ Streamed /\ (Closes(said, FALSE) = {} \/ Opened(said, Close(said, FALSE))) =>
       sent \o gate.buf = said

\* The model's output reaches a client with tools once: every word of it is
\* visible or part of a call, and a call is only what can be made ("a
\* malformed block is LEFT IN the visible text rather than silently dropped").
CallsOrText ==
  want.tools /\ answer.done =>
    LET text == _maybe_strip_think(said, want.prefilled)
        solid == {k \in DOMAIN text : text[k] \notin Blank}
        calls == {IF c = <<0, 0>> THEN <<1, Len(text)>> ELSE c : c \in answer.calls}
        within == {k \in solid : \E c \in calls : k \in c[1] .. c[2]}
    IN  /\ Cardinality(solid) = Cardinality(within) +
             Cardinality({k \in DOMAIN answer.text : answer.text[k] \notin Blank})
        /\ \A c \in calls : Cardinality({k \in within : k \in c[1] .. c[2]
                                           /\ text[k] \in {"call", "name"}}) = 1
        /\ \A c \in calls : \A k \in within :
             k \in c[1] .. c[2] => text[k] \notin {"word", "scalar"}

=============================================================================
