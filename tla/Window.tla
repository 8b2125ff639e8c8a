------------------------------- MODULE Window -------------------------------
(***************************************************************************)
(* How a conversation is made to fit the compiled context window: what is  *)
(* evicted (_fit), what is condensed into a note (_summarize_turns), and   *)
(* how the note is carried from one request of a stateless client to the   *)
(* next (_NOTE_STATE), by handlers that run concurrently.                  *)
(*                                                                         *)
(* A message is a role, a size in tokens, and the facts it states, which   *)
(* stand for its content.  A note is a size and the facts it stands for.   *)
(* The token counter is additive: a block costs its frame and its content. *)
(***************************************************************************)
EXTENDS Integers, SequencesExt

CONSTANTS
  Conversation, Handler,
  Script,         \* the histories a client may have, oldest message first
  Role,           \* whose a message may be
  Fact,           \* what a message may state
  Budget,         \* what n_ctx leaves a prompt: less max_tokens and the margin
  Frame,          \* tokens around each block of the rendered prompt
  DefaultSystem,  \* size of the template's default system text
  SummaryBudget,  \* what n_ctx leaves the summariser's prompt
  AskSize,        \* size of _SUMMARY_ASK in its frame
  TranscriptCap, MinTranscript,
  NoteSizes,      \* how long a summary may come out
  NoNote,         \* "" where the code keeps a note as a string
  MaxRequests

SYSTEM_ROLES == {"system", "developer"}
NOT_UNIT_START == SYSTEM_ROLES \cup {"tool"}
Note == [size : Nat, of : Seq(Fact)]
Message == [role : Role, size : Nat, facts : Seq(Fact), note : Note \cup {NoNote}]

ASSUME WindowAssumption ==
  /\ NOT_UNIT_START \subseteq Role
  /\ Script \subseteq Seq(Message) /\ NoNote \notin Note /\ Budget \subseteq Int
  /\ Frame \in Nat /\ DefaultSystem \in Nat /\ AskSize \in Nat
  /\ TranscriptCap \in Nat /\ MinTranscript \in Nat \ {0}
  /\ NoteSizes \subseteq Nat \ {0}
  /\ MaxRequests \in Nat

VARIABLES
  history,    \* what each client resends, in full or up to some message
  slot,       \* _NOTE_STATE
  handler,    \* where each handler is in build_windowed
  requests    \* how many there have been

vars == <<history, slot, handler, requests>>

EmptySlot == [of |-> <<>>, carried |-> NoNote, note |-> NoNote]

Total(sizes) ==
  LET upto[k \in 0..Len(sizes)] == IF k = 0 THEN 0 ELSE upto[k - 1] + sizes[k]
  IN upto[Len(sizes)]
Sizes(msgs) == [i \in DOMAIN msgs |-> msgs[i].size]
Facts(msgs) ==
  LET upto[k \in 0..Len(msgs)] == IF k = 0 THEN <<>> ELSE upto[k - 1] \o msgs[k].facts
  IN upto[Len(msgs)]
Least(a, b) == IF a < b THEN a ELSE b
From(msgs, k) == SubSeq(msgs, k + 1, Len(msgs))

-----------------------------------------------------------------------------
(* The system turn and the note in it *)

\* The run of system messages that opens the conversation.
LeadingSystem(msgs) ==
  CHOOSE n \in 0..Len(msgs) :
    /\ \A i \in 1..n : msgs[i].role \in SYSTEM_ROLES
    /\ n < Len(msgs) => msgs[n + 1].role \notin SYSTEM_ROLES

\* What _split_note finds in the joined text of the system turn: the last
\* marker, and everything from there to the end as the note.
Marked(sys) == {i \in DOMAIN sys : sys[i].note # NoNote}
Bare(m) == [m EXCEPT !.note = NoNote]
SplitNote(sys) ==
  IF Marked(sys) = {} THEN [base |-> sys, note |-> NoNote]
  ELSE LET at == Max(Marked(sys))
           after == From(sys, at)
       IN [base |-> Append(SubSeq(sys, 1, at - 1), Bare(sys[at])),
           note |-> [size |-> sys[at].note.size + Total(Sizes(after)),
                     of |-> sys[at].note.of \o Facts(after)]]

\* One system message, the note last, seeded with the default when empty.
ApplyNote(sys, note) ==
  LET base == SplitNote(sys).base
      size == Total(Sizes(base))
  IN << [role |-> "system", facts |-> Facts(base), note |-> note,
         size |-> IF size = 0 THEN DefaultSystem ELSE size] >>

NoteSize(m) == IF m.note = NoNote THEN 0 ELSE Frame + m.note.size

(* What TEMPLATE.build makes of the messages, in tokens *)
SystemTurn(sys) ==
  LET said == Total([i \in DOMAIN sys |-> sys[i].size + NoteSize(sys[i])])
      size == IF said = 0 THEN DefaultSystem ELSE said
  IN IF size = 0 THEN 0 ELSE Frame + size

\* A system message in mid-conversation is a block unless it is empty;
\* consecutive tool results share one.
Block(msgs, i) ==
  CASE msgs[i].role \in SYSTEM_ROLES /\ msgs[i].size = 0 -> 0
    [] msgs[i].role = "tool" /\ i > 1 /\ msgs[i - 1].role = "tool" -> msgs[i].size
    [] OTHER -> Frame + msgs[i].size

Tokens(msgs) ==
  LET lead == LeadingSystem(msgs)
      body == From(msgs, lead)
  IN SystemTurn(SubSeq(msgs, 1, lead)) + Total([i \in DOMAIN body |-> Block(body, i)])

-----------------------------------------------------------------------------
(* _fit *)

\* How many messages stand before the current unit, given those after the
\* system turn; 0 when none of them starts one.
UnitStart(rest) ==
  LET starts == {i \in DOMAIN rest : rest[i].role \notin NOT_UNIT_START}
  IN IF starts = {} THEN 0 ELSE Max(starts) - 1

\* How many really go when k are asked to: on past what may not open.
Advance(rest, k) ==
  LET last == UnitStart(rest)
      past == {n \in k..last : n = last \/ rest[n + 1].role \notin NOT_UNIT_START}
  IN Min(past)

Mutant_Bisect(sys, rest, budget) ==
  LET last == UnitStart(rest)
      search[s \in [lo : 1..last + 1, hi : 0..last, best : 0..last]] ==
        IF s.lo >= s.hi THEN s.best
        ELSE LET mid == (s.lo + s.hi) \div 2
                 n == Advance(rest, mid)
             IN search[IF Tokens(sys \o From(rest, n)) <= budget
                       THEN [lo |-> s.lo, hi |-> mid - 1, best |-> n]
                       ELSE [lo |-> mid + 1, hi |-> s.hi, best |-> s.best]]
  IN search[[lo |-> 1, hi |-> last, best |-> 0]]
\* The bisection: how many messages to drop, or 0 when no cut is enough.
Bisect(sys, rest, budget) ==
  LET last == UnitStart(rest)
      search[s \in [lo : 1..last + 1, hi : 0..last, best : 0..last]] ==
        IF s.lo > s.hi THEN s.best
        ELSE LET mid == (s.lo + s.hi) \div 2
                 n == Advance(rest, mid)
             IN search[IF Tokens(sys \o From(rest, n)) <= budget
                       THEN [lo |-> s.lo, hi |-> mid - 1, best |-> n]
                       ELSE [lo |-> mid + 1, hi |-> s.hi, best |-> s.best]]
  IN search[[lo |-> 1, hi |-> last, best |-> 0]]

\* How many messages after the system turn go, and whether the rest fits.
Fit(msgs, budget) ==
  LET lead == LeadingSystem(msgs)
      sys == SubSeq(msgs, 1, lead)
      rest == From(msgs, lead)
      best == Bisect(sys, rest, budget)
  IN CASE Tokens(msgs) <= budget -> [cut |-> 0, fits |-> TRUE]
       [] Tokens(msgs) > budget /\ UnitStart(rest) = 0 -> [cut |-> 0, fits |-> FALSE]
       [] Tokens(msgs) > budget /\ UnitStart(rest) > 0 /\ best = 0 ->
            [cut |-> UnitStart(rest), fits |-> FALSE]
       [] OTHER -> [cut |-> best, fits |-> TRUE]

System(msgs) == SubSeq(msgs, 1, LeadingSystem(msgs))
Turns(msgs) == From(msgs, LeadingSystem(msgs))
Kept(msgs, cut) == System(msgs) \o From(Turns(msgs), cut)
Evicted(msgs, cut) == SubSeq(Turns(msgs), 1, cut)

-----------------------------------------------------------------------------
(* _summarize_turns: whether the prompt can be made to fit *)

SizeOf(note) == IF note = NoNote THEN 0 ELSE note.size

\* The transcript is halved until the prompt fits or is not worth sending.
Askable(msgs, prior) ==
  LET all == Total(Sizes(msgs))
      try[cap \in 0..TranscriptCap] ==
        LET body == Least(all, cap) + SizeOf(prior)
        IN body > 0 /\ \/ AskSize + body <= SummaryBudget
                       \/ cap > MinTranscript /\ try[cap \div 2]
  IN try[TranscriptCap]

FactsOf(note) == IF note = NoNote THEN <<>> ELSE note.of
Summary(prior, msgs, size) == [size |-> size, of |-> FactsOf(prior) \o Facts(msgs)]

-----------------------------------------------------------------------------
(* build_windowed *)

Idle == [at |-> "idle", msgs |-> <<>>, budget |-> 0, cut |-> 0, fits |-> TRUE,
         note |-> NoNote, covered |-> 0, prompt |-> <<>>, dropped |-> 0]

Goes(h, r) == handler' = [handler EXCEPT ![h] = r]
Going(h) == Evicted(handler[h].msgs, handler[h].cut)
Carried(h) == SplitNote(System(handler[h].msgs)).note

\* The prompt of the first fit, without a note of this server's.
Plain(r) == [r EXCEPT !.at = "answered", !.prompt = Kept(r.msgs, r.cut),
                      !.dropped = r.cut]

\* A client resends its history up to some message; the first fit.
Receive(h, c, n, budget) ==
  LET msgs == SubSeq(history[c], 1, n)
      fit == Fit(msgs, budget)
      r == [Idle EXCEPT !.at = "fitted", !.msgs = msgs, !.budget = budget,
                        !.cut = fit.cut, !.fits = fit.fits]
  IN /\ handler[h].at \in {"idle", "answered"}
     /\ requests < MaxRequests
     /\ requests' = requests + 1
     /\ Goes(h, IF fit.fits /\ fit.cut > 0 THEN r ELSE Plain(r))
     /\ UNCHANGED <<history, slot>>

Mutant_Recalls(h) == slot # EmptySlot /\ Len(slot.of) <= handler[h].cut
\* Does the stored note stand for a prefix of what this request evicts?
Recalls(h) ==
  /\ slot # EmptySlot
  /\ slot.carried = Carried(h)
  /\ IsPrefix(slot.of, Going(h))

Recall(h) ==
  LET covered == IF Recalls(h) THEN Len(slot.of) ELSE 0
  IN /\ handler[h].at = "fitted"
     /\ Goes(h, [handler[h] EXCEPT
          !.at = IF covered < handler[h].cut THEN "asking" ELSE "noted",
          !.note = IF Recalls(h) THEN slot.note ELSE NoNote,
          !.covered = covered])
     /\ UNCHANGED <<history, slot, requests>>

Mutant_Prior(h) == handler[h].note
Prior(h) == IF handler[h].note # NoNote THEN handler[h].note ELSE Carried(h)

Mutant_Fresh(h) == Going(h)
Fresh(h) == From(Going(h), handler[h].covered)

\* The internal generation ends well.
Summarise(h) ==
  /\ handler[h].at = "asking"
  /\ Askable(Fresh(h), Prior(h))
  /\ \E size \in NoteSizes :
       Goes(h, [handler[h] EXCEPT !.at = "summarised",
                                  !.note = Summary(Prior(h), Fresh(h), size)])
  /\ UNCHANGED <<history, slot, requests>>

\* It does not fit, throws, is aborted or comes out empty: the note in hand
\* is still true of the turns it covers.
SummaryFails(h) ==
  /\ handler[h].at = "asking"
  /\ Goes(h, IF handler[h].note = NoNote
             THEN Plain(handler[h])
             ELSE [handler[h] EXCEPT !.at = "noted"])
  /\ UNCHANGED <<history, slot, requests>>

Remember(h) ==
  /\ handler[h].at = "summarised"
  /\ slot' = [of |-> Going(h), carried |-> Carried(h), note |-> handler[h].note]
  /\ Goes(h, [handler[h] EXCEPT !.at = "noted"])
  /\ UNCHANGED <<history, requests>>

\* The note joins the system turn, and what is kept is fitted again.
Assemble(h) ==
  LET r == handler[h]
      merged == ApplyNote(System(r.msgs), r.note) \o From(Turns(r.msgs), r.cut)
      fit == Fit(merged, r.budget)
  IN /\ r.at = "noted"
     /\ Goes(h, IF fit.fits
                THEN [r EXCEPT !.at = "answered", !.prompt = Kept(merged, fit.cut),
                               !.dropped = r.cut + fit.cut]
                ELSE Plain(r))
     /\ UNCHANGED <<history, slot, requests>>

Init ==
  /\ history \in [Conversation -> Script]
  /\ slot = EmptySlot
  /\ handler = [h \in Handler |-> Idle]
  /\ requests = 0

Next ==
  \E h \in Handler :
    \/ \E c \in Conversation, budget \in Budget :
         \E n \in 1..Len(history[c]) : Receive(h, c, n, budget)
    \/ Recall(h)
    \/ Summarise(h)
    \/ SummaryFails(h)
    \/ Remember(h)
    \/ Assemble(h)

Spec == Init /\ [][Next]_vars

-----------------------------------------------------------------------------
(* Properties *)

TypeOK ==
  /\ requests \in 0..MaxRequests
  /\ \A h \in Handler :
       /\ handler[h].at \in {"idle", "fitted", "asking", "summarised", "noted", "answered"}
       /\ handler[h].covered \in 0..handler[h].cut
       /\ handler[h].cut \in 0..Len(Turns(handler[h].msgs))
  /\ slot = EmptySlot \/ (slot.note # NoNote /\ slot.of # <<>>)

\* A cut may leave at the front only a message that starts a unit.
Admissible(msgs) ==
  LET rest == Turns(msgs)
  IN {0} \cup {n \in 1..Len(rest) - 1 : rest[n + 1].role \notin NOT_UNIT_START}
Fitting(msgs, budget) == {n \in Admissible(msgs) : Tokens(Kept(msgs, n)) <= budget}

\* The bisection of _fit drops the fewest messages that make the rest fit,
\* never leaves a tool result or an instruction in front, and says that
\* nothing fits exactly when no such cut does.
FitIsBest ==
  \A h \in Handler : handler[h].at # "idle" =>
    LET msgs == handler[h].msgs
        enough == Fitting(msgs, handler[h].budget)
    IN /\ handler[h].fits <=> enough # {}
       /\ handler[h].cut = IF enough = {} THEN Max(Admissible(msgs)) ELSE Min(enough)

Answered == {h \in Handler : handler[h].at = "answered"}
NoteSent(h) == SplitNote(System(handler[h].prompt)).note

\* Whatever became of the summary, a request that fits is answered with a
\* prompt that does: the conversation's tail, cut once, in front of a turn,
\* behind a system turn.  What the request's system turn said is in that one
\* or in its note: eviction never touches it (_fit's docstring), and a summary
\* replaces the client's note only by one that stands for it.
AnswersFit ==
  \A h \in Answered :
    LET r == handler[h]
        told == System(r.msgs)
        sent == System(r.prompt)
    IN /\ r.fits => Tokens(r.prompt) <= r.budget
       /\ r.dropped \in Admissible(r.msgs)
       /\ Turns(r.prompt) = From(Turns(r.msgs), r.dropped)
       /\ ToSet(Facts(told) \o FactsOf(Carried(h)))
            \subseteq ToSet(Facts(sent) \o FactsOf(NoteSent(h)))

\* The stored note stands for the turns its key digests, in their order and
\* each once, behind what the client's own note stood for.  Types are kept
\* with it.
SlotIsTrue ==
  /\ TypeOK
  /\ slot # EmptySlot => slot.note.of = FactsOf(slot.carried) \o Facts(slot.of)

\* A note that is sent stands for the start of this very conversation and
\* for none of the turns sent beside it, whoever wrote _NOTE_STATE last.
NoteIsOwn ==
  \A h \in Answered :
    \E n \in 0..handler[h].cut :
      FactsOf(NoteSent(h))
        = FactsOf(Carried(h)) \o Facts(SubSeq(Turns(handler[h].msgs), 1, n))
=============================================================================
