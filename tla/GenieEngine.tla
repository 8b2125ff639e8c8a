----------------------------- MODULE GenieEngine -----------------------------
(***************************************************************************)
(* GenieEngine (src/src/genie_server.py): the one resident Genie dialog,   *)
(* the turns that queue for it, the aborts aimed at them, and shutdown.    *)
(*                                                                         *)
(* Threads.  Turn t is a worker inside _run_query (pc[t]) and the handler  *)
(* consuming it (consumer[t]).  Main runs begin_shutdown and close.        *)
(* Counter is whichever handler is in count_tokens.  Watchdog, main's      *)
(* sibling, is here only what it may do to the engine; Supervision says    *)
(* when it does.                                                           *)
(*                                                                         *)
(* Locks.  `lock` is GenieEngine.lock.  The body of an `_abort_lock` block *)
(* that makes no native call is one step, enabled while the lock is free;  *)
(* the one block that does, the GenieDialog_signal of _abort, holds it from*)
(* one step to another, so `signaller` is the thread holding it.           *)
(*                                                                         *)
(* The driver.  `dialog` is what the native object holds.  Every call      *)
(* into it takes time (a step to enter and one to return) where something  *)
(* else can tell, may be refused, and may throw.  A text is a sequence of  *)
(* tokens.  What an ABORT does to a dialog that is not inside a query "is  *)
(* not knowable from here" (source): SignalSticks chooses.                 *)
(***************************************************************************)
EXTENDS EngineHealth, Sequences, FiniteSets

CONSTANTS
  Turn,          \* the generations asked for during a behaviour
  Request,       \* what they may ask: [prompt, cap, stop, sampler, internal]
  Word,          \* what a text is made of
  Token,         \* the words the model may generate
  Piece,         \* the tokens that end inside a UTF-8 character
  Replacement,   \* U+FFFD
  Junk,          \* KV content no callback carried (a cut, a matched stop)
  Nobody, Main, Counter, Watchdog,  \* lock holders besides the turns
  NoText, NoStop, BundleSampler,    \* None; no stop sequence; the defaults
  SignalSticks,  \* does an ABORT at an idle dialog cut the next query
  CanStop        \* may the process be asked to shut down

ASSUME EngineAssumption ==
  /\ {Nobody, Main, Counter, Watchdog} \cap Turn = {}
  /\ Nobody \notin {Main, Counter, Watchdog} /\ Main # Counter
  /\ \A q \in Request : /\ q.prompt \in Seq(Word) /\ q.prompt # << >>
                        /\ q.cap \in Nat \ {0}
                        /\ q.internal \in BOOLEAN
  /\ Piece \subseteq Token /\ Token \subseteq Word /\ Replacement \in Word
  /\ NoText \notin Seq(Word)
  /\ SignalSticks \in BOOLEAN /\ CanStop \in BOOLEAN

VARIABLES
  health,        \* HEALTH
  lock,          \* who holds GenieEngine.lock
  live,          \* _live
  querying,      \* _querying
  signaller,     \* who holds _abort_lock inside GenieDialog_signal
  closing,       \* _closing
  closed,        \* _closed, and with it the nulled handles
  committed,     \* _committed: the text the KV is recorded to hold
  stop_dirty,    \* _stop_dirty
  sampler_dirty, \* _sampler_dirty
  flags,         \* each _Turn: aborted, done, stalled, shutdown
  req,           \* what each turn asks for
  pc,            \* where each turn's worker is in _run_query
  run,           \* the locals of the _run_query that holds the lock
  answer,        \* what each turn's consumer was told
  consumer,      \* whether each turn's consumer is still reading
  main,          \* where the main thread is in its shutdown path
  dialog         \* the driver

books == <<committed, stop_dirty, sampler_dirty>>
client == <<req, answer, consumer>>
vars == <<health, lock, live, querying, signaller, closing, closed, books,
          flags, pc, run, client, main, dialog>>

\* Between `_live = turn` and the `finally`: what an abort can be aimed at.
Window == {"live", "stopSet", "sampled", "planned", "capSet", "armed",
           "querying", "returned"}
\* From the acquisition of the engine lock to its release.
Holding == Window \cup {"refusing", "admitted", "left", "ended", "recounting",
                        "recounted"}
PC == Holding \cup {"queued", "released", "done"}

Status == {"none", "SUCCESS", "ABORTED", "CONTEXT_EXCEEDED", "ERROR"}
Finished == {"SUCCESS", "ABORTED", "CONTEXT_EXCEEDED"}

Stops == {q.stop : q \in Request} \cup {NoStop}
Samplers == {q.sampler : q \in Request} \cup {BundleSampler}

NoRun == [send |-> << >>, toks |-> << >>, status |-> "none", cut |-> FALSE,
          capped |-> FALSE, aborted |-> FALSE, stalled |-> FALSE]
NoAnswer == [kind |-> "none", finish |-> "none", cut |-> FALSE]
NewTurn == [aborted |-> FALSE, done |-> FALSE, stalled |-> FALSE,
            shutdown |-> FALSE]
NewDialog == [kv |-> << >>, cap |-> 0, stop |-> NoStop,
              sampler |-> BundleSampler, inside |-> FALSE, cutting |-> FALSE,
              stray |-> FALSE, freed |-> FALSE]

Init ==
  /\ health = HealthInit
  /\ lock = Nobody /\ live = Nobody /\ signaller = Nobody
  /\ querying = FALSE /\ closing = FALSE /\ closed = FALSE
  /\ committed = NoText /\ stop_dirty = FALSE /\ sampler_dirty = FALSE
  /\ flags = [t \in Turn |-> NewTurn]
  /\ req \in [Turn -> Request]
  /\ pc = [t \in Turn |-> "queued"]
  /\ run = NoRun
  /\ answer = [t \in Turn |-> NoAnswer]
  /\ consumer = [t \in Turn |-> "reading"]
  /\ main = "serving"
  /\ dialog = NewDialog

AbortLockFree == signaller = Nobody

(***************************************************************************)
(* _run_query: the engine lock, the two gates, and the turn's window.      *)
(***************************************************************************)
To(t, p) == pc' = [pc EXCEPT ![t] = p]

\* A turn that shutdown refuses attempts nothing, so nothing is supervised.
Mutant_Begun == begin(health)
Begun == IF closed \/ closing THEN health ELSE begin(health)

\* `with self.lock`, and the gate: read under the engine lock alone.
Admit(t) ==
  /\ pc[t] = "queued" /\ lock = Nobody
  /\ lock' = t
  /\ run' = NoRun
  /\ To(t, IF closed \/ closing THEN "refusing" ELSE "admitted")
  /\ health' = Begun
  /\ UNCHANGED <<live, querying, signaller, closing, closed, books, flags,
                 client, main, dialog>>

\* EngineClosing, through the worker's except clause to the consumer.
Refuse(t) ==
  /\ pc[t] = "refusing" /\ AbortLockFree
  /\ flags' = [flags EXCEPT ![t].done = TRUE]
  /\ answer' = [answer EXCEPT ![t].kind = "closing"]
  /\ lock' = Nobody /\ To(t, "done")
  /\ UNCHANGED <<health, live, querying, signaller, closing, closed, books,
                 req, consumer, run, main, dialog>>

GoLive(t) ==
  /\ pc[t] = "admitted" /\ AbortLockFree
  /\ live' = t /\ To(t, "live")
  /\ UNCHANGED <<health, lock, querying, signaller, closing, closed, books,
                 flags, run, client, main, dialog>>

engine == <<health, lock, live, querying, signaller, closing, closed, flags,
            client, main>>

\* A native call of the turn threw, or was refused and raised: the `except`.
Raise(t) ==
  /\ pc[t] \in {"live", "stopSet", "sampled", "planned", "querying"}
  /\ To(t, "returned")
  /\ committed' = NoText
  /\ dialog' = [dialog EXCEPT !.inside = FALSE, !.cutting = FALSE]
  /\ UNCHANGED <<engine, stop_dirty, sampler_dirty, run>>

Mutant_NothingToClear(t) == req[t].stop = NoStop
NothingToClear(t) == req[t].stop = NoStop /\ ~stop_dirty

set_stop_sequences(t) ==
  /\ pc[t] = "live" /\ To(t, "stopSet")
  /\ IF NothingToClear(t)
     THEN UNCHANGED <<dialog, stop_dirty>>
     ELSE /\ dialog' = [dialog EXCEPT !.stop = req[t].stop]
          /\ stop_dirty' = (req[t].stop # NoStop)
  /\ UNCHANGED <<engine, committed, sampler_dirty, run>>

\* getSampler and createFromJson return silently when they fail, and the
\* status of applyConfig is not read.
apply_sampler(t) ==
  /\ pc[t] = "stopSet" /\ To(t, "sampled")
  /\ \/ UNCHANGED <<dialog, sampler_dirty>>
     \/ /\ req[t].sampler # BundleSampler \/ sampler_dirty
        /\ \E s \in {req[t].sampler, dialog.sampler} :
             dialog' = [dialog EXCEPT !.sampler = s]
        /\ sampler_dirty' = (req[t].sampler # BundleSampler)
  /\ UNCHANGED <<engine, committed, stop_dirty, run>>

Mutant_Continues(p, c) == c # NoText /\ c # << >> /\ Len(p) > Len(c)
Continues(p, c) ==
  /\ c # NoText /\ c # << >>
  /\ Len(p) > Len(c)
  /\ SubSeq(p, 1, Len(c)) = c

\* Continue the resident KV, or reset it.  A reset that is refused raises.
_plan(t) ==
  LET p == req[t].prompt IN
  /\ pc[t] = "sampled" /\ To(t, "planned")
  /\ IF Continues(p, committed)
     THEN /\ run' = [run EXCEPT !.send = SubSeq(p, Len(committed) + 1, Len(p))]
          /\ UNCHANGED <<committed, dialog>>
     ELSE /\ run' = [run EXCEPT !.send = p]
          /\ committed' = NoText
          /\ dialog' = [dialog EXCEPT !.kv = << >>]
  /\ UNCHANGED <<engine, stop_dirty, sampler_dirty>>

SetMaxNumTokens(t) ==
  /\ pc[t] = "planned" /\ To(t, "capSet")
  /\ dialog' = [dialog EXCEPT !.cap = req[t].cap]
  /\ UNCHANGED <<engine, books, run>>

Mutant_Early(t) == FALSE
Early(t) == flags[t].aborted

\* Checked and armed in one step.
Arm(t) ==
  /\ pc[t] = "capSet" /\ AbortLockFree
  /\ IF Early(t)
     THEN /\ run' = [run EXCEPT !.status = "ABORTED", !.cut = TRUE]
          /\ To(t, "returned") /\ UNCHANGED querying
     ELSE /\ querying' = TRUE
          /\ To(t, "armed") /\ UNCHANGED run
  /\ UNCHANGED <<health, lock, live, signaller, closing, closed, books, flags,
                 client, main, dialog>>

(***************************************************************************)
(* GenieDialog_query, and the callback it makes for every token.           *)
(***************************************************************************)
EnterQuery(t) ==
  /\ pc[t] = "armed" /\ To(t, "querying")
  /\ dialog' = [dialog EXCEPT !.kv = @ \o run.send, !.inside = TRUE,
                              !.cutting = dialog.stray, !.stray = FALSE]
  /\ UNCHANGED <<engine, books, run>>

_cb(t) ==
  /\ pc[t] = "querying" /\ Len(run.toks) < dialog.cap
  /\ \E w \in Token :
       /\ dialog' = [dialog EXCEPT !.kv = Append(@, w)]
       /\ run' = [run EXCEPT !.toks = Append(@, w)]
  /\ health' = progress(health)
  /\ UNCHANGED <<lock, live, querying, signaller, closing, closed, books,
                 flags, pc, client, main>>

\* ABORTED needs a signal; a signal may also be too late to be told by the
\* status.  A stop sequence is matched short of the cap and leaves its tokens
\* in the KV, as a cut leaves its tail.
QueryReturns(t) ==
  /\ pc[t] = "querying" /\ To(t, "returned")
  /\ \E s \in Status \ {"none"}, cut \in BOOLEAN, tail \in {<< >>, <<Junk>>} :
       /\ s = "ABORTED" => cut
       /\ cut => dialog.cutting /\ s \in {"ABORTED", "SUCCESS"}
       /\ tail # << >> => \/ s # "SUCCESS" \/ cut
                          \/ dialog.stop # NoStop /\ Len(run.toks) < dialog.cap
       /\ run' = [run EXCEPT !.status = s, !.cut = cut]
       /\ dialog' = [dialog EXCEPT !.kv = @ \o tail, !.inside = FALSE,
                                   !.cutting = FALSE]
  /\ UNCHANGED <<engine, books>>

(***************************************************************************)
(* Out of the window: the verdict, the KV record, the finish reason.       *)
(***************************************************************************)
Leave(t) ==
  /\ pc[t] = "returned" /\ AbortLockFree
  /\ live' = Nobody /\ querying' = FALSE
  /\ flags' = [flags EXCEPT ![t].done = TRUE]
  /\ run' = [run EXCEPT !.aborted = flags[t].aborted,
                        !.stalled = flags[t].stalled]
  /\ To(t, "left")
  /\ UNCHANGED <<health, lock, signaller, closing, closed, books, client, main,
                 dialog>>

\* An abort is not a failure, unless the watchdog sent it.
Mutant_Booked == run.status \in Finished
Booked == run.status \in Finished /\ ~run.stalled

HealthEnd(t) ==
  /\ pc[t] = "left" /\ To(t, "ended")
  /\ health' = end(health, Booked, ~req[t].internal)
  /\ UNCHANGED <<lock, live, querying, signaller, closing, closed, books,
                 flags, run, client, main, dialog>>

\* The text handed out: the decoder's flush replaces an unfinished character.
Generated ==
  LET n == Len(run.toks) IN
  IF n > 0 /\ run.toks[n] \in Piece
  THEN [run.toks EXCEPT ![n] = Replacement]
  ELSE run.toks

Certain(t) == Len(run.toks) >= req[t].cap

\* The second opinion on "length": _encode_count, on the native-call clock.
Doubtful(t) == run.status = "SUCCESS" /\ ~Certain(t) /\ run.toks # << >>

\* The public count_tokens in its place would take the engine lock again.
Mutant_Recount(t) ==
  /\ pc[t] = "ended" /\ Doubtful(t) /\ lock = Nobody
  /\ health' = native_begin(health) /\ To(t, "recounting")
  /\ UNCHANGED <<lock, live, querying, signaller, closing, closed, books,
                 flags, run, client, main, dialog>>
Recount(t) ==
  /\ pc[t] = "ended" /\ Doubtful(t)
  /\ health' = native_begin(health) /\ To(t, "recounting")
  /\ UNCHANGED <<lock, live, querying, signaller, closing, closed, books,
                 flags, run, client, main, dialog>>

RecountReturns(t) ==
  /\ pc[t] = "recounting"
  /\ health' = native_end(health) /\ To(t, "recounted")
  /\ \E c \in BOOLEAN : run' = [run EXCEPT !.capped = c]
  /\ UNCHANGED <<lock, live, querying, signaller, closing, closed, books,
                 flags, client, main, dialog>>

\* `exact`: the three cases in which prompt + generated would be a lie.
Mutant_Exact(t) == run.status = "SUCCESS" /\ ~run.aborted
Exact(t) ==
  /\ run.status = "SUCCESS" /\ ~run.aborted
  /\ ~(req[t].stop # NoStop /\ ~Certain(t))

_commit(t) ==
  committed' = IF ~req[t].internal /\ Exact(t)
               THEN req[t].prompt \o Generated ELSE NoText

\* _finish, and the cap that overrides a "stop".
Mutant_Finish(t) == run.status
Finish(t) ==
  CASE run.status = "CONTEXT_EXCEEDED" -> "length"
    [] run.status = "ABORTED" -> "stop"
    [] run.status = "SUCCESS" -> IF Certain(t) \/ run.capped THEN "length"
                                                             ELSE "stop"
    [] OTHER -> "raised"

\* The record, then the lock.  What the worker still needs goes with it.
Release(t) ==
  /\ \/ pc[t] = "recounted"
     \/ pc[t] = "ended" /\ ~Doubtful(t)
  /\ IF run.status = "none" THEN UNCHANGED committed ELSE _commit(t)
  /\ answer' = [answer EXCEPT ![t].finish = Finish(t), ![t].cut = run.cut]
  /\ lock' = Nobody /\ To(t, "released")
  /\ run' = NoRun
  /\ UNCHANGED <<health, live, querying, signaller, closing, closed,
                 stop_dirty, sampler_dirty, flags, req, consumer, main, dialog>>

(***************************************************************************)
(* What the consumer is told: query_stream's worker for a client's turn,   *)
(* query's result["aborted"] for an internal one.                          *)
(***************************************************************************)
Mutant_Kind(t) ==
  IF answer[t].finish = "raised" THEN "error"
  ELSE IF flags[t].aborted /\ req[t].internal THEN "discarded" ELSE "done"
Kind(t) ==
  IF answer[t].finish = "raised" THEN "error"
  ELSE IF ~flags[t].aborted THEN "done"
  ELSE IF req[t].internal THEN "discarded"
  ELSE IF flags[t].shutdown \/ flags[t].stalled THEN "cut" ELSE "done"

Report(t) ==
  /\ pc[t] = "released"
  /\ AbortLockFree \/ (answer[t].finish = "raised" /\ ~req[t].internal)
  /\ answer' = [answer EXCEPT ![t].kind = Kind(t)]
  /\ To(t, "done")
  /\ UNCHANGED <<health, lock, live, querying, signaller, closing, closed,
                 books, flags, run, req, consumer, main, dialog>>

(***************************************************************************)
(* _abort.  The flag, then, when the target is inside its query, the       *)
(* native signal; `by` holds _abort_lock until the signal returns.         *)
(***************************************************************************)
Mutant_Target(t, any_turn) == live
Target(t, any_turn) == IF any_turn THEN live ELSE t

\* What the call will return: whether there was a turn, and was it signalled.
Mutant_Aborts(t, any_turn) == ~closed /\ Target(t, any_turn) # Nobody
Aborts(t, any_turn) ==
  /\ ~closed
  /\ Target(t, any_turn) # Nobody /\ ~flags[Target(t, any_turn)].done

Signals(t, any_turn) ==
  /\ Aborts(t, any_turn)
  /\ Target(t, any_turn) = live /\ querying

_abort(by, t, any_turn, stalled) ==
  LET x == Target(t, any_turn) IN
  /\ AbortLockFree
  /\ flags' = IF Aborts(t, any_turn)
              THEN [flags EXCEPT ![x].aborted = TRUE,
                                 ![x].stalled = @ \/ stalled]
              ELSE flags
  /\ signaller' = IF /\ Signals(t, any_turn)
                     /\ any_turn \/ ~flags[x].aborted
                  THEN by ELSE Nobody

\* GenieDialog_signal(ABORT) lands and returns.
SignalReturns ==
  /\ signaller # Nobody
  /\ signaller' = Nobody
  /\ dialog' = [dialog EXCEPT !.cutting = @ \/ dialog.inside,
                              !.stray = @ \/ (SignalSticks /\ ~dialog.inside)]
  /\ UNCHANGED <<health, lock, live, querying, closing, closed, books, flags,
                 pc, run, client, main>>

untouched == <<health, lock, live, querying, closed, books, pc, run, req,
               answer, dialog>>

\* The client is gone: _Emitter.lost() aborts, then the handler closes the
\* generator it walks away from, and the close aborts again.
Lost(t) ==
  /\ consumer[t] = "reading" /\ ~req[t].internal
  /\ consumer' = [consumer EXCEPT ![t] = "lost"]
  /\ _abort(t, t, FALSE, FALSE)
  /\ UNCHANGED <<untouched, closing, main>>

Close(t) ==
  /\ consumer[t] = "lost" /\ answer[t].kind = "none"
  /\ consumer' = [consumer EXCEPT ![t] = "left"]
  /\ _abort(t, t, FALSE, FALSE)
  /\ UNCHANGED <<untouched, closing, main>>

\* The watchdog aborts a stall, and notes that it did.
WatchdogAbort ==
  /\ _abort(Watchdog, Nobody, TRUE, TRUE)
  /\ UNCHANGED <<untouched, closing, main, consumer>>

clockless == <<lock, live, querying, signaller, closing, closed, books, flags,
               pc, run, client, main, dialog>>

NoteStall ==
  /\ \E age \in 0 .. MaxAge : health' = note_stall_signalled(health, age)
  /\ UNCHANGED clockless

Tick == health' = Elapse(health) /\ UNCHANGED clockless

(***************************************************************************)
(* count_tokens, by any handler, before or after its turn.                 *)
(***************************************************************************)
Mutant_count_tokens ==
  /\ lock = Nobody
  /\ lock' = Counter /\ health' = native_begin(health)
  /\ UNCHANGED <<live, querying, signaller, closing, closed, books, flags, pc,
                 run, client, main, dialog>>
count_tokens ==
  /\ lock = Nobody /\ ~closed
  /\ lock' = Counter /\ health' = native_begin(health)
  /\ UNCHANGED <<live, querying, signaller, closing, closed, books, flags, pc,
                 run, client, main, dialog>>

CountReturns ==
  /\ lock = Counter
  /\ lock' = Nobody /\ health' = native_end(health)
  /\ UNCHANGED <<live, querying, signaller, closing, closed, books, flags, pc,
                 run, client, main, dialog>>

(***************************************************************************)
(* The main thread: begin_shutdown, its abort, close, exit.                *)
(***************************************************************************)
begin_shutdown ==
  /\ main = "serving" /\ CanStop /\ AbortLockFree
  /\ main' = "marked" /\ closing' = TRUE
  /\ flags' = IF live # Nobody /\ ~flags[live].done
              THEN [flags EXCEPT ![live].shutdown = TRUE] ELSE flags
  /\ UNCHANGED <<untouched, signaller, consumer>>

ShutdownAbort ==
  /\ main = "marked" /\ main' = "aborted"
  /\ _abort(Main, Nobody, TRUE, FALSE)
  /\ UNCHANGED <<untouched, closing, consumer>>

CloseMark ==
  /\ main = "aborted" /\ AbortLockFree
  /\ main' = "closing" /\ closing' = TRUE
  /\ UNCHANGED <<untouched, flags, signaller, consumer>>

quiet == <<health, live, querying, signaller, closing, books, flags, pc, run,
           client>>

CloseAcquire ==
  /\ main = "closing" /\ lock = Nobody
  /\ main' = "acquired" /\ lock' = Main
  /\ UNCHANGED <<quiet, closed, dialog>>

\* close() returns False: the lock could not be had in time.
Mutant_CloseTimeout == FALSE
CloseTimeout ==
  /\ main = "closing" /\ lock # Nobody
  /\ main' = "leaving"
  /\ UNCHANGED <<quiet, lock, closed, dialog>>

CloseNull ==
  /\ main = "acquired" /\ AbortLockFree
  /\ main' = "nulled" /\ closed' = TRUE
  /\ UNCHANGED <<quiet, lock, dialog>>

CloseFree ==
  /\ main = "nulled"
  /\ main' = "leaving" /\ lock' = Nobody
  /\ dialog' = [dialog EXCEPT !.freed = TRUE]
  /\ UNCHANGED <<quiet, closed>>

Exit ==
  /\ main = "leaving" /\ main' = "exited"
  /\ UNCHANGED <<quiet, lock, closed, dialog>>

MainStep == \/ begin_shutdown \/ ShutdownAbort \/ CloseMark \/ CloseAcquire
            \/ CloseTimeout \/ CloseNull \/ CloseFree \/ Exit

(***************************************************************************)
(* The specification.                                                      *)
(***************************************************************************)
\* The worker's own steps, and the native calls it waits for.
Worker(t) ==
  \/ Refuse(t) \/ GoLive(t) \/ Arm(t) \/ EnterQuery(t) \/ Leave(t)
  \/ HealthEnd(t) \/ Recount(t) \/ Release(t) \/ Report(t)

Prepare(t) ==
  set_stop_sequences(t) \/ apply_sampler(t) \/ _plan(t) \/ SetMaxNumTokens(t)

Native(t) ==
  Prepare(t) \/ _cb(t) \/ QueryReturns(t) \/ RecountReturns(t) \/ Raise(t)

Consumer(t) == Lost(t) \/ Close(t)

\* What the threads of this component do, and what is done to it.
Inside ==
  \/ \E t \in Turn : Admit(t) \/ Worker(t) \/ Native(t) \/ Consumer(t)
  \/ SignalReturns \/ count_tokens \/ CountReturns \/ MainStep

Outside == WatchdogAbort \/ NoteStall \/ Tick

\* A process that has exited, or has nothing left to do.
Rest ==
  /\ main = "exited" \/ \A t \in Turn : pc[t] = "done"
  /\ UNCHANGED vars

Next == (main # "exited" /\ (Inside \/ Outside)) \/ Rest

Spec == Init /\ [][Next]_vars
-----------------------------------------------------------------------------
(***************************************************************************)
(* Properties.                                                             *)
(***************************************************************************)

TurnFlags ==
  [aborted : BOOLEAN, done : BOOLEAN, stalled : BOOLEAN, shutdown : BOOLEAN]
Locals ==
  [send : Seq(Word), toks : Seq(Token), status : Status, cut : BOOLEAN,
   capped : BOOLEAN, aborted : BOOLEAN, stalled : BOOLEAN]
Answer ==
  [kind : {"none", "closing", "error", "done", "discarded", "cut"},
   finish : {"none", "stop", "length", "raised"}, cut : BOOLEAN]
Dialog ==
  [kv : Seq(Word \cup {Junk}), cap : Nat, stop : Stops, sampler : Samplers,
   inside : BOOLEAN, cutting : BOOLEAN, stray : BOOLEAN, freed : BOOLEAN]

\* The type of every variable.
TypeOK ==
  /\ health \in HealthType
  /\ lock \in Turn \cup {Nobody, Main, Counter}
  /\ live \in Turn \cup {Nobody}
  /\ signaller \in Turn \cup {Nobody, Main, Watchdog}
  /\ querying \in BOOLEAN /\ closing \in BOOLEAN /\ closed \in BOOLEAN
  /\ committed \in Seq(Word) \cup {NoText}
  /\ stop_dirty \in BOOLEAN /\ sampler_dirty \in BOOLEAN
  /\ flags \in [Turn -> TurnFlags]
  /\ req \in [Turn -> Request]
  /\ pc \in [Turn -> PC]
  /\ run \in Locals
  /\ answer \in [Turn -> Answer]
  /\ consumer \in [Turn -> {"reading", "lost", "left"}]
  /\ main \in {"serving", "marked", "aborted", "closing", "acquired",
               "nulled", "leaving", "exited"}
  /\ dialog \in Dialog

\* A query runs on its own prompt and on nothing else: whatever was skipped
\* because the KV was recorded to hold it, the dialog holds exactly the
\* request's prompt and what this query has generated after it (_plan's
\* byte-exact prefix match, _commit's record, the reset between them).
AnswersOwnPrompt ==
  \A t \in Turn : pc[t] = "querying" =>
    dialog.kv = req[t].prompt \o run.toks

\* `_committed` is what its comment says: "Exact text the dialog's KV
\* currently holds; None means unknown".  Asked whenever nobody holds the
\* engine, after every abort, refusal, throw, stop hit and cap.
RecordIsResident ==
  lock = Nobody /\ committed # NoText => committed = dialog.kv

\* A query runs under its own request's token cap and stop sequences, and
\* never under what another request left on the resident dialog.
OwnSettings ==
  \A t \in Turn : pc[t] \in {"armed", "querying"} =>
    dialog.cap = req[t].cap /\ dialog.stop = req[t].stop

\* No native call is made on, or is in progress in, a dialog that close has
\* nulled or freed, by a turn, by an abort, or by count_tokens.
NoCallOnFreed ==
  closed \/ dialog.freed =>
    /\ lock # Counter /\ AbortLockFree
    /\ \A t \in Turn : pc[t] \notin Holding \ {"refusing"}

\* An abort never lands on another request's generation: a turn is cut when
\* its own consumer has left, when the watchdog found it stalled, or when the
\* process is being shut down (the point of _Turn).
OnlyAskedTurnsAreCut ==
  \A t \in Turn :
    answer[t].cut => consumer[t] # "reading" \/ flags[t].stalled \/ closing

\* A client that stayed is never handed a fragment as a finished answer: what
\* reaches it as "done" was not cut.  The exception is a turn that shutdown
\* aborts without having marked it, which went live between the two.
WholeAnswers ==
  \A t \in Turn :
    answer[t].kind = "done" /\ answer[t].cut =>
      consumer[t] # "reading" \/ (closing /\ ~flags[t].shutdown)

\* An abort reaches the query it is aimed at: once whoever aborted a turn has
\* sent what it sends, a query still running for that turn has been signalled
\* (the flag, or the native signal).  Needs a driver where an early signal
\* sticks.
AbortReachesQuery ==
  \A t \in Turn :
    pc[t] = "querying" /\ flags[t].aborted /\ signaller = Nobody =>
      dialog.cutting

\* The two clocks supervise exactly what holds the engine: at most one runs,
\* neither outlives the lock, and while a turn is in its window the
\* generation clock runs (begin at acquisition, end before release).
ClocksFollowLock ==
  /\ health.started = Unset \/ health.native = Unset
  /\ health.started # Unset <=>
       \E t \in Turn : pc[t] \in Window \cup {"admitted", "left"}
  /\ health.native # Unset <=>
       lock = Counter \/ \E t \in Turn : pc[t] = "recounting"

\* After `done` nothing changes a turn's flags: what _run_query read as the
\* turn left its window is what the consumer is told, however late an abort.
FlagsFinal ==
  [][\A t \in Turn : flags[t].done => flags'[t] = flags[t]]_vars

\* A generation the watchdog cut is never what ends a streak of failures.
StallsAreFailures ==
  [][health'.failures < health.failures =>
       \E t \in Turn : pc[t] = "left" /\ ~flags[t].stalled]_vars

\* Once begin_shutdown has marked the engine and aborted the live turn, no
\* turn starts a query ("Shutdown has STARTED: the dialog is still alive, but
\* no new turn may take it").
NoQueryAfterShutdown ==
  [][querying' /\ ~querying => main \in {"serving", "marked"}]_vars

-----------------------------------------------------------------------------
(***************************************************************************)
(* Liveness.  Of the driver only the return of a signal and of the free is *)
(* taken for granted, so that a holder of the engine may be stuck for      *)
(* ever; what needs more of it says so.  A thread that keeps asking for a  *)
(* free lock gets it (begin_shutdown: "the lock goes to whoever has waited *)
(* longest").  Nobody must leave, abort, count or shut down.               *)
(***************************************************************************)
\* What main does once asked to stop: what needs _abort_lock, what does not.
Shutting == ShutdownAbort \/ CloseMark \/ CloseNull
Leaving == CloseAcquire \/ CloseTimeout \/ CloseFree \/ Exit

Fairness == WF_vars(SignalReturns) /\ SF_vars(Shutting) /\ WF_vars(Leaving)

FairSpec == Spec /\ Fairness

\* Workers and the tokenizer's callers are scheduled, and their native calls
\* return.
DriverReturns ==
  /\ \A t \in Turn : /\ SF_vars(Admit(t)) /\ SF_vars(Worker(t))
                      /\ WF_vars(Prepare(t)) /\ WF_vars(QueryReturns(t))
                      /\ WF_vars(RecountReturns(t))
  /\ WF_vars(CountReturns)

\* Nobody waits for ever: two locks, a native call made under each of them,
\* and still every turn's consumer is told something, unless the process
\* leaves first.
EveryTurnAnswered ==
  DriverReturns =>
    \A t \in Turn : <>(answer[t].kind # "none" \/ main = "exited")

\* A server asked to stop leaves, however busy others keep the engine lock and
\* though a query, a re-encode or a count in the driver never comes back
\* (SHUTDOWN_FREE_TIMEOUT_S: "a lock still held after this is a stuck
\* driver").
ShutdownEnds == main = "marked" ~> main = "exited"
=============================================================================
