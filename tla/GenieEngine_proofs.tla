------------------------- MODULE GenieEngine_proofs -------------------------
(***************************************************************************)
(* Theorems about GenieEngine, for every value of its constants: any turns *)
(* and requests, either answer of the driver to an early ABORT, any token, *)
(* limit or bound.  Each invariant has one lemma per thread, and under it  *)
(* one step per action.                                                    *)
(*                                                                         *)
(* I.  The types; Locking, which ties a turn's place in _run_query to the  *)
(* engine lock, to the live turn and to its `done`; and what follows: the  *)
(* freed dialog, the flags, and the clocks of EngineHealth.                *)
(*                                                                         *)
(* II.  The aborts: whom one may reach, what it does to the turn it        *)
(* reaches, and what that turn's consumer is told.  They rest on Locking   *)
(* and on three invariants of their own: Aimed, where a signal in flight   *)
(* points; Asking, who asked for what a turn's flags say; and Cutting,     *)
(* which leads from the cut of a query back to those flags.                *)
(*                                                                         *)
(* III.  What is left on the resident dialog: the settings a query runs    *)
(* under, and the text the KV is recorded to hold.  The record is exact    *)
(* but for one thing: the decoder's flush puts U+FFFD in the place of an   *)
(* unfinished character.  So the inductive invariant is stated with Like,  *)
(* equality up to that replacement, and the properties follow for a model  *)
(* that ends no text inside a character.                                   *)
(***************************************************************************)
EXTENDS GenieEngine, TLAPS

-----------------------------------------------------------------------------
(***************************************************************************)
(* Types.                                                                  *)
(***************************************************************************)
\* The two ages the methods write are ages, and differ.
LEMMA AgeFacts == Unset \in Age /\ 0 \in Age /\ 0 # Unset
  BY HealthAssumption DEF Age, Unset

\* Time passing keeps an age an age, and never starts or stops a clock.
LEMMA OlderType ==
  ASSUME NEW a \in Age
  PROVE  Older(a) \in Age /\ (Older(a) = Unset <=> a = Unset)
  BY HealthAssumption DEF Older, Age, Unset

\* Every method of EngineHealth returns a record of its type.
LEMMA HealthMethods ==
  ASSUME NEW h \in HealthType
  PROVE  /\ begin(h) \in HealthType
         /\ native_begin(h) \in HealthType
         /\ native_end(h) \in HealthType
         /\ progress(h) \in HealthType
         /\ Elapse(h) \in HealthType
  <1>1. begin(h) \in HealthType BY AgeFacts DEF begin, HealthType
  <1>2. native_begin(h) \in HealthType BY AgeFacts DEF native_begin, HealthType
  <1>3. native_end(h) \in HealthType BY AgeFacts DEF native_end, HealthType
  <1>4. progress(h) \in HealthType BY AgeFacts DEF progress, HealthType
  <1>5. Elapse(h) \in HealthType BY OlderType DEF Elapse, HealthType
  <1> QED BY <1>1, <1>2, <1>3, <1>4, <1>5

\* `end`, on any outcome, returns a record of the type.
LEMMA EndType ==
  ASSUME NEW h \in HealthType, NEW ok \in BOOLEAN, NEW counted \in BOOLEAN
  PROVE  end(h, ok, counted) \in HealthType
  <1>1. h.generations + 1 \in Nat BY DEF HealthType
  <1>2. h.failures < FailThreshold => h.failures + 1 \in 0 .. FailThreshold
    BY HealthAssumption DEF HealthType
  <1>3. Unset \in Age /\ 0 \in 0 .. FailThreshold
    BY AgeFacts, HealthAssumption
  <1> QED BY <1>1, <1>2, <1>3 DEF end, HealthType

\* So does note_stall_signalled, for any age of the caller's clock.
LEMMA NoteType ==
  ASSUME NEW h \in HealthType, NEW age \in 0 .. MaxAge
  PROVE  note_stall_signalled(h, age) \in HealthType
  <1>1. age \in Age BY HealthAssumption DEF Age, Unset
  <1> QED BY <1>1 DEF note_stall_signalled, HealthType

\* The places a worker can be in.
LEMMA PCs ==
  /\ Holding \subseteq PC /\ Window \subseteq Holding
  /\ {"queued", "released", "done"} \subseteq PC
  BY DEF PC, Holding

\* A worker's move changes its own place only.
LEMMA ToType ==
  ASSUME pc \in [Turn -> PC], NEW t \in Turn, NEW p \in PC, To(t, p)
  PROVE  /\ pc' \in [Turn -> PC]
         /\ pc'[t] = p
         /\ \A u \in Turn \ {t} : pc'[u] = pc[u]
  BY DEF To

\* The initial state has the types.
LEMMA TypeInit == Init => TypeOK
  <1> SUFFICES ASSUME Init PROVE TypeOK
    OBVIOUS
  <1>1. health \in HealthType
    BY HealthAssumption DEF Init, HealthInit, HealthType, Age, Unset
  <1>2. flags \in [Turn -> TurnFlags] BY DEF Init, NewTurn, TurnFlags
  <1>3. pc \in [Turn -> PC] BY DEF Init, PC
  <1>4. run \in Locals BY DEF Init, NoRun, Locals, Status
  <1>5. answer \in [Turn -> Answer] BY DEF Init, NoAnswer, Answer
  <1>6. dialog \in Dialog BY DEF Init, NewDialog, Dialog, Stops, Samplers
  <1> QED BY <1>1, <1>2, <1>3, <1>4, <1>5, <1>6 DEF Init, TypeOK

\* An abort by any thread changes the flags and the holder of _abort_lock.
LEMMA AbortType ==
  ASSUME TypeOK, NEW by \in Turn \cup {Main, Watchdog}, NEW t \in Turn \cup {Nobody},
         NEW any \in BOOLEAN, NEW stalled \in BOOLEAN, _abort(by, t, any, stalled)
  PROVE  /\ flags' \in [Turn -> TurnFlags]
         /\ signaller' \in Turn \cup {Nobody, Main, Watchdog}
  <1>1. signaller' \in Turn \cup {Nobody, Main, Watchdog}
    BY DEF _abort
  <1>2. CASE Aborts(t, any)
    <2> DEFINE x == Target(t, any)
    <2>1. x \in Turn BY <1>2 DEF Aborts, Target, TypeOK
    <2>2. flags' = [flags EXCEPT ![x].aborted = TRUE, ![x].stalled = @ \/ stalled]
      BY <1>2 DEF _abort
    <2>3. flags \in [Turn -> TurnFlags] BY DEF TypeOK
    <2> HIDE DEF x
    <2>4. [flags[x] EXCEPT !.aborted = TRUE, !.stalled = @ \/ stalled] \in TurnFlags
      BY <2>1, <2>3 DEF TurnFlags
    <2> QED BY <1>1, <2>1, <2>2, <2>3, <2>4
  <1>3. CASE ~Aborts(t, any)
    BY <1>1, <1>3 DEF _abort, TypeOK
  <1> QED BY <1>2, <1>3

\* The text handed out is made of words, also when its last piece was not.
LEMMA GeneratedType ==
  ASSUME TypeOK PROVE Generated \in Seq(Word)
  <1>1. run.toks \in Seq(Word) BY EngineAssumption DEF TypeOK, Locals
  <1>2. Replacement \in Word BY EngineAssumption
  <1>3. \A n \in 1 .. Len(run.toks) : [run.toks EXCEPT ![n] = Replacement] \in Seq(Word)
    BY <1>1, <1>2
  <1>4. Len(run.toks) \in Nat BY <1>1
  <1> QED BY <1>1, <1>3, <1>4 DEF Generated

\* Finish is always one of the reasons a consumer knows.
LEMMA FinishType ==
  ASSUME TypeOK, NEW t \in Turn
  PROVE  Finish(t) \in {"stop", "length", "raised"}
  BY DEF Finish

\* Every step of a turn's worker, driver call and consumer keeps the types.
LEMMA TypeTurn ==
  ASSUME TypeOK, NEW t \in Turn,
         Admit(t) \/ Worker(t) \/ Native(t) \/ Consumer(t)
  PROVE  TypeOK'
  <1>pc. pc \in [Turn -> PC] BY DEF TypeOK
  <1>h. health \in HealthType BY DEF TypeOK
  <1>r. run \in Locals BY DEF TypeOK
  <1>d. dialog \in Dialog BY DEF TypeOK
  <1>f. flags \in [Turn -> TurnFlags] BY DEF TypeOK
  <1>a. answer \in [Turn -> Answer] BY DEF TypeOK
  <1>q. req[t] \in Request BY DEF TypeOK
  <1>1. CASE Admit(t)
    <2>1. pc' \in [Turn -> PC] BY <1>1, <1>pc, PCs, ToType DEF Admit, Holding
    <2>2. health' \in HealthType BY <1>1, <1>h, HealthMethods DEF Admit, Begun
    <2>3. run' \in Locals BY <1>1 DEF Admit, NoRun, Locals, Status
    <2> QED BY <1>1, <2>1, <2>2, <2>3 DEF Admit, TypeOK, books, client
  <1>2. CASE Refuse(t)
    <2>1. pc' \in [Turn -> PC] BY <1>2, <1>pc, PCs, ToType DEF Refuse
    <2>2. flags' \in [Turn -> TurnFlags] BY <1>2, <1>f DEF Refuse, TurnFlags
    <2>3. answer' \in [Turn -> Answer] BY <1>2, <1>a DEF Refuse, Answer
    <2> QED BY <1>2, <2>1, <2>2, <2>3 DEF Refuse, TypeOK, books
  <1>3. CASE GoLive(t)
    <2>1. pc' \in [Turn -> PC] BY <1>3, <1>pc, PCs, ToType DEF GoLive, Window
    <2> QED BY <1>3, <2>1 DEF GoLive, TypeOK, books, client
  <1>4. CASE Raise(t)
    <2>1. pc' \in [Turn -> PC] BY <1>4, <1>pc, PCs, ToType DEF Raise, Window
    <2>2. dialog' \in Dialog BY <1>4, <1>d DEF Raise, Dialog
    <2> QED BY <1>4, <2>1, <2>2 DEF Raise, TypeOK, engine, client
  <1>5. CASE set_stop_sequences(t)
    <2>1. pc' \in [Turn -> PC]
      BY <1>5, <1>pc, PCs, ToType DEF set_stop_sequences, Window
    <2>2. dialog' \in Dialog
      BY <1>5, <1>d, <1>q DEF set_stop_sequences, Dialog, Stops
    <2>3. stop_dirty' \in BOOLEAN BY <1>5 DEF set_stop_sequences, TypeOK
    <2> QED BY <1>5, <2>1, <2>2, <2>3 DEF set_stop_sequences, TypeOK, engine, client
  <1>6. CASE apply_sampler(t)
    <2>1. pc' \in [Turn -> PC]
      BY <1>6, <1>pc, PCs, ToType DEF apply_sampler, Window
    <2>2. dialog' \in Dialog
      BY <1>6, <1>d, <1>q DEF apply_sampler, Dialog, Samplers
    <2>3. sampler_dirty' \in BOOLEAN BY <1>6 DEF apply_sampler, TypeOK
    <2> QED BY <1>6, <2>1, <2>2, <2>3 DEF apply_sampler, TypeOK, engine, client
  <1>7. CASE _plan(t)
    <2>1. pc' \in [Turn -> PC] BY <1>7, <1>pc, PCs, ToType DEF _plan, Window
    <2>p. req[t].prompt \in Seq(Word) BY <1>q, EngineAssumption
    <2>2. CASE Continues(req[t].prompt, committed)
      <3> DEFINE s == SubSeq(req[t].prompt, Len(committed) + 1, Len(req[t].prompt))
      <3>1. committed \in Seq(Word) BY <2>2 DEF Continues, TypeOK
      <3>2. Len(committed) \in Nat BY <3>1
      <3>3. s \in Seq(Word) BY <2>p, <3>2
      <3>4. run' = [run EXCEPT !.send = s] BY <1>7, <2>2 DEF _plan
      <3> HIDE DEF s
      <3>5. run' \in Locals BY <1>r, <3>3, <3>4 DEF Locals
      <3> QED BY <1>7, <2>1, <2>2, <3>5 DEF _plan, TypeOK, engine, client
    <2>3. CASE ~Continues(req[t].prompt, committed)
      <3>1. run' \in Locals BY <1>7, <1>r, <2>p, <2>3 DEF _plan, Locals
      <3>2. << >> \in Seq(Word \cup {Junk})
        OBVIOUS
      <3>3. \A s \in Seq(Word \cup {Junk}) : [dialog EXCEPT !.kv = s] \in Dialog
        BY <1>d DEF Dialog
      <3>4. dialog' \in Dialog BY <1>7, <2>3, <3>2, <3>3 DEF _plan
      <3> QED BY <1>7, <2>1, <2>3, <3>1, <3>4 DEF _plan, TypeOK, engine, client
    <2> QED BY <2>2, <2>3
  <1>8. CASE SetMaxNumTokens(t)
    <2>1. pc' \in [Turn -> PC]
      BY <1>8, <1>pc, PCs, ToType DEF SetMaxNumTokens, Window
    <2>2. req[t].cap \in Nat BY <1>q, EngineAssumption
    <2>3. dialog' \in Dialog BY <1>8, <1>d, <2>2 DEF SetMaxNumTokens, Dialog
    <2> QED BY <1>8, <2>1, <2>3 DEF SetMaxNumTokens, TypeOK, engine, client, books
  <1>9. CASE Arm(t)
    <2>1. pc' \in [Turn -> PC] BY <1>9, <1>pc, PCs, ToType DEF Arm, Window
    <2>2. run' \in Locals BY <1>9, <1>r DEF Arm, Locals, Status
    <2>3. querying' \in BOOLEAN BY <1>9 DEF Arm, TypeOK
    <2> QED BY <1>9, <2>1, <2>2, <2>3 DEF Arm, TypeOK, client, books
  <1>10. CASE EnterQuery(t)
    <2>1. pc' \in [Turn -> PC] BY <1>10, <1>pc, PCs, ToType DEF EnterQuery, Window
    <2>2. run.send \in Seq(Word \cup {Junk}) /\ dialog.kv \in Seq(Word \cup {Junk})
      BY <1>r, <1>d DEF Locals, Dialog
    <2>3. dialog.kv \o run.send \in Seq(Word \cup {Junk})
      BY <2>2
    <2>4. dialog' \in Dialog BY <1>10, <1>d, <2>3 DEF EnterQuery, Dialog
    <2> QED BY <1>10, <2>1, <2>4 DEF EnterQuery, TypeOK, engine, client, books
  <1>11. CASE Leave(t)
    <2>1. pc' \in [Turn -> PC] BY <1>11, <1>pc, PCs, ToType DEF Leave, Holding
    <2>2. run' \in Locals BY <1>11, <1>r, <1>f DEF Leave, Locals, TurnFlags
    <2>3. flags' \in [Turn -> TurnFlags] BY <1>11, <1>f DEF Leave, TurnFlags
    <2>4. live' \in Turn \cup {Nobody} /\ querying' \in BOOLEAN
      BY <1>11 DEF Leave
    <2> QED BY <1>11, <2>1, <2>2, <2>3, <2>4 DEF Leave, TypeOK, client, books
  <1>12. CASE HealthEnd(t)
    <2>1. pc' \in [Turn -> PC] BY <1>12, <1>pc, PCs, ToType DEF HealthEnd, Holding
    <2>2. Booked \in BOOLEAN /\ (~req[t].internal) \in BOOLEAN
      BY <1>r DEF Booked, Locals
    <2>3. health' \in HealthType BY <1>12, <1>h, <2>2, EndType DEF HealthEnd
    <2> QED BY <1>12, <2>1, <2>3 DEF HealthEnd, TypeOK, client, books
  <1>13. CASE Recount(t)
    <2>1. pc' \in [Turn -> PC] BY <1>13, <1>pc, PCs, ToType DEF Recount, Holding
    <2>2. health' \in HealthType BY <1>13, <1>h, HealthMethods DEF Recount
    <2> QED BY <1>13, <2>1, <2>2 DEF Recount, TypeOK, client, books
  <1>14. CASE Release(t)
    <2>1. pc' \in [Turn -> PC] BY <1>14, <1>pc, PCs, ToType DEF Release
    <2>2. run' \in Locals BY <1>14 DEF Release, NoRun, Locals, Status
    <2>3. run.cut \in BOOLEAN BY <1>r DEF Locals
    <2>4. answer' \in [Turn -> Answer]
      BY <1>14, <1>a, <2>3, FinishType DEF Release, Answer
    <2>5. req[t].prompt \o Generated \in Seq(Word)
      BY <1>q, EngineAssumption, GeneratedType
    <2>6. committed' \in Seq(Word) \cup {NoText}
      BY <1>14, <2>5 DEF Release, _commit, TypeOK
    <2> QED BY <1>14, <2>1, <2>2, <2>4, <2>6 DEF Release, TypeOK
  <1>15. CASE Report(t)
    <2>1. pc' \in [Turn -> PC] BY <1>15, <1>pc, PCs, ToType DEF Report
    <2>2. Kind(t) \in {"error", "done", "discarded", "cut"} BY DEF Kind
    <2>3. answer' \in [Turn -> Answer] BY <1>15, <1>a, <2>2 DEF Report, Answer
    <2> QED BY <1>15, <2>1, <2>3 DEF Report, TypeOK, books
  <1>16. CASE _cb(t)
    <2>1. PICK w \in Token : /\ dialog' = [dialog EXCEPT !.kv = Append(@, w)]
                             /\ run' = [run EXCEPT !.toks = Append(@, w)]
      BY <1>16 DEF _cb
    <2>2. w \in Word \cup {Junk} BY EngineAssumption
    <2>3. Append(run.toks, w) \in Seq(Token) BY <1>r DEF Locals
    <2>4. Append(dialog.kv, w) \in Seq(Word \cup {Junk}) BY <1>d, <2>2 DEF Dialog
    <2>5. run' \in Locals BY <1>r, <2>1, <2>3 DEF Locals
    <2>6. dialog' \in Dialog BY <1>d, <2>1, <2>4 DEF Dialog
    <2>7. health' \in HealthType BY <1>16, <1>h, HealthMethods DEF _cb
    <2> QED BY <1>16, <2>5, <2>6, <2>7 DEF _cb, TypeOK, client, books
  <1>17. CASE QueryReturns(t)
    <2>1. pc' \in [Turn -> PC] BY <1>17, <1>pc, PCs, ToType DEF QueryReturns, Window
    <2>2. PICK s \in Status \ {"none"}, cut \in BOOLEAN, tail \in {<< >>, <<Junk>>} :
            /\ run' = [run EXCEPT !.status = s, !.cut = cut]
            /\ dialog' = [dialog EXCEPT !.kv = @ \o tail, !.inside = FALSE,
                                        !.cutting = FALSE]
      BY <1>17 DEF QueryReturns
    <2>3. << >> \in Seq(Word \cup {Junk}) /\ <<Junk>> \in Seq(Word \cup {Junk})
      OBVIOUS
    <2>4. tail \in Seq(Word \cup {Junk}) BY <2>3
    <2>5. dialog.kv \o tail \in Seq(Word \cup {Junk}) BY <1>d, <2>4 DEF Dialog
    <2>6. dialog' \in Dialog BY <1>d, <2>2, <2>5 DEF Dialog
    <2>7. run' \in Locals BY <1>r, <2>2 DEF Locals
    <2> QED BY <1>17, <2>1, <2>6, <2>7 DEF QueryReturns, TypeOK, engine, client, books
  <1>18. CASE RecountReturns(t)
    <2>1. pc' \in [Turn -> PC]
      BY <1>18, <1>pc, PCs, ToType DEF RecountReturns, Holding
    <2>2. health' \in HealthType BY <1>18, <1>h, HealthMethods DEF RecountReturns
    <2>3. run' \in Locals BY <1>18, <1>r DEF RecountReturns, Locals
    <2> QED BY <1>18, <2>1, <2>2, <2>3 DEF RecountReturns, TypeOK, client, books
  <1>19. CASE Lost(t)
    <2>1. /\ flags' \in [Turn -> TurnFlags]
          /\ signaller' \in Turn \cup {Nobody, Main, Watchdog}
      BY <1>19, AbortType DEF Lost
    <2>2. consumer' \in [Turn -> {"reading", "lost", "left"}]
      BY <1>19 DEF Lost, TypeOK
    <2> QED BY <1>19, <2>1, <2>2 DEF Lost, TypeOK, untouched, books
  <1>20. CASE Close(t)
    <2>1. /\ flags' \in [Turn -> TurnFlags]
          /\ signaller' \in Turn \cup {Nobody, Main, Watchdog}
      BY <1>20, AbortType DEF Close
    <2>2. consumer' \in [Turn -> {"reading", "lost", "left"}]
      BY <1>20 DEF Close, TypeOK
    <2> QED BY <1>20, <2>1, <2>2 DEF Close, TypeOK, untouched, books
  <1> QED
    BY <1>1, <1>2, <1>3, <1>4, <1>5, <1>6, <1>7, <1>8, <1>9, <1>10, <1>11,
       <1>12, <1>13, <1>14, <1>15, <1>16, <1>17, <1>18, <1>19, <1>20
    DEF Worker, Native, Prepare, Consumer

\* Every step of the main thread keeps the types.
LEMMA TypeMain ==
  ASSUME TypeOK, MainStep PROVE TypeOK'
  <1>f. flags \in [Turn -> TurnFlags] BY DEF TypeOK
  <1>1. CASE begin_shutdown
    <2>1. flags' \in [Turn -> TurnFlags]
      <3>1. CASE live # Nobody /\ ~flags[live].done
        <4>1. live \in Turn BY <3>1 DEF TypeOK
        <4>2. flags' = [flags EXCEPT ![live].shutdown = TRUE]
          BY <1>1, <3>1 DEF begin_shutdown
        <4> QED BY <1>f, <4>1, <4>2 DEF TurnFlags
      <3>2. CASE ~(live # Nobody /\ ~flags[live].done)
        BY <1>1, <1>f, <3>2 DEF begin_shutdown
      <3> QED BY <3>1, <3>2
    <2> QED BY <1>1, <2>1 DEF begin_shutdown, TypeOK, untouched, books
  <1>2. CASE ShutdownAbort
    <2>1. /\ flags' \in [Turn -> TurnFlags]
          /\ signaller' \in Turn \cup {Nobody, Main, Watchdog}
      BY <1>2, AbortType DEF ShutdownAbort
    <2> QED BY <1>2, <2>1 DEF ShutdownAbort, TypeOK, untouched, books
  <1>3. CASE CloseMark
    BY <1>3 DEF CloseMark, TypeOK, untouched, books
  <1>4. CASE CloseAcquire
    BY <1>4 DEF CloseAcquire, TypeOK, quiet, books, client
  <1>5. CASE CloseTimeout
    BY <1>5 DEF CloseTimeout, TypeOK, quiet, books, client
  <1>6. CASE CloseNull
    BY <1>6 DEF CloseNull, TypeOK, quiet, books, client
  <1>7. CASE CloseFree
    <2>1. dialog' \in Dialog BY <1>7 DEF CloseFree, TypeOK, Dialog
    <2> QED BY <1>7, <2>1 DEF CloseFree, TypeOK, quiet, books, client
  <1>8. CASE Exit
    BY <1>8 DEF Exit, TypeOK, quiet, books, client
  <1> QED BY <1>1, <1>2, <1>3, <1>4, <1>5, <1>6, <1>7, <1>8 DEF MainStep

\* So do the signal, the tokenizer, the watchdog and the clock.
LEMMA TypeOthers ==
  ASSUME TypeOK, SignalReturns \/ count_tokens \/ CountReturns \/ Outside
  PROVE  TypeOK'
  <1>h. health \in HealthType BY DEF TypeOK
  <1>1. CASE SignalReturns
    <2>1. dialog' \in Dialog
      BY <1>1, EngineAssumption DEF SignalReturns, TypeOK, Dialog
    <2> QED BY <1>1, <2>1 DEF SignalReturns, TypeOK, client, books
  <1>2. CASE count_tokens
    <2>1. health' \in HealthType BY <1>2, <1>h, HealthMethods DEF count_tokens
    <2> QED BY <1>2, <2>1 DEF count_tokens, TypeOK, client, books
  <1>3. CASE CountReturns
    <2>1. health' \in HealthType BY <1>3, <1>h, HealthMethods DEF CountReturns
    <2> QED BY <1>3, <2>1 DEF CountReturns, TypeOK, client, books
  <1>4. CASE WatchdogAbort
    <2>1. /\ flags' \in [Turn -> TurnFlags]
          /\ signaller' \in Turn \cup {Nobody, Main, Watchdog}
      BY <1>4, AbortType DEF WatchdogAbort
    <2> QED BY <1>4, <2>1 DEF WatchdogAbort, TypeOK, untouched, books
  <1>5. CASE NoteStall
    <2>1. health' \in HealthType BY <1>5, <1>h, NoteType DEF NoteStall
    <2> QED BY <1>5, <2>1 DEF NoteStall, TypeOK, clockless, client, books
  <1>6. CASE Tick
    <2>1. health' \in HealthType BY <1>6, <1>h, HealthMethods DEF Tick
    <2> QED BY <1>6, <2>1 DEF Tick, TypeOK, clockless, client, books
  <1> QED BY <1>1, <1>2, <1>3, <1>4, <1>5, <1>6 DEF Outside

\* TypeOK is inductive on its own.
LEMMA TypeStep == TypeOK /\ [Next]_vars => TypeOK'
  <1> SUFFICES ASSUME TypeOK, [Next]_vars PROVE TypeOK'
    OBVIOUS
  <1>1. CASE UNCHANGED vars
    BY <1>1 DEF TypeOK, vars, books, client
  <1>2. CASE Next
    BY <1>1, <1>2, TypeTurn, TypeMain, TypeOthers DEF Next, Inside, Rest
  <1> QED BY <1>1, <1>2

\* Every variable keeps its type, whatever the driver, the clients and the
\* watchdog do.
THEOREM TypeInvariant == Spec => []TypeOK
  BY TypeInit, TypeStep, PTL DEF Spec
-----------------------------------------------------------------------------
(***************************************************************************)
(* The two locks.  What every later invariant rests on: a turn's place in  *)
(* _run_query tells who holds the engine lock, who is live and who is done.*)
(***************************************************************************)
\* The places of a turn that is done: out of its window, or refused.
Gone == {"left", "ended", "recounting", "recounted", "released", "done"}

Holders == \A t \in Turn : pc[t] \in Holding <=> lock = t
Live == \A t \in Turn : pc[t] \in Window <=> live = t
Done == \A t \in Turn : flags[t].done <=> pc[t] \in Gone
MainHolds == lock = Main <=> main \in {"acquired", "nulled"}

Locking == Holders /\ Live /\ Done /\ MainHolds

\* Where every turn is after one of them has moved.
LEMMA Places ==
  ASSUME TypeOK, NEW t \in Turn, NEW p \in PC, To(t, p)
  PROVE  \A u \in Turn : pc'[u] = IF u = t THEN p ELSE pc[u]
  BY ToType DEF TypeOK

\* An abort touches no turn that is done, and makes none done.
LEMMA AbortSparesDone ==
  ASSUME TypeOK, NEW by, NEW t \in Turn \cup {Nobody},
         NEW any \in BOOLEAN, NEW stalled \in BOOLEAN, _abort(by, t, any, stalled)
  PROVE  \A u \in Turn : /\ flags'[u].done = flags[u].done
                         /\ flags[u].done => flags'[u] = flags[u]
  <1>1. CASE Aborts(t, any)
    <2> DEFINE x == Target(t, any)
    <2>1. x \in Turn /\ ~flags[x].done BY <1>1 DEF Aborts, Target, TypeOK
    <2>2. flags' = [flags EXCEPT ![x].aborted = TRUE, ![x].stalled = @ \/ stalled]
      BY <1>1 DEF _abort
    <2>3. flags \in [Turn -> TurnFlags] BY DEF TypeOK
    <2> HIDE DEF x
    <2> QED BY <2>1, <2>2, <2>3 DEF TurnFlags
  <1>2. CASE ~Aborts(t, any)
    BY <1>2 DEF _abort
  <1> QED BY <1>1, <1>2

\* begin_shutdown's mark, likewise.
LEMMA MarkSparesDone ==
  ASSUME TypeOK, begin_shutdown
  PROVE  \A u \in Turn : /\ flags'[u].done = flags[u].done
                         /\ flags[u].done => flags'[u] = flags[u]
  <1>f. flags \in [Turn -> TurnFlags] BY DEF TypeOK
  <1>1. CASE live # Nobody /\ ~flags[live].done
    <2>1. live \in Turn BY <1>1 DEF TypeOK
    <2>2. flags' = [flags EXCEPT ![live].shutdown = TRUE]
      BY <1>1 DEF begin_shutdown
    <2> QED BY <1>f, <1>1, <2>1, <2>2 DEF TurnFlags
  <1>2. CASE ~(live # Nobody /\ ~flags[live].done)
    BY <1>2 DEF begin_shutdown
  <1> QED BY <1>1, <1>2

\* What setting `done` leaves alone.
LEMMA DoneTurn ==
  ASSUME TypeOK, NEW t \in Turn, flags' = [flags EXCEPT ![t].done = TRUE]
  PROVE  /\ flags'[t].done
         /\ \A u \in Turn \ {t} : flags'[u] = flags[u]
         /\ flags'[t].stalled = flags[t].stalled
         /\ flags'[t].aborted = flags[t].aborted
  BY DEF TypeOK, TurnFlags

\* At the start nobody holds, is live or is done.
LEMMA LockingInit == Init => Locking
  BY EngineAssumption
  DEF Init, Locking, Holders, Live, Done, MainHolds, NewTurn, Holding, Window, Gone

\* A step of a turn inside its window, which moves it to another place of it.
LEMMA LockingInWindow ==
  ASSUME TypeOK, Locking, NEW t \in Turn, NEW p \in Window, To(t, p),
         pc[t] \in Window, UNCHANGED <<lock, live, flags, main>>
  PROVE  Locking'
  <1>1. \A u \in Turn : pc'[u] = IF u = t THEN p ELSE pc[u]
    BY PCs, Places
  <1>2. Holders' BY <1>1, PCs DEF Locking, Holders
  <1>3. Live' BY <1>1 DEF Locking, Live
  <1>4. Done' BY <1>1 DEF Locking, Done, Gone, Window
  <1> QED BY <1>2, <1>3, <1>4 DEF Locking, MainHolds

\* A step of a turn that holds the engine lock and is done.
LEMMA LockingAfterwards ==
  ASSUME TypeOK, Locking, NEW t \in Turn, NEW p \in Gone \cap Holding, To(t, p),
         pc[t] \in Gone \cap Holding, UNCHANGED <<lock, live, flags, main>>
  PROVE  Locking'
  <1>1. \A u \in Turn : pc'[u] = IF u = t THEN p ELSE pc[u]
    BY PCs, Places
  <1>2. Holders' BY <1>1 DEF Locking, Holders
  <1>3. Live' BY <1>1 DEF Locking, Live, Gone, Window
  <1>4. Done' BY <1>1 DEF Locking, Done
  <1> QED BY <1>2, <1>3, <1>4 DEF Locking, MainHolds

\* A step that moves no turn and passes the engine lock between no turns.
LEMMA LockingElsewhere ==
  ASSUME TypeOK, Locking, UNCHANGED <<pc, live>>,
         \A u \in Turn : flags'[u].done = flags[u].done,
         \A u \in Turn : lock' = u <=> lock = u,
         lock' = Main <=> main' \in {"acquired", "nulled"}
  PROVE  Locking'
  BY DEF Locking, Holders, Live, Done, MainHolds

\* Every step of a turn keeps Locking.
LEMMA LockingTurn ==
  ASSUME TypeOK, Locking, NEW t \in Turn,
         Admit(t) \/ Worker(t) \/ Native(t) \/ Consumer(t)
  PROVE  Locking'
  <1>m. t # Nobody /\ t # Main /\ t # Counter BY EngineAssumption
  <1>1. CASE Admit(t)
    <2>1. PICK p \in {"refusing", "admitted"} : To(t, p) BY <1>1 DEF Admit
    <2>2. \A u \in Turn : pc'[u] = IF u = t THEN p ELSE pc[u]
      BY <2>1, Places DEF PC, Holding
    <2>3. Holders' BY <1>1, <2>2, EngineAssumption
      DEF Locking, Holders, Admit, Holding, Window
    <2>4. Live' BY <1>1, <2>2 DEF Locking, Live, Admit, Window
    <2>5. Done' BY <1>1, <2>2 DEF Locking, Done, Admit, Gone
    <2>6. MainHolds' BY <1>1, <1>m, EngineAssumption DEF Locking, MainHolds, Admit
    <2> QED BY <2>3, <2>4, <2>5, <2>6 DEF Locking
  <1>2. CASE Refuse(t)
    <2>1. \A u \in Turn : pc'[u] = IF u = t THEN "done" ELSE pc[u]
      BY <1>2, Places, PCs DEF Refuse
    <2>2. lock = t BY <1>2 DEF Refuse, Locking, Holders, Holding
    <2>3. Holders' BY <1>2, <1>m, <2>1, <2>2, EngineAssumption
      DEF Locking, Holders, Refuse, Holding, Window
    <2>4. Live' BY <1>2, <2>1 DEF Locking, Live, Refuse, Window
    <2>d. flags'[t].done /\ \A u \in Turn \ {t} : flags'[u] = flags[u]
      BY <1>2, DoneTurn DEF Refuse
    <2>5. Done' BY <2>d, <2>1 DEF Locking, Done, Gone
    <2>6. MainHolds' BY <1>2, <1>m, <2>2, EngineAssumption
      DEF Locking, MainHolds, Refuse
    <2> QED BY <2>3, <2>4, <2>5, <2>6 DEF Locking
  <1>3. CASE GoLive(t)
    <2>1. \A u \in Turn : pc'[u] = IF u = t THEN "live" ELSE pc[u]
      BY <1>3, Places, PCs DEF GoLive, Window
    <2>2. lock = t BY <1>3 DEF GoLive, Locking, Holders, Holding
    <2>3. Holders' BY <1>3, <2>1, <2>2 DEF Locking, Holders, GoLive, Holding, Window
    <2>4. Live' BY <1>3, <2>1, <2>2, PCs DEF Locking, Live, Holders, GoLive, Window
    <2>5. Done' BY <1>3, <2>1 DEF Locking, Done, GoLive, Gone
    <2>6. MainHolds' BY <1>3 DEF Locking, MainHolds, GoLive
    <2> QED BY <2>3, <2>4, <2>5, <2>6 DEF Locking
  <1>4. CASE Raise(t)
    BY <1>4, LockingInWindow DEF Raise, engine, Window
  <1>5. CASE set_stop_sequences(t)
    BY <1>5, LockingInWindow DEF set_stop_sequences, engine, Window
  <1>6. CASE apply_sampler(t)
    BY <1>6, LockingInWindow DEF apply_sampler, engine, Window
  <1>7. CASE _plan(t)
    BY <1>7, LockingInWindow DEF _plan, engine, Window
  <1>8. CASE SetMaxNumTokens(t)
    BY <1>8, LockingInWindow DEF SetMaxNumTokens, engine, Window
  <1>9. CASE Arm(t)
    <2>1. PICK p \in {"returned", "armed"} : To(t, p) BY <1>9 DEF Arm
    <2> QED BY <1>9, <2>1, LockingInWindow DEF Arm, Window
  <1>10. CASE EnterQuery(t)
    BY <1>10, LockingInWindow DEF EnterQuery, engine, Window
  <1>11. CASE Leave(t)
    <2>1. \A u \in Turn : pc'[u] = IF u = t THEN "left" ELSE pc[u]
      BY <1>11, Places, PCs DEF Leave, Holding
    <2>2. lock = t /\ live = t
      BY <1>11 DEF Leave, Locking, Holders, Live, Holding, Window
    <2>3. Holders' BY <1>11, <2>1, <2>2 DEF Locking, Holders, Leave, Holding, Window
    <2>4. Live' BY <1>11, <2>1, <2>2, EngineAssumption DEF Locking, Live, Leave, Window
    <2>d. flags'[t].done /\ \A u \in Turn \ {t} : flags'[u] = flags[u]
      BY <1>11, DoneTurn DEF Leave
    <2>5. Done' BY <2>d, <2>1 DEF Locking, Done, Gone
    <2>6. MainHolds' BY <1>11 DEF Locking, MainHolds, Leave
    <2> QED BY <2>3, <2>4, <2>5, <2>6 DEF Locking
  <1>12. CASE HealthEnd(t)
    BY <1>12, LockingAfterwards DEF HealthEnd, Gone, Holding
  <1>13. CASE Recount(t)
    BY <1>13, LockingAfterwards DEF Recount, Gone, Holding
  <1>14. CASE Release(t)
    <2>1. \A u \in Turn : pc'[u] = IF u = t THEN "released" ELSE pc[u]
      BY <1>14, Places, PCs DEF Release
    <2>2. lock = t BY <1>14 DEF Release, Locking, Holders, Holding
    <2>3. Holders' BY <1>14, <1>m, <2>1, <2>2, EngineAssumption
      DEF Locking, Holders, Release, Holding, Window
    <2>4. Live' BY <1>14, <2>1 DEF Locking, Live, Release, Window
    <2>5. Done' BY <1>14, <2>1 DEF Locking, Done, Release, Gone
    <2>6. MainHolds' BY <1>14, <1>m, <2>2, EngineAssumption
      DEF Locking, MainHolds, Release
    <2> QED BY <2>3, <2>4, <2>5, <2>6 DEF Locking
  <1>15. CASE Report(t)
    <2>1. \A u \in Turn : pc'[u] = IF u = t THEN "done" ELSE pc[u]
      BY <1>15, Places, PCs DEF Report
    <2>2. Holders' BY <1>15, <2>1 DEF Locking, Holders, Report, Holding, Window
    <2>3. Live' BY <1>15, <2>1 DEF Locking, Live, Report, Window
    <2>4. Done' BY <1>15, <2>1 DEF Locking, Done, Report, Gone
    <2> QED BY <1>15, <2>2, <2>3, <2>4 DEF Locking, MainHolds, Report
  <1>16. CASE _cb(t)
    BY <1>16, LockingElsewhere DEF _cb, Locking, MainHolds
  <1>17. CASE QueryReturns(t)
    BY <1>17, LockingInWindow DEF QueryReturns, engine, Window
  <1>18. CASE RecountReturns(t)
    BY <1>18, LockingAfterwards DEF RecountReturns, Gone, Holding
  <1>19. CASE Lost(t)
    <2>1. \A u \in Turn : flags'[u].done = flags[u].done
      BY <1>19, AbortSparesDone DEF Lost
    <2> QED BY <1>19, <2>1, LockingElsewhere DEF Lost, untouched, Locking, MainHolds
  <1>20. CASE Close(t)
    <2>1. \A u \in Turn : flags'[u].done = flags[u].done
      BY <1>20, AbortSparesDone DEF Close
    <2> QED BY <1>20, <2>1, LockingElsewhere DEF Close, untouched, Locking, MainHolds
  <1> QED
    BY <1>1, <1>2, <1>3, <1>4, <1>5, <1>6, <1>7, <1>8, <1>9, <1>10, <1>11,
       <1>12, <1>13, <1>14, <1>15, <1>16, <1>17, <1>18, <1>19, <1>20
    DEF Worker, Native, Prepare, Consumer

\* Every step of the main thread keeps Locking.
LEMMA LockingMain ==
  ASSUME TypeOK, Locking, MainStep PROVE Locking'
  <1>1. CASE begin_shutdown
    <2>1. \A u \in Turn : flags'[u].done = flags[u].done
      BY <1>1, MarkSparesDone
    <2> QED BY <1>1, <2>1, LockingElsewhere
      DEF begin_shutdown, untouched, Locking, MainHolds
  <1>2. CASE ShutdownAbort
    <2>1. \A u \in Turn : flags'[u].done = flags[u].done
      BY <1>2, AbortSparesDone DEF ShutdownAbort
    <2> QED BY <1>2, <2>1, LockingElsewhere
      DEF ShutdownAbort, untouched, Locking, MainHolds
  <1>3. CASE CloseMark
    BY <1>3, LockingElsewhere DEF CloseMark, untouched, Locking, MainHolds
  <1>4. CASE CloseAcquire
    BY <1>4, LockingElsewhere, EngineAssumption DEF CloseAcquire, quiet, client
  <1>5. CASE CloseTimeout
    BY <1>5, LockingElsewhere DEF CloseTimeout, quiet, client, Locking, MainHolds
  <1>6. CASE CloseNull
    BY <1>6, LockingElsewhere DEF CloseNull, quiet, client, Locking, MainHolds
  <1>7. CASE CloseFree
    <2>1. lock = Main BY <1>7 DEF CloseFree, Locking, MainHolds
    <2> QED BY <1>7, <2>1, LockingElsewhere, EngineAssumption
      DEF CloseFree, quiet, client
  <1>8. CASE Exit
    BY <1>8, LockingElsewhere DEF Exit, quiet, client, Locking, MainHolds
  <1> QED BY <1>1, <1>2, <1>3, <1>4, <1>5, <1>6, <1>7, <1>8 DEF MainStep

\* The signal, the tokenizer, the watchdog and the clock keep Locking.
LEMMA LockingOthers ==
  ASSUME TypeOK, Locking, SignalReturns \/ count_tokens \/ CountReturns \/ Outside
  PROVE  Locking'
  <1>1. CASE SignalReturns
    BY <1>1, LockingElsewhere DEF SignalReturns, Locking, MainHolds
  <1>2. CASE count_tokens
    BY <1>2, LockingElsewhere, EngineAssumption
    DEF count_tokens, Locking, MainHolds
  <1>3. CASE CountReturns
    BY <1>3, LockingElsewhere, EngineAssumption
    DEF CountReturns, Locking, MainHolds
  <1>4. CASE WatchdogAbort
    <2>1. \A u \in Turn : flags'[u].done = flags[u].done
      BY <1>4, AbortSparesDone DEF WatchdogAbort
    <2> QED BY <1>4, <2>1, LockingElsewhere
      DEF WatchdogAbort, untouched, Locking, MainHolds
  <1>5. CASE NoteStall
    BY <1>5, LockingElsewhere DEF NoteStall, clockless, client, Locking, MainHolds
  <1>6. CASE Tick
    BY <1>6, LockingElsewhere DEF Tick, clockless, client, Locking, MainHolds
  <1> QED BY <1>1, <1>2, <1>3, <1>4, <1>5, <1>6 DEF Outside

\* Locking is inductive relative to the types.
LEMMA LockingStep == TypeOK /\ Locking /\ [Next]_vars => Locking'
  <1> SUFFICES ASSUME TypeOK, Locking, [Next]_vars PROVE Locking'
    OBVIOUS
  <1>1. CASE UNCHANGED vars
    BY <1>1 DEF Locking, Holders, Live, Done, MainHolds, vars, client
  <1>2. CASE Next
    BY <1>1, <1>2, LockingTurn, LockingMain, LockingOthers DEF Next, Inside, Rest
  <1> QED BY <1>1, <1>2

\* Mutual exclusion of the engine: a turn inside _run_query is the one that
\* holds the engine lock, and a turn in its window is the one an abort would
\* be aimed at.
THEOREM LockInvariant == Spec => []Locking
  BY TypeInvariant, LockingInit, LockingStep, PTL DEF Spec
-----------------------------------------------------------------------------
(***************************************************************************)
(* The freed dialog.  `closed` is set under both locks, and from then on   *)
(* nobody is admitted, counts, or signals.                                 *)
(***************************************************************************)
ClosedLast ==
  /\ closed => main \in {"nulled", "leaving", "exited"}
  /\ main = "nulled" \/ dialog.freed => closed

Closing == ClosedLast /\ NoCallOnFreed

\* At the start nothing is closed.
LEMMA ClosingInit == Init => Closing
  BY DEF Init, Closing, ClosedLast, NoCallOnFreed, NewDialog, Holding, Window,
         AbortLockFree

\* An abort after the close finds no live dialog.
LEMMA AbortAfterClose ==
  ASSUME NEW by, NEW t, NEW any, NEW stalled, _abort(by, t, any, stalled), closed
  PROVE  signaller' = Nobody
  BY DEF _abort, Signals, Aborts

\* A step that neither closes nor frees, and starts nothing after the close.
LEMMA ClosingElsewhere ==
  ASSUME Closing, UNCHANGED <<closed, main>>, dialog'.freed = dialog.freed,
         closed => /\ lock' # Counter /\ signaller' = Nobody
                   /\ \A u \in Turn : pc'[u] \notin Holding \ {"refusing"}
  PROVE  Closing'
  BY DEF Closing, ClosedLast, NoCallOnFreed, AbortLockFree

\* A turn in a native call, or on its way to one, excludes the close.
LEMMA ClosingInside ==
  ASSUME Closing, NEW t \in Turn, pc[t] \in Holding \ {"refusing"},
         UNCHANGED <<closed, main>>, dialog'.freed = dialog.freed
  PROVE  Closing'
  BY DEF Closing, ClosedLast, NoCallOnFreed, AbortLockFree

\* Every step of a turn keeps Closing: after the close it is refused.
LEMMA ClosingTurn ==
  ASSUME TypeOK, Closing, NEW t \in Turn,
         Admit(t) \/ Worker(t) \/ Native(t) \/ Consumer(t)
  PROVE  Closing'
  <1>d. dialog \in Dialog BY DEF TypeOK
  <1>m. t # Counter /\ Nobody # Counter BY EngineAssumption
  <1>c. closed => /\ lock # Counter /\ signaller = Nobody
                  /\ \A u \in Turn : pc[u] \notin Holding \ {"refusing"}
    BY DEF Closing, NoCallOnFreed, AbortLockFree
  <1>1. CASE Admit(t)
    <2>1. closed => To(t, "refusing") BY <1>1 DEF Admit
    <2>2. closed => \A u \in Turn : pc'[u] = IF u = t THEN "refusing" ELSE pc[u]
      BY <2>1, Places DEF PC, Holding
    <2> QED BY <1>1, <1>c, <1>m, <2>2, ClosingElsewhere DEF Admit
  <1>2. CASE Refuse(t)
    <2>1. \A u \in Turn : pc'[u] = IF u = t THEN "done" ELSE pc[u]
      BY <1>2, Places, PCs DEF Refuse
    <2>2. "done" \notin Holding BY DEF Holding, Window
    <2> QED BY <1>2, <1>c, <1>m, <2>1, <2>2, ClosingElsewhere DEF Refuse
  <1>3. CASE GoLive(t)
    BY <1>3, ClosingInside DEF GoLive, Holding
  <1>4. CASE Raise(t)
    <2>1. dialog'.freed = dialog.freed BY <1>4, <1>d DEF Raise, Dialog
    <2> QED BY <1>4, <2>1, ClosingInside DEF Raise, engine, Holding, Window
  <1>5. CASE set_stop_sequences(t)
    <2>1. dialog'.freed = dialog.freed BY <1>5, <1>d DEF set_stop_sequences, Dialog
    <2> QED BY <1>5, <2>1, ClosingInside
      DEF set_stop_sequences, engine, Holding, Window
  <1>6. CASE apply_sampler(t)
    <2>1. dialog'.freed = dialog.freed BY <1>6, <1>d DEF apply_sampler, Dialog
    <2> QED BY <1>6, <2>1, ClosingInside DEF apply_sampler, engine, Holding, Window
  <1>7. CASE _plan(t)
    <2>1. dialog'.freed = dialog.freed BY <1>7, <1>d DEF _plan, Dialog
    <2> QED BY <1>7, <2>1, ClosingInside DEF _plan, engine, Holding, Window
  <1>8. CASE SetMaxNumTokens(t)
    <2>1. dialog'.freed = dialog.freed BY <1>8, <1>d DEF SetMaxNumTokens, Dialog
    <2> QED BY <1>8, <2>1, ClosingInside DEF SetMaxNumTokens, engine, Holding, Window
  <1>9. CASE Arm(t)
    BY <1>9, ClosingInside DEF Arm, Holding, Window
  <1>10. CASE EnterQuery(t)
    <2>1. dialog'.freed = dialog.freed BY <1>10, <1>d DEF EnterQuery, Dialog
    <2> QED BY <1>10, <2>1, ClosingInside DEF EnterQuery, engine, Holding, Window
  <1>11. CASE Leave(t)
    BY <1>11, ClosingInside DEF Leave, Holding, Window
  <1>12. CASE HealthEnd(t)
    BY <1>12, ClosingInside DEF HealthEnd, Holding
  <1>13. CASE Recount(t)
    BY <1>13, ClosingInside DEF Recount, Holding
  <1>14. CASE Release(t)
    BY <1>14, ClosingInside DEF Release, Holding
  <1>15. CASE Report(t)
    <2>1. \A u \in Turn : pc'[u] = IF u = t THEN "done" ELSE pc[u]
      BY <1>15, Places, PCs DEF Report
    <2>2. "done" \notin Holding BY DEF Holding, Window
    <2> QED BY <1>15, <1>c, <2>1, <2>2, ClosingElsewhere DEF Report
  <1>16. CASE _cb(t)
    <2>1. dialog'.freed = dialog.freed BY <1>16, <1>d DEF _cb, Dialog
    <2> QED BY <1>16, <2>1, ClosingInside DEF _cb, Holding, Window
  <1>17. CASE QueryReturns(t)
    <2>1. dialog'.freed = dialog.freed BY <1>17, <1>d DEF QueryReturns, Dialog
    <2> QED BY <1>17, <2>1, ClosingInside DEF QueryReturns, engine, Holding, Window
  <1>18. CASE RecountReturns(t)
    BY <1>18, ClosingInside DEF RecountReturns, Holding
  <1>19. CASE Lost(t)
    <2>1. closed => signaller' = Nobody BY <1>19, AbortAfterClose DEF Lost
    <2> QED BY <1>19, <1>c, <2>1, ClosingElsewhere DEF Lost, untouched
  <1>20. CASE Close(t)
    <2>1. closed => signaller' = Nobody BY <1>20, AbortAfterClose DEF Close
    <2> QED BY <1>20, <1>c, <2>1, ClosingElsewhere DEF Close, untouched
  <1> QED
    BY <1>1, <1>2, <1>3, <1>4, <1>5, <1>6, <1>7, <1>8, <1>9, <1>10, <1>11,
       <1>12, <1>13, <1>14, <1>15, <1>16, <1>17, <1>18, <1>19, <1>20
    DEF Worker, Native, Prepare, Consumer

\* Every step of the main thread keeps Closing: it nulls under both locks.
LEMMA ClosingMain ==
  ASSUME TypeOK, Locking, Closing, MainStep PROVE Closing'
  <1>1. CASE begin_shutdown
    BY <1>1 DEF begin_shutdown, untouched, Closing, ClosedLast, NoCallOnFreed,
                AbortLockFree
  <1>2. CASE ShutdownAbort
    BY <1>2 DEF ShutdownAbort, untouched, Closing, ClosedLast, NoCallOnFreed,
                AbortLockFree
  <1>3. CASE CloseMark
    BY <1>3 DEF CloseMark, untouched, Closing, ClosedLast, NoCallOnFreed,
                AbortLockFree
  <1>4. CASE CloseAcquire
    BY <1>4 DEF CloseAcquire, quiet, client, Closing, ClosedLast, NoCallOnFreed,
                AbortLockFree
  <1>5. CASE CloseTimeout
    BY <1>5 DEF CloseTimeout, quiet, client, Closing, ClosedLast, NoCallOnFreed,
                AbortLockFree
  <1>6. CASE CloseNull
    <2>1. lock = Main BY <1>6 DEF CloseNull, Locking, MainHolds
    <2>2. \A u \in Turn : pc[u] \notin Holding
      BY <2>1, EngineAssumption DEF Locking, Holders
    <2> QED BY <1>6, <2>1, <2>2, EngineAssumption
      DEF CloseNull, quiet, client, Closing, ClosedLast, NoCallOnFreed, AbortLockFree
  <1>7. CASE CloseFree
    BY <1>7, EngineAssumption DEF CloseFree, quiet, client, Closing, ClosedLast,
                NoCallOnFreed, AbortLockFree, TypeOK, Dialog
  <1>8. CASE Exit
    BY <1>8 DEF Exit, quiet, client, Closing, ClosedLast, NoCallOnFreed,
                AbortLockFree
  <1> QED BY <1>1, <1>2, <1>3, <1>4, <1>5, <1>6, <1>7, <1>8 DEF MainStep

\* The signal, the tokenizer, the watchdog and the clock keep Closing.
LEMMA ClosingOthers ==
  ASSUME TypeOK, Closing, SignalReturns \/ count_tokens \/ CountReturns \/ Outside
  PROVE  Closing'
  <1>c. closed => /\ lock # Counter /\ signaller = Nobody
                  /\ \A u \in Turn : pc[u] \notin Holding \ {"refusing"}
    BY DEF Closing, NoCallOnFreed, AbortLockFree
  <1>1. CASE SignalReturns
    <2>1. dialog'.freed = dialog.freed BY <1>1 DEF SignalReturns, TypeOK, Dialog
    <2> QED BY <1>1, <1>c, <2>1, ClosingElsewhere DEF SignalReturns
  <1>2. CASE count_tokens
    BY <1>2, <1>c, ClosingElsewhere DEF count_tokens
  <1>3. CASE CountReturns
    BY <1>3, <1>c, ClosingElsewhere DEF CountReturns
  <1>4. CASE WatchdogAbort
    <2>1. closed => signaller' = Nobody BY <1>4, AbortAfterClose DEF WatchdogAbort
    <2> QED BY <1>4, <1>c, <2>1, ClosingElsewhere DEF WatchdogAbort, untouched
  <1>5. CASE NoteStall
    BY <1>5, <1>c, ClosingElsewhere DEF NoteStall, clockless
  <1>6. CASE Tick
    BY <1>6, <1>c, ClosingElsewhere DEF Tick, clockless
  <1> QED BY <1>1, <1>2, <1>3, <1>4, <1>5, <1>6 DEF Outside

\* Closing is inductive relative to the types and the locks.
LEMMA ClosingStep == TypeOK /\ Locking /\ Closing /\ [Next]_vars => Closing'
  <1> SUFFICES ASSUME TypeOK, Locking, Closing, [Next]_vars PROVE Closing'
    OBVIOUS
  <1>1. CASE UNCHANGED vars
    BY <1>1 DEF Closing, ClosedLast, NoCallOnFreed, AbortLockFree, vars
  <1>2. CASE Next
    BY <1>1, <1>2, ClosingTurn, ClosingMain, ClosingOthers DEF Next, Inside, Rest
  <1> QED BY <1>1, <1>2

\* No thread is in a native call of a dialog that close has nulled or freed,
\* and none starts one (close, the gates of _run_query, _abort, count_tokens).
THEOREM NoCallOnFreedHolds == Spec => []NoCallOnFreed
  <1>1. Spec => []Closing
    BY TypeInvariant, LockInvariant, ClosingInit, ClosingStep, PTL DEF Spec
  <1>2. Closing => NoCallOnFreed BY DEF Closing
  <1> QED BY <1>1, <1>2, PTL

-----------------------------------------------------------------------------
(***************************************************************************)
(* A turn's flags after it is done.                                        *)
(***************************************************************************)
DoneFlagsStay == \A t \in Turn : flags[t].done => flags'[t] = flags[t]

\* Only an unfinished turn's flags are ever changed.
LEMMA FlagsStep == TypeOK /\ Locking /\ [Next]_vars => DoneFlagsStay
  <1> SUFFICES ASSUME TypeOK, Locking, [Next]_vars PROVE DoneFlagsStay
    OBVIOUS
  <1>1. CASE UNCHANGED flags
    BY <1>1 DEF DoneFlagsStay
  <1>2. ASSUME NEW t \in Turn, Refuse(t) \/ Leave(t) PROVE DoneFlagsStay
    <2>1. flags' = [flags EXCEPT ![t].done = TRUE] BY <1>2 DEF Refuse, Leave
    <2>2. ~flags[t].done BY <1>2 DEF Refuse, Leave, Locking, Done, Gone
    <2> QED BY <2>1, <2>2, DoneTurn DEF DoneFlagsStay
  <1>3. ASSUME NEW t \in Turn, Lost(t) \/ Close(t) PROVE DoneFlagsStay
    BY <1>3, AbortSparesDone DEF Lost, Close, DoneFlagsStay
  <1>4. CASE ShutdownAbort \/ WatchdogAbort
    BY <1>4, AbortSparesDone DEF ShutdownAbort, WatchdogAbort, DoneFlagsStay
  <1>5. CASE begin_shutdown
    BY <1>5, MarkSparesDone DEF DoneFlagsStay
  <1>6. ASSUME NEW t \in Turn, Native(t) PROVE UNCHANGED flags
    BY <1>6 DEF Native, Prepare, Raise, set_stop_sequences, apply_sampler, _plan,
      SetMaxNumTokens, _cb, QueryReturns, RecountReturns, engine
  <1>7. ASSUME NEW t \in Turn, Admit(t) \/ Worker(t)
        PROVE UNCHANGED flags \/ Refuse(t) \/ Leave(t)
    BY <1>7 DEF Admit, Worker, GoLive, Arm, EnterQuery, HealthEnd, Recount,
      Release, Report, engine
  <1>8. CASE SignalReturns \/ count_tokens \/ CountReturns \/ NoteStall \/ Tick
    BY <1>1, <1>8 DEF SignalReturns, count_tokens, CountReturns, NoteStall, Tick,
      clockless
  <1>9. MainStep => begin_shutdown \/ ShutdownAbort \/ UNCHANGED flags
    BY DEF MainStep, CloseMark, CloseAcquire, CloseTimeout, CloseNull, CloseFree,
      Exit, untouched, quiet
  <1>10. UNCHANGED vars => UNCHANGED flags BY DEF vars
  <1> QED BY <1>1, <1>2, <1>3, <1>4, <1>5, <1>6, <1>7, <1>8, <1>9, <1>10
    DEF Next, Inside, Outside, Consumer, Rest

\* What a turn's `finally` read of its flags is what its consumer is told: an
\* abort, a mark or a verdict that comes after `done` changes nothing (_abort,
\* begin_shutdown: the code under `with self._abort_lock`).
THEOREM FlagsFinalHolds == Spec => FlagsFinal
  <1>1. TypeOK /\ Locking /\ [Next]_vars => [DoneFlagsStay]_vars
    BY FlagsStep
  <1>2. Spec => [][DoneFlagsStay]_vars
    BY <1>1, TypeInvariant, LockInvariant, PTL DEF Spec
  <1> QED BY <1>2 DEF FlagsFinal, DoneFlagsStay

-----------------------------------------------------------------------------
(***************************************************************************)
(* The two clocks of EngineHealth, and the engine lock.                    *)
(***************************************************************************)
\* Where a turn's generation clock runs, from its begin to its end.
Clocked == Window \cup {"admitted", "left"}

GenerationClock == health.started # Unset <=> \E t \in Turn : pc[t] \in Clocked
NativeClock ==
  health.native # Unset <=> lock = Counter \/ \E t \in Turn : pc[t] = "recounting"

Clocks == GenerationClock /\ NativeClock

\* Which clock each method starts and stops.
LEMMA ClockMethods ==
  ASSUME NEW h \in HealthType
  PROVE  /\ begin(h).started # Unset /\ begin(h).native = h.native
         /\ native_begin(h).native # Unset /\ native_begin(h).started = h.started
         /\ native_end(h).native = Unset /\ native_end(h).started = h.started
         /\ progress(h).started = h.started /\ progress(h).native = h.native
         /\ Elapse(h).started = Unset <=> h.started = Unset
         /\ Elapse(h).native = Unset <=> h.native = Unset
         /\ \A age \in Nat :
              /\ note_stall_signalled(h, age).started = h.started
              /\ note_stall_signalled(h, age).native = h.native
  BY AgeFacts, OlderType
  DEF HealthType, begin, native_begin, native_end, progress, Elapse, note_stall_signalled

\* `end`, on any outcome, stops the generation clock only.
LEMMA EndClocks ==
  ASSUME NEW h \in HealthType, NEW ok \in BOOLEAN, NEW counted \in BOOLEAN
  PROVE  end(h, ok, counted).started = Unset /\ end(h, ok, counted).native = h.native
  BY DEF HealthType, end

\* At the start neither clock runs.
LEMMA ClocksInit == Init => Clocks
  BY EngineAssumption
  DEF Init, Clocks, GenerationClock, NativeClock, HealthInit, Clocked, Window

\* A step that neither starts nor stops a clock, nor moves a turn to or from a
\* place where one runs.
LEMMA ClocksKept ==
  ASSUME Clocks,
         health'.started = Unset <=> health.started = Unset,
         health'.native = Unset <=> health.native = Unset,
         \A u \in Turn : /\ pc'[u] \in Clocked <=> pc[u] \in Clocked
                         /\ pc'[u] = "recounting" <=> pc[u] = "recounting",
         lock' = Counter <=> lock = Counter
  PROVE  Clocks'
  BY DEF Clocks, GenerationClock, NativeClock

\* A step of a turn that stays where its clock runs.
LEMMA ClocksInside ==
  ASSUME TypeOK, Clocks, NEW t \in Turn, NEW p \in Clocked, To(t, p),
         pc[t] \in Clocked, UNCHANGED <<health, lock>>
  PROVE  Clocks'
  <1>1. p \in PC /\ p # "recounting" /\ pc[t] # "recounting"
    BY PCs DEF Clocked, Holding, Window, PC
  <1>2. \A u \in Turn : pc'[u] = IF u = t THEN p ELSE pc[u]
    BY <1>1, Places
  <1> QED BY <1>1, <1>2, ClocksKept

\* So does one of a turn that stays where neither runs.
LEMMA ClocksOutside ==
  ASSUME TypeOK, Clocks, NEW t \in Turn, NEW p \in PC \ (Clocked \cup {"recounting"}),
         To(t, p), pc[t] \notin Clocked \cup {"recounting"},
         UNCHANGED health, lock' = Counter <=> lock = Counter
  PROVE  Clocks'
  <1>1. \A u \in Turn : pc'[u] = IF u = t THEN p ELSE pc[u]
    BY Places
  <1> QED BY <1>1, ClocksKept

\* Every step of a turn keeps the clocks and the lock together.
LEMMA ClocksTurn ==
  ASSUME TypeOK, Locking, Clocks, NEW t \in Turn,
         Admit(t) \/ Worker(t) \/ Native(t) \/ Consumer(t)
  PROVE  Clocks'
  <1>h. health \in HealthType BY DEF TypeOK
  <1>m. t # Nobody /\ t # Main /\ t # Counter /\ Nobody # Counter
    BY EngineAssumption
  <1>1. CASE Admit(t)
    <2>1. CASE closed \/ closing
      <3>1. To(t, "refusing") /\ health' = health BY <1>1, <2>1 DEF Admit, Begun
      <3>2. "refusing" \in PC \ (Clocked \cup {"recounting"})
        BY DEF PC, Holding, Clocked, Window
      <3> QED BY <1>1, <1>m, <3>1, <3>2, ClocksOutside DEF Admit, Clocked, Window
    <2>2. CASE ~(closed \/ closing)
      <3>1. To(t, "admitted") /\ health' = begin(health) BY <1>1, <2>2 DEF Admit, Begun
      <3>2. \A u \in Turn : pc'[u] = IF u = t THEN "admitted" ELSE pc[u]
        BY <3>1, Places DEF PC, Holding
      <3>3. GenerationClock' BY <1>h, <3>1, <3>2, ClockMethods
        DEF GenerationClock, Clocked
      <3>4. NativeClock' BY <1>1, <1>h, <1>m, <3>1, <3>2, ClockMethods
        DEF NativeClock, Clocks, Admit
      <3> QED BY <3>3, <3>4 DEF Clocks
    <2> QED BY <2>1, <2>2
  <1>2. CASE Refuse(t)
    <2>1. "done" \in PC \ (Clocked \cup {"recounting"}) BY DEF PC, Clocked, Window
    <2>2. lock # Counter
      BY <1>2, <1>m DEF Refuse, Locking, Holders, Holding
    <2> QED BY <1>2, <1>m, <2>1, <2>2, ClocksOutside DEF Refuse, Clocked, Window
  <1>3. CASE GoLive(t)
    BY <1>3, ClocksInside DEF GoLive, Clocked, Window
  <1>4. CASE Raise(t)
    BY <1>4, ClocksInside DEF Raise, engine, Clocked, Window
  <1>5. CASE set_stop_sequences(t)
    BY <1>5, ClocksInside DEF set_stop_sequences, engine, Clocked, Window
  <1>6. CASE apply_sampler(t)
    BY <1>6, ClocksInside DEF apply_sampler, engine, Clocked, Window
  <1>7. CASE _plan(t)
    BY <1>7, ClocksInside DEF _plan, engine, Clocked, Window
  <1>8. CASE SetMaxNumTokens(t)
    BY <1>8, ClocksInside DEF SetMaxNumTokens, engine, Clocked, Window
  <1>9. CASE Arm(t)
    <2>1. PICK p \in {"returned", "armed"} : To(t, p) BY <1>9 DEF Arm
    <2> QED BY <1>9, <2>1, ClocksInside DEF Arm, Clocked, Window
  <1>10. CASE EnterQuery(t)
    BY <1>10, ClocksInside DEF EnterQuery, engine, Clocked, Window
  <1>11. CASE Leave(t)
    BY <1>11, ClocksInside DEF Leave, Clocked, Window
  <1>12. CASE HealthEnd(t)
    <2>1. \A u \in Turn : pc'[u] = IF u = t THEN "ended" ELSE pc[u]
      BY <1>12, Places, PCs DEF HealthEnd, Holding
    <2>2. \A u \in Turn : pc[u] \in Holding => u = t
      BY <1>12 DEF HealthEnd, Locking, Holders, Holding
    <2>3. \A u \in Turn : pc'[u] \notin Clocked
      BY <2>1, <2>2 DEF Clocked, Holding, Window
    <2>4. Booked \in BOOLEAN /\ (~req[t].internal) \in BOOLEAN
      BY DEF Booked, TypeOK, Locals
    <2>5. health'.started = Unset /\ health'.native = health.native
      BY <1>12, <1>h, <2>4, EndClocks DEF HealthEnd
    <2>6. GenerationClock' BY <2>3, <2>5 DEF GenerationClock
    <2>7. NativeClock' BY <1>12, <2>1, <2>5 DEF NativeClock, Clocks, HealthEnd
    <2> QED BY <2>6, <2>7 DEF Clocks
  <1>13. CASE Recount(t)
    <2>1. \A u \in Turn : pc'[u] = IF u = t THEN "recounting" ELSE pc[u]
      BY <1>13, Places, PCs DEF Recount, Holding
    <2>2. health'.native # Unset /\ health'.started = health.started
      BY <1>13, <1>h, ClockMethods DEF Recount
    <2>3. GenerationClock' BY <1>13, <2>1, <2>2
      DEF GenerationClock, Clocks, Recount, Clocked, Window
    <2>4. NativeClock' BY <2>1, <2>2 DEF NativeClock
    <2> QED BY <2>3, <2>4 DEF Clocks
  <1>14. CASE Release(t)
    <2>1. pc[t] \in {"recounted", "ended"} BY <1>14 DEF Release
    <2>2. lock # Counter
      BY <1>m, <2>1 DEF Locking, Holders, Holding
    <2>3. "released" \in PC \ (Clocked \cup {"recounting"}) BY DEF PC, Clocked, Window
    <2> QED BY <1>14, <1>m, <2>1, <2>2, <2>3, ClocksOutside DEF Release, Clocked, Window
  <1>15. CASE Report(t)
    <2>1. "done" \in PC \ (Clocked \cup {"recounting"}) BY DEF PC, Clocked, Window
    <2> QED BY <1>15, <2>1, ClocksOutside DEF Report, Clocked, Window
  <1>16. CASE _cb(t)
    BY <1>16, <1>h, ClockMethods, ClocksKept DEF _cb
  <1>17. CASE QueryReturns(t)
    BY <1>17, ClocksInside DEF QueryReturns, engine, Clocked, Window
  <1>18. CASE RecountReturns(t)
    <2>1. \A u \in Turn : pc'[u] = IF u = t THEN "recounted" ELSE pc[u]
      BY <1>18, Places, PCs DEF RecountReturns, Holding
    <2>2. \A u \in Turn : pc[u] \in Holding => u = t
      BY <1>18 DEF RecountReturns, Locking, Holders, Holding
    <2>3. lock = t BY <1>18 DEF RecountReturns, Locking, Holders, Holding
    <2>4. health'.native = Unset /\ health'.started = health.started
      BY <1>18, <1>h, ClockMethods DEF RecountReturns
    <2>5. GenerationClock' BY <1>18, <2>1, <2>4
      DEF GenerationClock, Clocks, RecountReturns, Clocked, Window
    <2>6. \A u \in Turn : pc'[u] # "recounting" BY <2>1, <2>2 DEF Holding
    <2>7. NativeClock' BY <1>18, <1>m, <2>3, <2>4, <2>6
      DEF NativeClock, RecountReturns
    <2> QED BY <2>5, <2>7 DEF Clocks
  <1>19. CASE Lost(t) \/ Close(t)
    BY <1>19, ClocksKept DEF Lost, Close, untouched
  <1> QED
    BY <1>1, <1>2, <1>3, <1>4, <1>5, <1>6, <1>7, <1>8, <1>9, <1>10, <1>11,
       <1>12, <1>13, <1>14, <1>15, <1>16, <1>17, <1>18, <1>19
    DEF Worker, Native, Prepare, Consumer

\* Main never touches a clock, and the lock it takes is not count_tokens'.
LEMMA ClocksMain ==
  ASSUME TypeOK, Locking, Clocks, MainStep PROVE Clocks'
  <1>m. Main # Counter /\ Nobody # Counter BY EngineAssumption
  <1>1. CASE begin_shutdown \/ ShutdownAbort \/ CloseMark
    BY <1>1, ClocksKept DEF begin_shutdown, ShutdownAbort, CloseMark, untouched
  <1>2. CASE CloseTimeout \/ CloseNull \/ Exit
    BY <1>2, ClocksKept DEF CloseTimeout, CloseNull, Exit, quiet
  <1>3. CASE CloseAcquire
    BY <1>m, <1>3, ClocksKept DEF CloseAcquire, quiet
  <1>4. CASE CloseFree
    BY <1>m, <1>4, ClocksKept DEF CloseFree, quiet, Locking, MainHolds
  <1> QED BY <1>1, <1>2, <1>3, <1>4 DEF MainStep

\* The tokenizer starts and stops the native clock with the lock; the signal,
\* the watchdog and the time that passes start and stop neither.
LEMMA ClocksOthers ==
  ASSUME TypeOK, Locking, Clocks,
         SignalReturns \/ count_tokens \/ CountReturns \/ Outside
  PROVE  Clocks'
  <1>h. health \in HealthType BY DEF TypeOK
  <1>m. Nobody # Counter BY EngineAssumption
  <1>1. CASE SignalReturns
    BY <1>1, ClocksKept DEF SignalReturns
  <1>2. CASE count_tokens
    BY <1>h, <1>2, ClockMethods
    DEF count_tokens, Clocks, GenerationClock, NativeClock
  <1>3. CASE CountReturns
    <2>1. \A u \in Turn : pc[u] # "recounting"
      BY <1>3, EngineAssumption DEF CountReturns, Locking, Holders, Holding
    <2> QED BY <1>h, <1>m, <1>3, <2>1, ClockMethods
      DEF CountReturns, Clocks, GenerationClock, NativeClock
  <1>4. CASE WatchdogAbort
    BY <1>4, ClocksKept DEF WatchdogAbort, untouched
  <1>5. CASE NoteStall
    BY <1>h, <1>5, HealthAssumption, ClockMethods, ClocksKept DEF NoteStall, clockless
  <1>6. CASE Tick
    BY <1>h, <1>6, ClockMethods, ClocksKept DEF Tick, clockless
  <1> QED BY <1>1, <1>2, <1>3, <1>4, <1>5, <1>6 DEF Outside

\* Clocks is inductive relative to the types and the locks.
LEMMA ClocksStep == TypeOK /\ Locking /\ Clocks /\ [Next]_vars => Clocks'
  <1> SUFFICES ASSUME TypeOK, Locking, Clocks, [Next]_vars PROVE Clocks'
    OBVIOUS
  <1>1. CASE UNCHANGED vars
    BY <1>1, ClocksKept DEF vars
  <1>2. CASE Next
    BY <1>1, <1>2, ClocksTurn, ClocksMain, ClocksOthers DEF Next, Inside, Rest
  <1> QED BY <1>1, <1>2

\* The watchdog never judges a call that is not being made: the generation
\* clock runs exactly while a turn is between its begin and its end, the
\* native clock exactly while the tokenizer is called, and never both, since
\* each of them runs under the engine lock (EngineHealth.begin, end,
\* native_begin, native_end, where _run_query and count_tokens call them).
THEOREM ClocksFollowLockHolds == Spec => []ClocksFollowLock
  <1>1. Spec => []Clocks
    BY TypeInvariant, LockInvariant, ClocksInit, ClocksStep, PTL DEF Spec
  <1>2. Locking /\ Clocks => ClocksFollowLock
    <2> SUFFICES ASSUME Locking, Clocks PROVE ClocksFollowLock
      OBVIOUS
    <2>1. \A t \in Turn : pc[t] \in Clocked => lock = t /\ lock # Counter
      BY EngineAssumption DEF Locking, Holders, Clocked, Holding
    <2>2. \A t, u \in Turn : pc[t] \in Clocked /\ pc[u] = "recounting" => FALSE
      BY DEF Locking, Holders, Clocked, Holding, Window
    <2> QED BY <2>1, <2>2
      DEF Clocks, GenerationClock, NativeClock, ClocksFollowLock, Clocked
  <1> QED BY <1>1, <1>2, LockInvariant, PTL

-----------------------------------------------------------------------------
(***************************************************************************)
(* II.  Aborts.                                                            *)
(***************************************************************************)

-----------------------------------------------------------------------------
(***************************************************************************)
(* What one step does to the flags.                                        *)
(***************************************************************************)
\* An abort marks its target and nobody else, and takes _abort_lock along
\* only to signal the query of the live turn.
LEMMA AbortEffect ==
  ASSUME TypeOK, NEW by \in Turn \cup {Main, Watchdog}, NEW t \in Turn \cup {Nobody},
         NEW any \in BOOLEAN, NEW stalled \in BOOLEAN, _abort(by, t, any, stalled)
  PROVE  /\ \A u \in Turn :
              LET hit == Aborts(t, any) /\ u = Target(t, any) IN
              /\ flags'[u].aborted <=> flags[u].aborted \/ hit
              /\ flags'[u].stalled <=> flags[u].stalled \/ (hit /\ stalled)
              /\ flags'[u].shutdown <=> flags[u].shutdown
         /\ signaller = Nobody
         /\ signaller' # Nobody => Signals(t, any)
  <1>1. signaller = Nobody BY DEF _abort, AbortLockFree
  <1>2. signaller' # Nobody => Signals(t, any) BY DEF _abort
  <1>3. CASE Aborts(t, any)
    <2> DEFINE x == Target(t, any)
    <2>1. x \in Turn BY <1>3 DEF Aborts, Target, TypeOK
    <2>2. flags' = [flags EXCEPT ![x].aborted = TRUE, ![x].stalled = @ \/ stalled]
      BY <1>3 DEF _abort
    <2>3. flags \in [Turn -> TurnFlags] BY DEF TypeOK
    <2>4. \A u \in Turn : /\ flags'[u].aborted <=> flags[u].aborted \/ u = x
                          /\ flags'[u].stalled <=> flags[u].stalled \/ (u = x /\ stalled)
                          /\ flags'[u].shutdown <=> flags[u].shutdown
      <3> HIDE DEF x
      <3> QED BY <2>1, <2>2, <2>3 DEF TurnFlags
    <2> QED BY <1>1, <1>2, <1>3, <2>4
  <1>4. CASE ~Aborts(t, any)
    BY <1>1, <1>2, <1>4 DEF _abort
  <1> QED BY <1>3, <1>4

\* begin_shutdown's mark says nothing but "shutdown".
LEMMA MarkEffect ==
  ASSUME TypeOK, begin_shutdown
  PROVE  \A u \in Turn : /\ flags'[u].aborted = flags[u].aborted
                         /\ flags'[u].stalled = flags[u].stalled
  <1>f. flags \in [Turn -> TurnFlags] BY DEF TypeOK
  <1>1. CASE live # Nobody /\ ~flags[live].done
    <2>1. live \in Turn BY <1>1 DEF TypeOK
    <2>2. flags' = [flags EXCEPT ![live].shutdown = TRUE]
      BY <1>1 DEF begin_shutdown
    <2> QED BY <1>f, <2>1, <2>2 DEF TurnFlags
  <1>2. CASE ~(live # Nobody /\ ~flags[live].done)
    BY <1>2 DEF begin_shutdown
  <1> QED BY <1>1, <1>2

\* The steps that abort, mark, or set a turn's `done`; no other one touches
\* the flags.
FlagStep ==
  \/ \E t \in Turn : Refuse(t) \/ Leave(t) \/ Lost(t) \/ Close(t)
  \/ begin_shutdown \/ ShutdownAbort \/ WatchdogAbort

\* The other steps of the turns, of the tokenizer and of main leave them.
LEMMA FlagSteps == [Next]_vars => FlagStep \/ UNCHANGED flags
  <1> SUFFICES ASSUME [Next]_vars PROVE FlagStep \/ UNCHANGED flags
    OBVIOUS
  <1>1. ASSUME NEW t \in Turn, Admit(t) \/ Worker(t)
        PROVE UNCHANGED flags \/ Refuse(t) \/ Leave(t)
    BY <1>1 DEF Admit, Worker, GoLive, Arm, EnterQuery, HealthEnd, Recount,
      Release, Report, engine
  <1>2. ASSUME NEW t \in Turn, Native(t) PROVE UNCHANGED flags
    BY <1>2 DEF Native, Prepare, Raise, set_stop_sequences, apply_sampler, _plan,
      SetMaxNumTokens, _cb, QueryReturns, RecountReturns, engine
  <1>3. SignalReturns \/ count_tokens \/ CountReturns \/ NoteStall \/ Tick
        => UNCHANGED flags
    BY DEF SignalReturns, count_tokens, CountReturns, NoteStall, Tick, clockless
  <1>4. MainStep => begin_shutdown \/ ShutdownAbort \/ UNCHANGED flags
    BY DEF MainStep, CloseMark, CloseAcquire, CloseTimeout, CloseNull, CloseFree,
      Exit, untouched, quiet
  <1>5. UNCHANGED vars => UNCHANGED flags BY DEF vars
  <1> QED BY <1>1, <1>2, <1>3, <1>4, <1>5
    DEF Next, Inside, Outside, Consumer, Rest, FlagStep

\* A flag, once set, stays set.
LEMMA FlagsGrow ==
  ASSUME TypeOK, [Next]_vars
  PROVE  \A u \in Turn : /\ flags[u].aborted => flags'[u].aborted
                         /\ flags[u].stalled => flags'[u].stalled
  <1>1. ASSUME NEW t \in Turn, Refuse(t) \/ Leave(t)
        PROVE \A u \in Turn : /\ flags'[u].aborted = flags[u].aborted
                              /\ flags'[u].stalled = flags[u].stalled
    BY <1>1, DoneTurn DEF Refuse, Leave
  <1>2. ASSUME NEW t \in Turn, Lost(t) \/ Close(t)
        PROVE \A u \in Turn : /\ flags[u].aborted => flags'[u].aborted
                              /\ flags[u].stalled => flags'[u].stalled
    BY <1>2, AbortEffect DEF Lost, Close
  <1>3. CASE ShutdownAbort \/ WatchdogAbort
    BY <1>3, AbortEffect DEF ShutdownAbort, WatchdogAbort
  <1> QED BY <1>1, <1>2, <1>3, MarkEffect, FlagSteps DEF FlagStep

-----------------------------------------------------------------------------
(***************************************************************************)
(* Asking: who is behind an abort.                                         *)
(***************************************************************************)
Marked == main # "serving" => closing
Asked ==
  \A t \in Turn : flags[t].aborted =>
    consumer[t] # "reading" \/ flags[t].stalled \/ closing

Asking == Marked /\ Asked

\* A consumer that left does not come back, and shutdown is not called off.
LEMMA NoReturn ==
  ASSUME TypeOK, [Next]_vars
  PROVE  /\ closing => closing'
         /\ \A t \in Turn : consumer[t] # "reading" => consumer'[t] # "reading"
         /\ main' # main => closing' \/ main # "serving"
  <1>1. ASSUME NEW t \in Turn, Lost(t) \/ Close(t)
        PROVE  /\ UNCHANGED <<closing, main>>
               /\ \A u \in Turn : consumer[u] # "reading" => consumer'[u] # "reading"
    <2>1. UNCHANGED <<closing, main>> BY <1>1 DEF Lost, Close
    <2>2. PICK c \in {"lost", "left"} : consumer' = [consumer EXCEPT ![t] = c]
      BY <1>1 DEF Lost, Close
    <2>3. DOMAIN consumer = Turn BY DEF TypeOK
    <2> QED BY <2>1, <2>2, <2>3
  <1>2. ASSUME NEW t \in Turn, Admit(t) \/ Worker(t) \/ Native(t)
        PROVE  UNCHANGED <<closing, main, consumer>>
    BY <1>2 DEF Admit, Worker, Refuse, GoLive, Arm, EnterQuery, Leave, HealthEnd,
      Recount, Release, Report, Native, Prepare, Raise, set_stop_sequences,
      apply_sampler, _plan, SetMaxNumTokens, _cb, QueryReturns, RecountReturns,
      engine, client
  <1>3. SignalReturns \/ count_tokens \/ CountReturns \/ Outside
        => UNCHANGED <<closing, main, consumer>>
    BY DEF SignalReturns, count_tokens, CountReturns, Outside, WatchdogAbort,
      NoteStall, Tick, clockless, client
  <1>4. ASSUME MainStep
        PROVE  /\ UNCHANGED consumer /\ (closing => closing')
               /\ main' # main => closing' \/ main # "serving"
    <2>1. CASE begin_shutdown \/ CloseMark BY <2>1 DEF begin_shutdown, CloseMark
    <2>2. CASE ShutdownAbort BY <2>2 DEF ShutdownAbort
    <2>3. CASE CloseAcquire BY <2>3 DEF CloseAcquire, quiet, client
    <2>4. CASE CloseTimeout BY <2>4 DEF CloseTimeout, quiet, client
    <2>5. CASE CloseNull BY <2>5 DEF CloseNull, quiet, client
    <2>6. CASE CloseFree BY <2>6 DEF CloseFree, quiet, client
    <2>7. CASE Exit BY <2>7 DEF Exit, quiet, client
    <2> QED BY <1>4, <2>1, <2>2, <2>3, <2>4, <2>5, <2>6, <2>7 DEF MainStep
  <1>5. CASE UNCHANGED vars
    BY <1>5 DEF vars, client
  <1> QED BY <1>1, <1>2, <1>3, <1>4, <1>5 DEF Next, Inside, Consumer, Rest

\* At the start nobody has been aborted.
LEMMA AskingInit == Init => Asking
  BY DEF Init, Asking, Marked, Asked, NewTurn

\* Asking is inductive relative to the types.
LEMMA AskingStep == TypeOK /\ Asking /\ [Next]_vars => Asking'
  <1> SUFFICES ASSUME TypeOK, Asking, [Next]_vars PROVE Asking'
    OBVIOUS
  <1>1. Marked' BY NoReturn DEF Asking, Marked
  <1> SUFFICES Asked' BY <1>1 DEF Asking
  <1>k. ASSUME NEW u \in Turn, flags[u].aborted
        PROVE  consumer'[u] # "reading" \/ flags'[u].stalled \/ closing'
    BY <1>k, NoReturn, FlagsGrow DEF Asking, Asked
  <1>2. CASE \A u \in Turn : flags'[u].aborted => flags[u].aborted
    BY <1>2, <1>k DEF Asked
  <1>3. ASSUME NEW t \in Turn, Refuse(t) \/ Leave(t) PROVE Asked'
    <2>1. \A u \in Turn : flags'[u].aborted => flags[u].aborted
      BY <1>3, DoneTurn DEF Refuse, Leave
    <2> QED BY <1>2, <2>1
  <1>4. ASSUME NEW t \in Turn, Lost(t) \/ Close(t) PROVE Asked'
    <2>1. \A u \in Turn : flags'[u].aborted => flags[u].aborted \/ u = t
      BY <1>4, AbortEffect DEF Lost, Close, Target
    <2>2. consumer'[t] # "reading" BY <1>4 DEF Lost, Close, TypeOK
    <2> QED BY <1>k, <2>1, <2>2 DEF Asked
  <1>5. CASE WatchdogAbort
    <2>1. \A u \in Turn : flags'[u].aborted => flags[u].aborted \/ flags'[u].stalled
      BY <1>5, AbortEffect DEF WatchdogAbort
    <2> QED BY <1>k, <2>1 DEF Asked
  <1>6. CASE ShutdownAbort
    BY <1>6, <1>1 DEF ShutdownAbort, Marked, Asked
  <1>7. CASE begin_shutdown
    BY <1>7 DEF begin_shutdown, Asked
  <1> QED BY <1>1, <1>2, <1>3, <1>4, <1>5, <1>6, <1>7, FlagSteps
    DEF FlagStep

\* Every abort has a reason: a consumer that left, a stall, or a shutdown.
THEOREM AskingInvariant == Spec => []Asking
  BY TypeInvariant, AskingInit, AskingStep, PTL DEF Spec

-----------------------------------------------------------------------------
(***************************************************************************)
(* One at a time.  While a turn holds the engine, its own worker and the   *)
(* calls that waits for move what belongs to it, and nobody else does; the *)
(* one exception is the signal that lands in the dialog.                   *)
(***************************************************************************)
LEMMA Sole ==
  ASSUME TypeOK, Locking, [Next]_vars, NEW t \in Turn, pc[t] \in Holding
  PROVE  \/ Worker(t) \/ Native(t)
         \/ /\ UNCHANGED <<lock, live, querying, run, books>> /\ pc'[t] = pc[t]
            /\ UNCHANGED dialog \/ SignalReturns
  <1> DEFINE Still == /\ UNCHANGED <<lock, live, querying, run, books>>
                      /\ pc'[t] = pc[t]
                      /\ UNCHANGED dialog \/ SignalReturns
  <1>l. lock = t /\ t \notin {Nobody, Main, Counter}
    BY EngineAssumption DEF Locking, Holders
  <1>1. ASSUME NEW u \in Turn, u # t, Worker(u) \/ Native(u) PROVE Still
    <2>1. pc[u] \notin Holding BY <1>l, <1>1 DEF Locking, Holders
    <2>2. pc[u] \notin Window \cup {"refusing", "admitted", "left", "ended",
                                   "recounting", "recounted"}
      BY <2>1 DEF Holding
    <2>3. Report(u)
      BY <1>1, <2>2 DEF Worker, Native, Prepare, Refuse, GoLive, Arm, EnterQuery,
        Leave, HealthEnd, Recount, Release, Raise, set_stop_sequences,
        apply_sampler, _plan, SetMaxNumTokens, _cb, QueryReturns, RecountReturns,
        Window
    <2>4. pc'[t] = pc[t] BY <1>1, <2>3 DEF Report, To
    <2> QED BY <2>3, <2>4 DEF Report
  <1>2. ASSUME NEW u \in Turn, Admit(u) PROVE FALSE
    BY <1>l, <1>2 DEF Admit
  <1>3. ASSUME NEW u \in Turn, Consumer(u) PROVE Still
    BY <1>3 DEF Consumer, Lost, Close, untouched
  <1>4. CASE SignalReturns
    BY <1>4 DEF SignalReturns
  <1>5. ~count_tokens /\ ~CountReturns
    BY <1>l DEF count_tokens, CountReturns
  <1>6. Outside => Still
    BY DEF Outside, WatchdogAbort, NoteStall, Tick, untouched, clockless
  <1>7. CASE MainStep
    <2>1. ~CloseAcquire BY <1>l DEF CloseAcquire
    <2>2. ~CloseFree BY <1>l DEF CloseFree, Locking, MainHolds
    <2>3. begin_shutdown \/ ShutdownAbort \/ CloseMark => Still
      BY DEF begin_shutdown, ShutdownAbort, CloseMark, untouched
    <2>4. CloseTimeout \/ CloseNull \/ Exit => Still
      BY DEF CloseTimeout, CloseNull, Exit, quiet
    <2> QED BY <1>7, <2>1, <2>2, <2>3, <2>4 DEF MainStep
  <1>8. UNCHANGED vars => Still BY DEF vars
  <1> QED BY <1>1, <1>2, <1>3, <1>4, <1>5, <1>6, <1>7, <1>8
    DEF Next, Inside, Rest

\* The only way into the engine is through its lock.
LEMMA Entry ==
  ASSUME TypeOK, [Next]_vars, NEW t \in Turn, pc'[t] \in Holding
  PROVE  pc[t] \in Holding \/ Admit(t)
  <1>1. ASSUME NEW u \in Turn, u # t, Admit(u) \/ Worker(u) \/ Native(u)
        PROVE pc'[t] = pc[t]
    <2>1. UNCHANGED pc \/ \E p : To(u, p)
      BY <1>1 DEF Admit, Worker, Refuse, GoLive, Arm, EnterQuery, Leave, HealthEnd,
        Recount, Release, Report, Native, Prepare, Raise, set_stop_sequences,
        apply_sampler, _plan, SetMaxNumTokens, _cb, QueryReturns, RecountReturns
    <2>2. pc \in [Turn -> PC] BY DEF TypeOK
    <2> QED BY <1>1, <2>1, <2>2 DEF To
  <1>2. CASE Worker(t) \/ Native(t)
    <2>1. pc[t] \in Holding \/ Report(t)
      BY <1>2 DEF Worker, Refuse, GoLive, Arm, EnterQuery, Leave, HealthEnd,
        Recount, Release, Native, Prepare, Raise, set_stop_sequences,
        apply_sampler, _plan, SetMaxNumTokens, _cb, QueryReturns, RecountReturns,
        Holding, Window
    <2>2. Report(t) => pc'[t] = "done" BY PCs, Places DEF Report
    <2> QED BY <2>1, <2>2 DEF Holding, Window
  <1>3. ASSUME NEW u \in Turn, Consumer(u) PROVE pc' = pc
    BY <1>3 DEF Consumer, Lost, Close, untouched
  <1>4. SignalReturns \/ count_tokens \/ CountReturns \/ Outside => pc' = pc
    BY DEF SignalReturns, count_tokens, CountReturns, Outside, WatchdogAbort,
      NoteStall, Tick, untouched, clockless
  <1>5. CASE MainStep
    <2>1. begin_shutdown \/ ShutdownAbort \/ CloseMark => pc' = pc
      BY DEF begin_shutdown, ShutdownAbort, CloseMark, untouched
    <2>2. CloseAcquire \/ CloseTimeout \/ CloseNull \/ CloseFree \/ Exit => pc' = pc
      BY DEF CloseAcquire, CloseTimeout, CloseNull, CloseFree, Exit, quiet
    <2> QED BY <1>5, <2>1, <2>2 DEF MainStep
  <1>6. UNCHANGED vars => pc' = pc BY DEF vars
  <1> QED BY <1>1, <1>2, <1>3, <1>4, <1>5, <1>6 DEF Next, Inside, Rest

\* Where each step of a worker, or of a call it waits for, starts and ends.
Course(t) ==
  \/ Refuse(t) /\ pc[t] = "refusing" /\ pc'[t] = "done"
  \/ GoLive(t) /\ pc[t] = "admitted" /\ pc'[t] = "live"
  \/ set_stop_sequences(t) /\ pc[t] = "live" /\ pc'[t] = "stopSet"
  \/ apply_sampler(t) /\ pc[t] = "stopSet" /\ pc'[t] = "sampled"
  \/ _plan(t) /\ pc[t] = "sampled" /\ pc'[t] = "planned"
  \/ SetMaxNumTokens(t) /\ pc[t] = "planned" /\ pc'[t] = "capSet"
  \/ Arm(t) /\ Early(t) /\ pc[t] = "capSet" /\ pc'[t] = "returned"
  \/ Arm(t) /\ ~Early(t) /\ pc[t] = "capSet" /\ pc'[t] = "armed"
  \/ EnterQuery(t) /\ pc[t] = "armed" /\ pc'[t] = "querying"
  \/ _cb(t) /\ pc[t] = "querying" /\ pc'[t] = "querying"
  \/ QueryReturns(t) /\ pc[t] = "querying" /\ pc'[t] = "returned"
  \/ Raise(t) /\ pc[t] \in Window /\ pc'[t] = "returned"
  \/ Leave(t) /\ pc[t] = "returned" /\ pc'[t] = "left"
  \/ HealthEnd(t) /\ pc[t] = "left" /\ pc'[t] = "ended"
  \/ Recount(t) /\ pc[t] = "ended" /\ pc'[t] = "recounting"
  \/ RecountReturns(t) /\ pc[t] = "recounting" /\ pc'[t] = "recounted"
  \/ Release(t) /\ pc[t] \in {"ended", "recounted"} /\ pc'[t] = "released"
  \/ Report(t) /\ pc[t] = "released" /\ pc'[t] = "done"

\* Those are all a worker's steps.
LEMMA Courses ==
  ASSUME TypeOK, NEW t \in Turn, Worker(t) \/ Native(t)
  PROVE  Course(t)
  <1>p. PC = {"live", "stopSet", "sampled", "planned", "capSet", "armed",
              "querying", "returned", "refusing", "admitted", "left", "ended",
              "recounting", "recounted", "queued", "released", "done"}
    BY DEF PC, Holding, Window
  <1>t. ASSUME NEW p \in PC, To(t, p) PROVE pc'[t] = p
    BY <1>t, Places
  <1>1. CASE Worker(t)
    <2>1. Refuse(t) => Course(t) BY <1>p, <1>t DEF Refuse, Course
    <2>2. GoLive(t) => Course(t) BY <1>p, <1>t DEF GoLive, Course
    <2>3. Arm(t) => Course(t) BY <1>p, <1>t DEF Arm, Course
    <2>4. EnterQuery(t) => Course(t) BY <1>p, <1>t DEF EnterQuery, Course
    <2>5. Leave(t) => Course(t) BY <1>p, <1>t DEF Leave, Course
    <2>6. HealthEnd(t) => Course(t) BY <1>p, <1>t DEF HealthEnd, Course
    <2>7. Recount(t) => Course(t) BY <1>p, <1>t DEF Recount, Course
    <2>8. Release(t) => Course(t) BY <1>p, <1>t DEF Release, Course
    <2>9. Report(t) => Course(t) BY <1>p, <1>t DEF Report, Course
    <2> QED
      BY <1>1, <2>1, <2>2, <2>3, <2>4, <2>5, <2>6, <2>7, <2>8, <2>9 DEF Worker
  <1>2. CASE Native(t)
    <2>1. set_stop_sequences(t) => Course(t)
      BY <1>p, <1>t DEF set_stop_sequences, Course
    <2>2. apply_sampler(t) => Course(t) BY <1>p, <1>t DEF apply_sampler, Course
    <2>3. _plan(t) => Course(t) BY <1>p, <1>t DEF _plan, Course
    <2>4. SetMaxNumTokens(t) => Course(t)
      BY <1>p, <1>t DEF SetMaxNumTokens, Course
    <2>5. _cb(t) => Course(t) BY DEF _cb, Course
    <2>6. QueryReturns(t) => Course(t) BY <1>p, <1>t DEF QueryReturns, Course
    <2>7. RecountReturns(t) => Course(t) BY <1>p, <1>t DEF RecountReturns, Course
    <2>8. Raise(t) => Course(t) BY <1>p, <1>t DEF Raise, Course, Window
    <2> QED
      BY <1>2, <2>1, <2>2, <2>3, <2>4, <2>5, <2>6, <2>7, <2>8 DEF Native, Prepare
  <1> QED BY <1>1, <1>2

\* A turn in the engine got there by its own step, or has not moved; and then
\* only the signal has touched the dialog.
LEMMA Progress ==
  ASSUME TypeOK, Locking, [Next]_vars, NEW t \in Turn,
         pc'[t] \in Holding \ {"refusing", "admitted"}
  PROVE  /\ pc[t] \in Holding
         /\ \/ Course(t)
            \/ /\ UNCHANGED <<run, books>> /\ pc'[t] = pc[t]
               /\ dialog' = dialog \/ SignalReturns
  <1>1. Admit(t) => pc'[t] \in {"refusing", "admitted"}
    BY Places DEF Admit, PC, Holding
  <1>2. pc[t] \in Holding BY <1>1, Entry
  <1> QED BY <1>2, Sole, Courses

-----------------------------------------------------------------------------
(***************************************************************************)
(* What the worker read of its flags as it left its window.                *)
(***************************************************************************)
Out == {"left", "ended", "recounting", "recounted"}
ReadOnce ==
  \A t \in Turn : pc[t] \in Out =>
    /\ run.aborted = flags[t].aborted
    /\ run.stalled = flags[t].stalled

\* At the start nobody has left.
LEMMA ReadOnceInit == Init => ReadOnce
  BY DEF Init, ReadOnce, Out

\* A turn reads as it becomes done, and nothing changes what it read.
LEMMA ReadOnceStep == TypeOK /\ Locking /\ ReadOnce /\ [Next]_vars => ReadOnce'
  <1> SUFFICES ASSUME TypeOK, Locking, ReadOnce, [Next]_vars,
                      NEW t \in Turn, pc'[t] \in Out
               PROVE  /\ run'.aborted = flags'[t].aborted
                      /\ run'.stalled = flags'[t].stalled
    BY DEF ReadOnce
  <1>r. run \in Locals BY DEF TypeOK
  <1>1. Admit(t) => pc'[t] \notin Out
    BY ToType DEF TypeOK, Admit, Out, PC, Holding
  <1>2. pc[t] \in Holding
    BY <1>1, Entry DEF Out, Holding
  <1>k. ASSUME pc[t] \in Out PROVE flags'[t] = flags[t]
    BY <1>k, FlagsStep DEF Locking, Done, Out, Gone, DoneFlagsStay
  <1>3. CASE Leave(t)
    <2>1. run' = [run EXCEPT !.aborted = flags[t].aborted, !.stalled = flags[t].stalled]
      BY <1>3 DEF Leave
    <2>2. flags'[t].aborted = flags[t].aborted /\ flags'[t].stalled = flags[t].stalled
      BY <1>3, DoneTurn DEF Leave
    <2> QED BY <1>r, <2>1, <2>2 DEF Locals
  <1>4. CASE HealthEnd(t) \/ Recount(t) \/ RecountReturns(t)
    <2>1. pc[t] \in Out /\ run'.aborted = run.aborted /\ run'.stalled = run.stalled
      BY <1>r, <1>4 DEF HealthEnd, Recount, RecountReturns, Out, Locals
    <2> QED BY <1>k, <2>1 DEF ReadOnce
  <1>5. CASE (Worker(t) \/ Native(t)) /\ ~Leave(t) /\ ~HealthEnd(t)
             /\ ~Recount(t) /\ ~RecountReturns(t)
    <2>1. PICK p \in PC \ Out : To(t, p) \/ (_cb(t) /\ p = pc[t])
      BY <1>5, PCs DEF Worker, Refuse, GoLive, Arm, EnterQuery,
        Release, Report, Native, Prepare, Raise, set_stop_sequences,
        apply_sampler, _plan, SetMaxNumTokens, _cb, QueryReturns, Out, Window,
        Holding, PC
    <2>2. pc'[t] = p BY <2>1, ToType DEF TypeOK, _cb
    <2> QED BY <2>2
  <1>6. CASE UNCHANGED run /\ pc'[t] = pc[t]
    BY <1>k, <1>6 DEF ReadOnce
  <1> QED BY <1>2, <1>3, <1>4, <1>5, <1>6, Sole

\* Only `end` can take back a failure.
LEMMA FailuresKept ==
  ASSUME NEW h \in HealthType
  PROVE  /\ begin(h).failures = h.failures
         /\ native_begin(h).failures = h.failures
         /\ native_end(h).failures = h.failures
         /\ progress(h).failures = h.failures
         /\ Elapse(h).failures = h.failures
  BY DEF HealthType, begin, native_begin, native_end, progress, Elapse

\* Neither a note of the watchdog nor the end of a failure takes one back.
LEMMA StreakKept ==
  ASSUME NEW h \in HealthType
  PROVE  /\ \A age : note_stall_signalled(h, age).failures = h.failures
         /\ \A counted : ~(end(h, FALSE, counted).failures < h.failures)
  BY HealthAssumption DEF HealthType, note_stall_signalled, end

\* The steps that write the health record.
LEMMA HealthSteps ==
  ASSUME [Next]_vars
  PROVE  \/ UNCHANGED health
         \/ health' \in {begin(health), native_begin(health), native_end(health),
                         progress(health), Elapse(health)}
         \/ \E age \in 0 .. MaxAge : health' = note_stall_signalled(health, age)
         \/ \E t \in Turn : HealthEnd(t)
  <1>1. ASSUME NEW t \in Turn, Admit(t) \/ Worker(t)
        PROVE \/ UNCHANGED health \/ HealthEnd(t)
              \/ health' \in {begin(health), native_begin(health)}
    BY <1>1 DEF Admit, Begun, Worker, Refuse, GoLive, Arm, EnterQuery, Leave,
      Recount, Release, Report, engine
  <1>2. ASSUME NEW t \in Turn, Native(t)
        PROVE UNCHANGED health \/ health' \in {progress(health), native_end(health)}
    BY <1>2 DEF Native, Prepare, Raise, set_stop_sequences, apply_sampler, _plan,
      SetMaxNumTokens, _cb, QueryReturns, RecountReturns, engine
  <1>3. ASSUME NEW t \in Turn, Consumer(t) PROVE UNCHANGED health
    BY <1>3 DEF Consumer, Lost, Close, untouched
  <1>4. SignalReturns => UNCHANGED health BY DEF SignalReturns
  <1>5. count_tokens => health' = native_begin(health) BY DEF count_tokens
  <1>6. CountReturns => health' = native_end(health) BY DEF CountReturns
  <1>7. Outside => \/ UNCHANGED health \/ health' = Elapse(health)
                  \/ \E age \in 0 .. MaxAge : health' = note_stall_signalled(health, age)
    BY DEF Outside, WatchdogAbort, NoteStall, Tick, untouched
  <1>8. MainStep => UNCHANGED health
    BY DEF MainStep, begin_shutdown, ShutdownAbort, CloseMark, CloseAcquire,
      CloseTimeout, CloseNull, CloseFree, Exit, untouched, quiet
  <1>9. UNCHANGED vars => UNCHANGED health BY DEF vars
  <1> QED BY <1>1, <1>2, <1>3, <1>4, <1>5, <1>6, <1>7, <1>8, <1>9
    DEF Next, Inside, Rest

\* A generation the watchdog cut is booked as a failure, however it ended: no
\* step that takes the streak back is the end of a stalled turn (`ok` in
\* _run_query's call of EngineHealth.end).
THEOREM StallsAreFailuresHolds == Spec => StallsAreFailures
  <1> DEFINE Whole == health'.failures < health.failures =>
                        \E t \in Turn : pc[t] = "left" /\ ~flags[t].stalled
  <1>1. TypeOK /\ ReadOnce /\ [Next]_vars => Whole
    <2> SUFFICES ASSUME TypeOK, ReadOnce, [Next]_vars,
                        health'.failures < health.failures
                 PROVE  \E t \in Turn : pc[t] = "left" /\ ~flags[t].stalled
      OBVIOUS
    <2>h. health \in HealthType /\ health.failures \in Nat
      BY HealthAssumption DEF TypeOK, HealthType
    <2>a. ~(health.failures < health.failures) BY <2>h
    <2>b. health' # health BY <2>a
    <2>c. health' \notin {begin(health), native_begin(health), native_end(health),
                         progress(health), Elapse(health)}
      <3>1. /\ begin(health).failures = health.failures
            /\ native_begin(health).failures = health.failures
            /\ native_end(health).failures = health.failures
            /\ progress(health).failures = health.failures
            /\ Elapse(health).failures = health.failures
        BY <2>h, FailuresKept
      <3> QED BY <2>a, <3>1
    <2>d. ASSUME NEW age \in 0 .. MaxAge
          PROVE health' # note_stall_signalled(health, age)
      <3>1. note_stall_signalled(health, age).failures = health.failures
        BY <2>h, StreakKept
      <3> QED BY <2>a, <3>1
    <2>1. PICK t \in Turn : HealthEnd(t)
      BY <2>b, <2>c, <2>d, HealthSteps
    <2>2. Booked
      <3> SUFFICES ASSUME ~Booked PROVE FALSE
        OBVIOUS
      <3>1. Booked = FALSE BY DEF Booked
      <3>2. health' = end(health, FALSE, ~req[t].internal)
        BY <2>1, <3>1 DEF HealthEnd
      <3> QED BY <2>h, <3>2, StreakKept
    <2>3. pc[t] = "left" /\ ~run.stalled BY <2>1, <2>2 DEF HealthEnd, Booked
    <2> QED BY <2>3 DEF ReadOnce, Out
  <1>2. Spec => []ReadOnce
    BY TypeInvariant, LockInvariant, ReadOnceInit, ReadOnceStep, PTL DEF Spec
  <1>3. TypeOK /\ ReadOnce /\ [Next]_vars => [Whole]_vars
    BY <1>1
  <1>4. Spec => [][Whole]_vars
    BY <1>2, <1>3, TypeInvariant, PTL DEF Spec
  <1> QED BY <1>4 DEF StallsAreFailures

-----------------------------------------------------------------------------
(***************************************************************************)
(* Aimed: a signal in flight points at a turn that was aborted, and        *)
(* _querying and the dialog agree on where the worker is.                  *)
(***************************************************************************)
QueryInside == dialog.inside <=> \E t \in Turn : pc[t] = "querying"
Armed == \A t \in Turn : pc[t] \in {"armed", "querying"} => querying
InFlight ==
  signaller # Nobody => live # Nobody /\ querying /\ flags[live].aborted

Aimed == QueryInside /\ Armed /\ InFlight

\* What the steps of the query do to it; the others leave it as it is.
LEMMA QuerySteps ==
  ASSUME TypeOK, [Next]_vars
  PROVE  \/ \E t \in Turn : Raise(t) \/ EnterQuery(t) \/ QueryReturns(t)
         \/ SignalReturns
         \/ /\ dialog'.inside = dialog.inside
            /\ dialog'.cutting = dialog.cutting
            /\ dialog'.stray = dialog.stray
  <1> DEFINE Same == /\ dialog'.inside = dialog.inside
                     /\ dialog'.cutting = dialog.cutting
                     /\ dialog'.stray = dialog.stray
  <1>d. dialog \in Dialog BY DEF TypeOK
  <1>1. ASSUME NEW t \in Turn, Prepare(t) PROVE Same
    BY <1>d, <1>1 DEF Prepare, set_stop_sequences, apply_sampler, _plan,
      SetMaxNumTokens, Dialog
  <1>2. ASSUME NEW t \in Turn, _cb(t) \/ RecountReturns(t) PROVE Same
    BY <1>d, <1>2 DEF _cb, RecountReturns, Dialog
  <1>3. ASSUME NEW t \in Turn, Admit(t) \/ (Worker(t) /\ ~EnterQuery(t)) PROVE Same
    BY <1>3 DEF Admit, Worker, Refuse, GoLive, Arm, Leave, HealthEnd, Recount,
      Release, Report
  <1>4. ASSUME NEW t \in Turn, Consumer(t) PROVE Same
    BY <1>4 DEF Consumer, Lost, Close, untouched
  <1>5. count_tokens \/ CountReturns \/ Outside => Same
    BY DEF count_tokens, CountReturns, Outside, WatchdogAbort, NoteStall, Tick,
      untouched, clockless
  <1>6. CASE MainStep
    <2>1. begin_shutdown \/ ShutdownAbort \/ CloseMark => Same
      BY DEF begin_shutdown, ShutdownAbort, CloseMark, untouched
    <2>2. CloseFree => Same BY <1>d DEF CloseFree, Dialog
    <2>3. CloseAcquire \/ CloseTimeout \/ CloseNull \/ Exit => Same
      BY DEF CloseAcquire, CloseTimeout, CloseNull, Exit
    <2> QED BY <1>6, <2>1, <2>2, <2>3 DEF MainStep
  <1>7. UNCHANGED vars => Same BY DEF vars
  <1> QED BY <1>1, <1>2, <1>3, <1>4, <1>5, <1>6, <1>7
    DEF Next, Inside, Rest, Native

\* Into a query, and out of it.
LEMMA QueryPlaces ==
  ASSUME TypeOK, Locking, [Next]_vars, NEW t \in Turn
  PROVE  /\ pc[t] = "querying" =>
              pc'[t] = "querying" \/ Raise(t) \/ QueryReturns(t)
         /\ pc'[t] = "querying" => pc[t] = "querying" \/ EnterQuery(t)
         /\ pc'[t] = "armed" => pc[t] = "armed" \/ (Arm(t) /\ ~Early(t))
  <1>1. CASE pc[t] \in Holding
    <2>1. CASE Worker(t) \/ Native(t)
      <3> DEFINE Others == {"admitted", "refusing", "live", "stopSet", "sampled",
                            "planned", "capSet", "returned", "left", "ended",
                            "recounting", "recounted", "released", "done"}
      <3>1. CASE EnterQuery(t) BY <3>1 DEF EnterQuery
      <3>2. CASE _cb(t) BY <3>2 DEF _cb
      <3>3. CASE Raise(t) \/ QueryReturns(t)
        <4>1. pc'[t] = "returned"
          BY <3>3, PCs, Places DEF Raise, QueryReturns, Window
        <4> QED BY <3>3, <4>1
      <3>4. CASE Arm(t)
        <4>1. CASE Early(t)
          <5>1. pc'[t] = "returned" BY <3>4, <4>1, PCs, Places DEF Arm, Window
          <5> QED BY <3>4, <5>1 DEF Arm
        <4>2. CASE ~Early(t)
          <5>1. pc'[t] = "armed" BY <3>4, <4>2, PCs, Places DEF Arm, Window
          <5> QED BY <3>4, <4>2, <5>1 DEF Arm
        <4> QED BY <4>1, <4>2
      <3>5. CASE ~EnterQuery(t) /\ ~_cb(t) /\ ~Raise(t) /\ ~QueryReturns(t) /\ ~Arm(t)
        <4>1. /\ pc[t] \in Others
              /\ \E p \in Others : To(t, p)
          BY <2>1, <3>5 DEF Worker, Refuse, GoLive, Leave, HealthEnd, Recount,
            Release, Report, Native, Prepare, set_stop_sequences, apply_sampler,
            _plan, SetMaxNumTokens, RecountReturns
        <4>2. PICK p \in Others : To(t, p) BY <4>1
        <4>3. p \in PC BY DEF PC, Holding, Window
        <4>4. pc'[t] = p BY <4>2, <4>3, Places
        <4> QED BY <4>1, <4>4
      <3> QED BY <2>1, <3>1, <3>2, <3>3, <3>4, <3>5
    <2>2. CASE pc'[t] = pc[t]
      BY <2>2
    <2> QED BY <1>1, <2>1, <2>2, Sole
  <1>2. CASE pc[t] \notin Holding
    <2>1. pc'[t] \in Holding => Admit(t) BY <1>2, Entry
    <2>2. Admit(t) => pc'[t] \in {"refusing", "admitted"}
      BY Places DEF Admit, PC, Holding
    <2> QED BY <1>2, <2>1, <2>2 DEF Holding, Window
  <1> QED BY <1>1, <1>2

\* At most one turn is in its window, and an abort of any turn finds it.
LEMMA OneLive ==
  ASSUME Locking, NEW t \in Turn, pc[t] \in Window
  PROVE  live = t /\ \A u \in Turn : pc[u] \in Window => u = t
  BY DEF Locking, Live

\* At the start nothing is aimed at anybody.
LEMMA AimedInit == Init => Aimed
  BY DEF Init, Aimed, QueryInside, Armed, InFlight, NewDialog

\* Who takes _abort_lock along, and who gives it back.
LEMMA SignallerSteps ==
  ASSUME [Next]_vars
  PROVE  \/ UNCHANGED signaller
         \/ (\E t \in Turn : Lost(t) \/ Close(t)) \/ ShutdownAbort \/ WatchdogAbort
         \/ SignalReturns
  <1>1. ASSUME NEW t \in Turn, Admit(t) \/ Worker(t) PROVE UNCHANGED signaller
    BY <1>1 DEF Admit, Worker, Refuse, GoLive, Arm, EnterQuery, Leave, HealthEnd,
      Recount, Release, Report, engine
  <1>2. ASSUME NEW t \in Turn, Native(t) PROVE UNCHANGED signaller
    BY <1>2 DEF Native, Prepare, Raise, set_stop_sequences, apply_sampler, _plan,
      SetMaxNumTokens, _cb, QueryReturns, RecountReturns, engine
  <1>3. count_tokens \/ CountReturns \/ NoteStall \/ Tick => UNCHANGED signaller
    BY DEF count_tokens, CountReturns, NoteStall, Tick, clockless
  <1>4. MainStep => ShutdownAbort \/ UNCHANGED signaller
    BY DEF MainStep, begin_shutdown, CloseMark, CloseAcquire, CloseTimeout,
      CloseNull, CloseFree, Exit, quiet
  <1>5. UNCHANGED vars => UNCHANGED signaller BY DEF vars
  <1> QED BY <1>1, <1>2, <1>3, <1>4, <1>5 DEF Next, Inside, Outside, Consumer, Rest

\* Aimed is inductive relative to the types and the locks.
LEMMA AimedStep == TypeOK /\ Locking /\ Aimed /\ [Next]_vars => Aimed'
  <1> SUFFICES ASSUME TypeOK, Locking, Aimed, [Next]_vars PROVE Aimed'
    OBVIOUS
  <1>d. dialog \in Dialog BY DEF TypeOK
  <1>1. QueryInside'
    <2>1. ASSUME NEW t \in Turn, EnterQuery(t) PROVE QueryInside'
      <3>1. dialog'.inside BY <1>d, <2>1 DEF EnterQuery, Dialog
      <3>2. pc'[t] = "querying"
        BY <2>1, PCs, Places DEF EnterQuery, Window
      <3> QED BY <3>1, <3>2 DEF QueryInside
    <2>2. ASSUME NEW t \in Turn, Raise(t) \/ QueryReturns(t) PROVE QueryInside'
      <3>1. ~dialog'.inside BY <1>d, <2>2 DEF Raise, QueryReturns, Dialog
      <3>2. \A u \in Turn : pc'[u] = IF u = t THEN "returned" ELSE pc[u]
        BY <2>2, PCs, Places DEF Raise, QueryReturns, Window
      <3>3. pc[t] \in Window BY <2>2 DEF Raise, QueryReturns, Window
      <3>4. \A u \in Turn : pc'[u] # "querying"
        BY <3>2, <3>3, OneLive DEF Window
      <3> QED BY <3>1, <3>4 DEF QueryInside
    <2>3. CASE /\ \A t \in Turn : ~Raise(t) /\ ~EnterQuery(t) /\ ~QueryReturns(t)
               /\ dialog'.inside = dialog.inside
      BY <2>3, QueryPlaces DEF Aimed, QueryInside
    <2>4. SignalReturns =>
            /\ dialog'.inside = dialog.inside
            /\ UNCHANGED pc
      BY <1>d DEF SignalReturns, Dialog
    <2>5. CASE SignalReturns
      BY <2>4, <2>5 DEF Aimed, QueryInside
    <2> QED BY <2>1, <2>2, <2>3, <2>5, QuerySteps
  <1>2. Armed'
    <2> SUFFICES ASSUME NEW t \in Turn, pc'[t] \in {"armed", "querying"} PROVE querying'
      BY DEF Armed
    <2>1. CASE Arm(t) /\ ~Early(t) BY <2>1 DEF Arm
    <2>2. CASE EnterQuery(t) BY <2>2 DEF EnterQuery, engine, Aimed, Armed
    <2>3. CASE pc[t] \in {"armed", "querying"} /\ ~EnterQuery(t)
      <3>1. querying BY <2>3 DEF Aimed, Armed
      <3>2. pc[t] \in Holding BY <2>3 DEF Holding, Window
      <3>3. Worker(t) \/ Native(t) => UNCHANGED querying
        BY <2>3 DEF Worker, Refuse, GoLive, Arm, Leave, HealthEnd, Recount,
          Release, Report, Native, Prepare, set_stop_sequences, apply_sampler,
          _plan, SetMaxNumTokens, RecountReturns, Raise, QueryReturns, _cb, engine
      <3> QED BY <3>1, <3>2, <3>3, Sole
    <2> QED BY <2>1, <2>2, <2>3, QueryPlaces
  <1>3. InFlight'
    <2> SUFFICES ASSUME signaller' # Nobody
                 PROVE  live' # Nobody /\ querying' /\ flags'[live'].aborted
      BY DEF InFlight
    <2>1. CASE signaller # Nobody
      <3>1. live \in Turn /\ live # Nobody /\ querying /\ flags[live].aborted
        BY <2>1 DEF Aimed, InFlight, TypeOK
      <3>2. pc[live] \in Window BY <3>1 DEF Locking, Live
      <3>3. Worker(live) \/ Native(live) => UNCHANGED <<live, querying>>
        BY <2>1, <3>2 DEF Worker, Refuse, GoLive, Arm, Leave, HealthEnd, Recount,
          Release, Report, Native, Prepare, set_stop_sequences, apply_sampler,
          _plan, SetMaxNumTokens, RecountReturns, Raise, QueryReturns, _cb,
          EnterQuery, engine, AbortLockFree
      <3>4. UNCHANGED <<live, querying>> BY <3>1, <3>2, <3>3, PCs, Sole
      <3> QED BY <3>1, <3>4, FlagsGrow
    <2>2. CASE signaller = Nobody
      <3>1. ASSUME NEW by \in Turn \cup {Main, Watchdog}, NEW t \in Turn \cup {Nobody},
                   NEW any \in BOOLEAN, NEW stalled \in BOOLEAN,
                   _abort(by, t, any, stalled), UNCHANGED untouched
            PROVE  live' # Nobody /\ querying' /\ flags'[live'].aborted
        <4>1. Signals(t, any) BY <3>1, AbortEffect
        <4>2. /\ Aborts(t, any) /\ Target(t, any) = live /\ querying
              /\ live # Nobody
          BY <4>1 DEF Signals, Aborts
        <4>3. live \in Turn BY <4>2 DEF TypeOK
        <4>4. flags'[live].aborted BY <3>1, <4>2, <4>3, AbortEffect
        <4>5. UNCHANGED <<live, querying>> BY <3>1 DEF untouched
        <4> QED BY <4>2, <4>4, <4>5
      <3>2. ASSUME NEW t \in Turn, Lost(t) \/ Close(t)
            PROVE  live' # Nobody /\ querying' /\ flags'[live'].aborted
        BY <3>1, <3>2 DEF Lost, Close
      <3>3. CASE ShutdownAbort BY <3>1, <3>3 DEF ShutdownAbort
      <3>4. CASE WatchdogAbort BY <3>1, <3>4 DEF WatchdogAbort
      <3> QED BY <2>2, <3>2, <3>3, <3>4, SignallerSteps DEF SignalReturns
    <2> QED BY <2>1, <2>2
  <1> QED BY <1>1, <1>2, <1>3 DEF Aimed

\* A native ABORT in flight is aimed at a turn that was aborted and has not
\* left its window: the turn cannot, since leaving takes _abort_lock.
THEOREM AimInvariant == Spec => []Aimed
  BY TypeInvariant, LockInvariant, AimedInit, AimedStep, PTL DEF Spec

-----------------------------------------------------------------------------
(***************************************************************************)
(* Cutting: where the driver ignores an ABORT that reaches it outside a    *)
(* query, whatever was cut was aborted.  Where it does not, a signal that  *)
(* arrives as the query returns would cut the next turn's.                 *)
(***************************************************************************)
CutDialog ==
  /\ ~dialog.stray
  /\ dialog.cutting => \E t \in Turn : pc[t] = "querying" /\ flags[t].aborted
CutRun == \A t \in Turn : pc[t] \in Holding /\ run.cut => flags[t].aborted
CutAnswer == \A t \in Turn : answer[t].cut => flags[t].aborted

Cutting == CutDialog /\ CutRun /\ CutAnswer

\* At the start nothing is cut.
LEMMA CuttingInit == Init => Cutting
  BY DEF Init, Cutting, CutDialog, CutRun, CutAnswer, NewDialog, NoRun, NoAnswer

\* A query is cut by the signal that was aimed at its turn.
LEMMA CutDialogStep ==
  ASSUME ~SignalSticks, TypeOK, Locking, Aimed, Cutting, [Next]_vars
  PROVE  CutDialog'
  <1>d. dialog \in Dialog BY DEF TypeOK
  <1>1. ASSUME NEW t \in Turn, EnterQuery(t) PROVE CutDialog'
    <2>1. ~dialog'.stray /\ ~dialog'.cutting
      BY <1>d, <1>1 DEF EnterQuery, Dialog, Cutting, CutDialog
    <2> QED BY <2>1 DEF CutDialog
  <1>2. ASSUME NEW t \in Turn, Raise(t) \/ QueryReturns(t) PROVE CutDialog'
    <2>1. ~dialog'.stray /\ ~dialog'.cutting
      BY <1>d, <1>2 DEF Raise, QueryReturns, Dialog, Cutting, CutDialog
    <2> QED BY <2>1 DEF CutDialog
  <1>3. CASE SignalReturns
    <2>1. ~dialog'.stray /\ (dialog'.cutting => dialog.cutting \/ dialog.inside)
      BY <1>d, <1>3 DEF SignalReturns, Dialog, Cutting, CutDialog
    <2>2. UNCHANGED <<pc, flags>> BY <1>3 DEF SignalReturns
    <2>3. ASSUME NEW t \in Turn, pc[t] = "querying" PROVE flags[t].aborted
      <3>1. live = t BY <2>3, OneLive DEF Window
      <3> QED BY <1>3, <3>1 DEF SignalReturns, Aimed, InFlight
    <2> QED BY <2>1, <2>2, <2>3 DEF CutDialog, Cutting, Aimed, QueryInside
  <1>4. CASE /\ \A t \in Turn : ~Raise(t) /\ ~QueryReturns(t)
             /\ dialog'.cutting = dialog.cutting
             /\ dialog'.stray = dialog.stray
    <2>1. \A t \in Turn : pc[t] = "querying" => pc'[t] = "querying"
      BY <1>4, QueryPlaces
    <2> QED BY <1>4, <2>1, FlagsGrow DEF CutDialog, Cutting
  <1> QED BY <1>1, <1>2, <1>3, <1>4, QuerySteps

\* A worker learns of a cut from its flag or from the query it waits for.
LEMMA CutRunStep ==
  ASSUME TypeOK, Locking, Cutting, [Next]_vars
  PROVE  CutRun'
  <1> SUFFICES ASSUME NEW t \in Turn, pc'[t] \in Holding, run'.cut
               PROVE  flags'[t].aborted
    BY DEF CutRun
  <1>r. run \in Locals BY DEF TypeOK
  <1>1. ~Admit(t) BY DEF Admit, NoRun
  <1>2. pc[t] \in Holding BY <1>1, Entry
  <1>3. run.cut => flags[t].aborted BY <1>2 DEF Cutting, CutRun
  <1>4. CASE Arm(t)
    <2>1. run'.cut => run.cut \/ Early(t) BY <1>r, <1>4 DEF Arm, Locals
    <2> QED BY <1>3, <2>1, FlagsGrow DEF Early
  <1>5. CASE QueryReturns(t)
    <2>1. dialog.cutting BY <1>r, <1>5 DEF QueryReturns, Locals
    <2>2. PICK u \in Turn : pc[u] = "querying" /\ flags[u].aborted
      BY <2>1 DEF Cutting, CutDialog
    <2>3. u = t BY <1>5, <2>2, OneLive DEF QueryReturns, Window
    <2> QED BY <2>2, <2>3, FlagsGrow
  <1>6. CASE Release(t) BY <1>6 DEF Release, NoRun
  <1>7. CASE (Worker(t) \/ Native(t)) /\ ~Arm(t) /\ ~QueryReturns(t) /\ ~Release(t)
    <2>1. run'.cut = run.cut
      BY <1>r, <1>7 DEF Worker, Refuse, GoLive, EnterQuery, Leave, HealthEnd, Recount,
        Report, Native, Prepare, set_stop_sequences, apply_sampler, _plan,
        SetMaxNumTokens, RecountReturns, Raise, _cb, Locals
    <2> QED BY <1>3, <2>1, FlagsGrow
  <1>8. CASE UNCHANGED run
    BY <1>3, <1>8, FlagsGrow
  <1> QED BY <1>2, <1>4, <1>5, <1>6, <1>7, <1>8, Sole

\* The steps that tell a consumer something.
LEMMA AnswerSteps ==
  ASSUME [Next]_vars
  PROVE  UNCHANGED answer \/ \E t \in Turn : Refuse(t) \/ Release(t) \/ Report(t)
  <1>1. ASSUME NEW t \in Turn, Admit(t) \/ Worker(t)
        PROVE UNCHANGED answer \/ Refuse(t) \/ Release(t) \/ Report(t)
    BY <1>1 DEF Admit, Worker, GoLive, Arm, EnterQuery, Leave, HealthEnd, Recount,
      engine, client
  <1>2. ASSUME NEW t \in Turn, Native(t) \/ Consumer(t) PROVE UNCHANGED answer
    BY <1>2 DEF Native, Prepare, Raise, set_stop_sequences, apply_sampler, _plan,
      SetMaxNumTokens, _cb, QueryReturns, RecountReturns, engine, client,
      Consumer, Lost, Close, untouched
  <1>3. SignalReturns \/ count_tokens \/ CountReturns \/ Outside => UNCHANGED answer
    BY DEF SignalReturns, count_tokens, CountReturns, Outside, WatchdogAbort,
      NoteStall, Tick, untouched, clockless, client
  <1>4. MainStep => UNCHANGED answer
    BY DEF MainStep, begin_shutdown, ShutdownAbort, CloseMark, CloseAcquire,
      CloseTimeout, CloseNull, CloseFree, Exit, untouched, quiet, client
  <1>5. UNCHANGED vars => UNCHANGED answer BY DEF vars, client
  <1> QED BY <1>1, <1>2, <1>3, <1>4, <1>5 DEF Next, Inside, Rest

\* What is handed over as cut is what the worker took for cut.
LEMMA CutAnswerStep ==
  ASSUME TypeOK, Locking, Cutting, [Next]_vars
  PROVE  CutAnswer'
  <1>a. answer \in [Turn -> Answer] BY DEF TypeOK
  <1>k. ASSUME \A u \in Turn : answer'[u].cut => answer[u].cut PROVE CutAnswer'
    BY <1>k, FlagsGrow DEF Cutting, CutAnswer
  <1>1. ASSUME NEW t \in Turn, Refuse(t) \/ Report(t) PROVE CutAnswer'
    <2>1. \A u \in Turn : answer'[u].cut = answer[u].cut
      BY <1>a, <1>1 DEF Refuse, Report, Answer
    <2> QED BY <1>k, <2>1
  <1>2. ASSUME NEW t \in Turn, Release(t) PROVE CutAnswer'
    <2>1. \A u \in Turn \ {t} : answer'[u].cut = answer[u].cut
      BY <1>a, <1>2 DEF Release, Answer
    <2>2. answer'[t].cut = run.cut
      BY <1>a, <1>2 DEF Release, Answer
    <2>3. run.cut => flags[t].aborted
      BY <1>2 DEF Release, Cutting, CutRun, Holding
    <2> QED BY <2>1, <2>2, <2>3, FlagsGrow DEF Cutting, CutAnswer
  <1> QED BY <1>k, <1>1, <1>2, AnswerSteps

\* Where an ABORT outside a query does nothing, a turn is cut only when it was
\* itself aborted: the signal cannot outlive the window it was sent into.
THEOREM CuttingInvariant ==
  ASSUME ~SignalSticks PROVE Spec => []Cutting
  <1>1. TypeOK /\ Locking /\ Aimed /\ Cutting /\ [Next]_vars => Cutting'
    BY CutDialogStep, CutRunStep, CutAnswerStep DEF Cutting
  <1>2. Cutting /\ UNCHANGED vars => Cutting'
    BY DEF Cutting, CutDialog, CutRun, CutAnswer, vars, client
  <1> QED
    BY <1>1, CuttingInit, TypeInvariant, LockInvariant, AimInvariant, PTL DEF Spec

\* An abort never lands on another request's generation, where the driver
\* ignores one outside a query: a turn is cut when its own consumer has left,
\* when the watchdog found it stalled, or when the process is being shut down
\* (_Turn, and the re-check of `live` and _querying in _abort).
THEOREM OnlyAskedTurnsAreCutHolds ==
  ASSUME ~SignalSticks PROVE Spec => []OnlyAskedTurnsAreCut
  <1>1. Cutting /\ Asking => OnlyAskedTurnsAreCut
    BY DEF Cutting, CutAnswer, Asking, Asked, OnlyAskedTurnsAreCut
  <1> QED BY <1>1, CuttingInvariant, AskingInvariant, PTL

-----------------------------------------------------------------------------
(***************************************************************************)
(* What the consumer of an aborted turn is told.                           *)
(***************************************************************************)
\* Only a finished worker has told its consumer how its turn went.
ToldLast == \A t \in Turn : answer[t].kind # "none" => pc[t] = "done"

\* "done" is never said of an aborted turn that is the server's own, or that
\* the server had a reason to stop.
DoneIsMeant ==
  \A t \in Turn : answer[t].kind = "done" /\ flags[t].aborted =>
    ~req[t].internal /\ ~flags[t].shutdown /\ ~flags[t].stalled

Telling == ToldLast /\ DoneIsMeant

\* At the start nobody has been told anything.
LEMMA TellingInit == Init => Telling
  BY DEF Init, Telling, ToldLast, DoneIsMeant, NoAnswer

\* Nobody's request changes.
LEMMA RequestsStay == [Next]_vars => UNCHANGED req
  <1> SUFFICES ASSUME [Next]_vars PROVE UNCHANGED req
    OBVIOUS
  <1>1. ASSUME NEW t \in Turn, Admit(t) \/ Worker(t) PROVE UNCHANGED req
    BY <1>1 DEF Admit, Worker, Refuse, GoLive, Arm, EnterQuery, Leave, HealthEnd,
      Recount, Release, Report, engine, client
  <1>2. ASSUME NEW t \in Turn, Native(t) \/ Consumer(t) PROVE UNCHANGED req
    BY <1>2 DEF Native, Prepare, Raise, set_stop_sequences, apply_sampler, _plan,
      SetMaxNumTokens, _cb, QueryReturns, RecountReturns, engine, client,
      Consumer, Lost, Close, untouched
  <1>3. SignalReturns \/ count_tokens \/ CountReturns \/ Outside => UNCHANGED req
    BY DEF SignalReturns, count_tokens, CountReturns, Outside, WatchdogAbort,
      NoteStall, Tick, untouched, clockless, client
  <1>4. MainStep => UNCHANGED req
    BY DEF MainStep, begin_shutdown, ShutdownAbort, CloseMark, CloseAcquire,
      CloseTimeout, CloseNull, CloseFree, Exit, untouched, quiet, client
  <1>5. UNCHANGED vars => UNCHANGED req BY DEF vars, client
  <1> QED BY <1>1, <1>2, <1>3, <1>4, <1>5 DEF Next, Inside, Rest

\* A turn that is done stays where it is.
LEMMA DoneStays ==
  ASSUME TypeOK, Locking, [Next]_vars, NEW t \in Turn, pc[t] = "done"
  PROVE  pc'[t] = "done"
  <1>1. ASSUME NEW u \in Turn, Admit(u) \/ Worker(u) \/ Native(u)
        PROVE pc'[t] = pc[t]
    <2>1. u # t
      BY <1>1 DEF Admit, Worker, Refuse, GoLive, Arm, EnterQuery, Leave, HealthEnd,
        Recount, Release, Report, Native, Prepare, Raise, set_stop_sequences,
        apply_sampler, _plan, SetMaxNumTokens, _cb, QueryReturns, RecountReturns
    <2>2. UNCHANGED pc \/ \E p : To(u, p)
      BY <1>1 DEF Admit, Worker, Refuse, GoLive, Arm, EnterQuery, Leave, HealthEnd,
        Recount, Release, Report, Native, Prepare, Raise, set_stop_sequences,
        apply_sampler, _plan, SetMaxNumTokens, _cb, QueryReturns, RecountReturns
    <2>3. pc \in [Turn -> PC] BY DEF TypeOK
    <2> QED BY <2>1, <2>2, <2>3 DEF To
  <1>2. ASSUME NEW u \in Turn, Consumer(u) PROVE UNCHANGED pc
    BY <1>2 DEF Consumer, Lost, Close, untouched
  <1>3. SignalReturns \/ count_tokens \/ CountReturns \/ Outside => UNCHANGED pc
    BY DEF SignalReturns, count_tokens, CountReturns, Outside, WatchdogAbort,
      NoteStall, Tick, untouched, clockless
  <1>4. CASE MainStep
    <2>1. begin_shutdown \/ ShutdownAbort \/ CloseMark => UNCHANGED pc
      BY DEF begin_shutdown, ShutdownAbort, CloseMark, untouched
    <2>2. CloseAcquire \/ CloseTimeout \/ CloseNull \/ CloseFree \/ Exit
          => UNCHANGED pc
      BY DEF CloseAcquire, CloseTimeout, CloseNull, CloseFree, Exit, quiet
    <2> QED BY <1>4, <2>1, <2>2 DEF MainStep
  <1>5. UNCHANGED vars => UNCHANGED pc BY DEF vars
  <1> QED BY <1>1, <1>2, <1>3, <1>4, <1>5 DEF Next, Inside, Rest

\* A turn is told once, from flags that are final.
LEMMA TellingStep == TypeOK /\ Locking /\ Telling /\ [Next]_vars => Telling'
  <1> SUFFICES ASSUME TypeOK, Locking, Telling, [Next]_vars,
                      NEW t \in Turn, answer'[t].kind # "none"
               PROVE  /\ pc'[t] = "done"
                      /\ answer'[t].kind = "done" /\ flags'[t].aborted =>
                           ~req'[t].internal /\ ~flags'[t].shutdown /\ ~flags'[t].stalled
    BY DEF Telling, ToldLast, DoneIsMeant
  <1>a. answer \in [Turn -> Answer] BY DEF TypeOK
  <1>1. CASE Refuse(t)
    <2>1. answer'[t].kind = "closing" BY <1>a, <1>1 DEF Refuse, Answer
    <2>2. pc'[t] = "done" BY <1>1, PCs, Places DEF Refuse
    <2> QED BY <2>1, <2>2
  <1>2. CASE Report(t)
    <2>1. answer'[t].kind = Kind(t) BY <1>a, <1>2 DEF Report, Answer
    <2>2. pc'[t] = "done" BY <1>2, PCs, Places DEF Report
    <2>3. UNCHANGED <<flags, req>> BY <1>2 DEF Report
    <2> QED BY <2>1, <2>2, <2>3 DEF Kind
  <1>3. CASE answer'[t].kind = answer[t].kind
    <2>1. pc[t] = "done" BY <1>3 DEF Telling, ToldLast
    <2>2. flags'[t] = flags[t]
      BY <2>1, FlagsStep DEF Locking, Done, Gone, DoneFlagsStay
    <2> QED BY <1>3, <2>1, <2>2, DoneStays, RequestsStay DEF Telling, DoneIsMeant
  <1>4. ASSUME NEW u \in Turn, Release(u) PROVE answer'[t].kind = answer[t].kind
    BY <1>a, <1>4 DEF Release, Answer
  <1>5. ASSUME NEW u \in Turn, u # t, Refuse(u) \/ Report(u)
        PROVE answer'[t].kind = answer[t].kind
    BY <1>a, <1>5 DEF Refuse, Report, Answer
  <1> QED BY <1>1, <1>2, <1>3, <1>4, <1>5, AnswerSteps

\* What a consumer is told is told once, by a worker that has finished.
THEOREM TellingInvariant == Spec => []Telling
  BY TypeInvariant, LockInvariant, TellingInit, TellingStep, PTL DEF Spec

\* A client that stayed is never handed a fragment as a finished answer, where
\* the driver ignores an ABORT outside a query (query_stream's worker, which
\* tells a cut turn apart by `shutdown` and `stalled`).
THEOREM WholeAnswersHold ==
  ASSUME ~SignalSticks PROVE Spec => []WholeAnswers
  <1>1. Cutting /\ Asking /\ Telling => WholeAnswers
    BY DEF Cutting, CutAnswer, Asking, Asked, Telling, DoneIsMeant, WholeAnswers
  <1> QED BY <1>1, CuttingInvariant, AskingInvariant, TellingInvariant, PTL

-----------------------------------------------------------------------------
(***************************************************************************)
(* Reached: where an early ABORT sticks, one that was sent is not lost.    *)
(***************************************************************************)
Reached ==
  \A t \in Turn : flags[t].aborted /\ signaller = Nobody =>
    /\ pc[t] = "armed" => dialog.stray
    /\ pc[t] = "querying" => dialog.cutting

\* At the start no turn is near a query.
LEMMA ReachedInit == Init => Reached
  BY DEF Init, Reached

\* An abort of a turn that was aborted before sends no second signal, and need
\* not: the first has landed.
LEMMA ReachedStep ==
  ASSUME SignalSticks, TypeOK, Locking, Aimed, Reached, [Next]_vars
  PROVE  Reached'
  <1> SUFFICES ASSUME NEW t \in Turn, flags'[t].aborted, signaller' = Nobody,
                      pc'[t] \in {"armed", "querying"}
               PROVE  /\ pc'[t] = "armed" => dialog'.stray
                      /\ pc'[t] = "querying" => dialog'.cutting
    BY DEF Reached
  <1>d. dialog \in Dialog BY DEF TypeOK
  <1>1. CASE Arm(t) /\ ~Early(t)
    BY <1>1 DEF Arm, Early
  <1>2. CASE EnterQuery(t)
    <2>1. pc'[t] = "querying" BY <1>2, PCs, Places DEF EnterQuery, Window
    <2>2. dialog.stray BY <1>2 DEF EnterQuery, engine, Reached
    <2>3. dialog'.cutting = dialog.stray BY <1>d, <1>2 DEF EnterQuery, Dialog
    <2> QED BY <2>1, <2>2, <2>3
  <1>3. CASE SignalReturns
    <2>1. UNCHANGED pc BY <1>3 DEF SignalReturns
    <2>2. dialog' = [dialog EXCEPT !.cutting = dialog.cutting \/ dialog.inside,
                                   !.stray = dialog.stray \/ ~dialog.inside]
      BY <1>d, <1>3 DEF SignalReturns, Dialog
    <2>4. /\ dialog'.cutting <=> dialog.cutting \/ dialog.inside
          /\ dialog'.stray <=> dialog.stray \/ ~dialog.inside
      BY <1>d, <2>2 DEF Dialog
    <2>3. dialog.inside <=> pc[t] = "querying"
      <3>1. pc[t] \in Window BY <2>1 DEF Window
      <3> QED BY <2>1, <3>1, OneLive DEF Aimed, QueryInside, Window
    <2> QED BY <2>1, <2>3, <2>4
  <1>4. CASE /\ pc'[t] = pc[t]
             /\ dialog'.cutting = dialog.cutting
             /\ dialog'.stray = dialog.stray
             /\ ~SignalReturns
    <2>w. pc[t] \in Window /\ querying BY <1>4 DEF Window, Aimed, Armed
    <2>l. live = t /\ ~flags[t].done
      BY <2>w, OneLive DEF Locking, Done, Gone, Window
    <2>1. CASE flags[t].aborted /\ signaller = Nobody
      BY <1>4, <2>1 DEF Reached
    <2>2. CASE ~flags[t].aborted \/ signaller # Nobody
      <3>1. ASSUME NEW by \in Turn \cup {Main, Watchdog}, NEW x \in Turn \cup {Nobody},
                   NEW any \in BOOLEAN, NEW stalled \in BOOLEAN,
                   _abort(by, x, any, stalled)
            PROVE  FALSE
        <4>1. signaller = Nobody BY <3>1, AbortEffect
        <4>2. ~flags[t].aborted BY <2>2, <4>1
        <4>a. flags'[t].aborted
                <=> flags[t].aborted \/ (Aborts(x, any) /\ t = Target(x, any))
          BY <3>1, AbortEffect
        <4>3. Aborts(x, any) /\ t = Target(x, any) BY <4>2, <4>a
        <4>4. Signals(x, any) BY <2>w, <2>l, <4>3 DEF Signals
        <4>5. signaller' = by BY <3>1, <4>2, <4>3, <4>4 DEF _abort
        <4> QED BY <4>5, EngineAssumption
      <3>2. ASSUME NEW u \in Turn, Lost(u) \/ Close(u) PROVE FALSE
        BY <3>1, <3>2 DEF Lost, Close
      <3>3. ~ShutdownAbort /\ ~WatchdogAbort
        BY <3>1 DEF ShutdownAbort, WatchdogAbort
      <3>4. UNCHANGED signaller BY <1>4, <3>2, <3>3, SignallerSteps
      <3>5. flags'[t].aborted => flags[t].aborted
        BY <3>2, <3>3, FlagSteps, MarkEffect, DoneTurn DEF FlagStep, Refuse, Leave
      <3> QED BY <2>2, <3>4, <3>5
    <2> QED BY <2>1, <2>2
  <1>5. ASSUME NEW u \in Turn, Raise(u) \/ QueryReturns(u) \/ (EnterQuery(u) /\ u # t)
        PROVE  FALSE
    <2>1. pc[u] \in Window BY <1>5 DEF Raise, QueryReturns, EnterQuery, Window
    <2>2. pc[t] \in {"armed", "querying"} \/ Arm(t) \/ EnterQuery(t) BY QueryPlaces
    <2>3. pc[t] \in Window BY <2>2 DEF Arm, EnterQuery, Window
    <2>4. u = t BY <2>1, <2>3, OneLive
    <2>5. pc'[u] = "returned" BY <1>5, <2>4, PCs, Places DEF Raise, QueryReturns, Window
    <2> QED BY <2>4, <2>5
  <1> QED BY <1>1, <1>2, <1>3, <1>4, <1>5, QuerySteps, QueryPlaces

\* An abort reaches the query it is aimed at, where an early ABORT sticks: a
\* query that runs for an aborted turn with no signal on its way has had one.
THEOREM AbortReachesQueryHolds ==
  ASSUME SignalSticks PROVE Spec => []AbortReachesQuery
  <1>1. TypeOK /\ Locking /\ Aimed /\ Reached /\ [Next]_vars => Reached'
    BY ReachedStep
  <1>2. Spec => []Reached
    BY <1>1, ReachedInit, TypeInvariant, LockInvariant, AimInvariant, PTL DEF Spec
  <1>3. Reached => AbortReachesQuery BY DEF Reached, AbortReachesQuery
  <1> QED BY <1>2, <1>3, PTL

-----------------------------------------------------------------------------
(***************************************************************************)
(* III.  The record.                                                       *)
(***************************************************************************)

-----------------------------------------------------------------------------
(***************************************************************************)
(* The settings.                                                           *)
(***************************************************************************)
\* What a signal does to a dialog.
LEMMA SignalKeeps ==
  ASSUME TypeOK, SignalReturns
  PROVE  /\ dialog'.kv = dialog.kv /\ dialog'.cap = dialog.cap
         /\ dialog'.stop = dialog.stop
  BY DEF TypeOK, SignalReturns, Dialog

\* Stop sequences nobody remembers having set are not set.
StopTold == ~stop_dirty => dialog.stop = NoStop

\* From where each is set to where the query ends.
Prepared ==
  \A t \in Turn :
    /\ pc[t] \in {"stopSet", "sampled", "planned", "capSet", "armed", "querying"} =>
         dialog.stop = req[t].stop
    /\ pc[t] \in {"capSet", "armed", "querying"} => dialog.cap = req[t].cap

Settings == StopTold /\ Prepared

\* At the start the dialog has the defaults and nobody has prepared it.
LEMMA SettingsInit == Init => Settings
  BY DEF Init, Settings, StopTold, Prepared, NewDialog

\* Only set_stop_sequences moves the stop sequences and what is noted of them.
LEMMA StopSteps ==
  ASSUME TypeOK, [Next]_vars
  PROVE  \/ \E t \in Turn : set_stop_sequences(t)
         \/ dialog'.stop = dialog.stop /\ stop_dirty' = stop_dirty
  <1> DEFINE Same == dialog'.stop = dialog.stop /\ stop_dirty' = stop_dirty
  <1>d. dialog \in Dialog BY DEF TypeOK
  <1>1. ASSUME NEW t \in Turn, Native(t), ~set_stop_sequences(t) PROVE Same
    BY <1>d, <1>1 DEF Native, Prepare, apply_sampler, _plan, SetMaxNumTokens, _cb,
      QueryReturns, RecountReturns, Raise, Dialog, books
  <1>2. ASSUME NEW t \in Turn, Admit(t) \/ Worker(t) PROVE Same
    BY <1>d, <1>2 DEF Admit, Worker, Refuse, GoLive, Arm, EnterQuery, Leave,
      HealthEnd, Recount, Release, Report, Dialog, books
  <1>3. ASSUME NEW t \in Turn, Consumer(t) PROVE Same
    BY <1>3 DEF Consumer, Lost, Close, untouched, books
  <1>4. SignalReturns => Same
    BY SignalKeeps DEF SignalReturns, books
  <1>5. count_tokens \/ CountReturns \/ Outside => Same
    BY DEF count_tokens, CountReturns, Outside, WatchdogAbort, NoteStall, Tick,
      untouched, clockless, books
  <1>6. CASE MainStep
    <2>1. begin_shutdown \/ ShutdownAbort \/ CloseMark => Same
      BY DEF begin_shutdown, ShutdownAbort, CloseMark, untouched, books
    <2>2. CloseFree => Same BY <1>d DEF CloseFree, Dialog, quiet, books
    <2>3. CloseAcquire \/ CloseTimeout \/ CloseNull \/ Exit => Same
      BY DEF CloseAcquire, CloseTimeout, CloseNull, Exit, quiet, books
    <2> QED BY <1>6, <2>1, <2>2, <2>3 DEF MainStep
  <1>7. UNCHANGED vars => Same BY DEF vars, books
  <1> QED BY <1>1, <1>2, <1>3, <1>4, <1>5, <1>6, <1>7 DEF Next, Inside, Rest

\* Settings is inductive relative to the types and the locks.
LEMMA SettingsStep == TypeOK /\ Locking /\ Settings /\ [Next]_vars => Settings'
  <1> SUFFICES ASSUME TypeOK, Locking, Settings, [Next]_vars PROVE Settings'
    OBVIOUS
  <1>d. dialog \in Dialog BY DEF TypeOK
  <1>r. UNCHANGED req BY RequestsStay
  <1>s. ASSUME NEW t \in Turn, set_stop_sequences(t)
        PROVE  dialog'.stop = req[t].stop /\ StopTold'
    BY <1>d, <1>s DEF set_stop_sequences, NothingToClear, Dialog, Settings, StopTold
  <1>1. StopTold'
    BY <1>s, StopSteps DEF Settings, StopTold
  <1>2. Prepared'
    <2> SUFFICES ASSUME NEW t \in Turn,
                        pc'[t] \in {"stopSet", "sampled", "planned", "capSet",
                                    "armed", "querying"}
                 PROVE  /\ dialog'.stop = req[t].stop
                        /\ pc'[t] \in {"capSet", "armed", "querying"} =>
                             dialog'.cap = req[t].cap
      BY <1>r DEF Prepared
    <2>1. CASE pc'[t] = pc[t] /\ (dialog' = dialog \/ SignalReturns)
      BY <2>1, SignalKeeps DEF Settings, Prepared
    <2>2. CASE set_stop_sequences(t) /\ pc'[t] = "stopSet" BY <1>s, <2>2
    <2>3. CASE SetMaxNumTokens(t) /\ pc[t] = "planned"
      BY <1>d, <2>3 DEF SetMaxNumTokens, Dialog, Settings, Prepared
    <2>4. CASE apply_sampler(t) /\ pc[t] = "stopSet" /\ pc'[t] = "sampled"
      BY <1>d, <2>4 DEF apply_sampler, Dialog, Settings, Prepared
    <2>5. CASE _plan(t) /\ pc[t] = "sampled" /\ pc'[t] = "planned"
      BY <1>d, <2>5 DEF _plan, Dialog, Settings, Prepared
    <2>6. CASE Arm(t) /\ pc[t] = "capSet"
      BY <2>6 DEF Arm, Settings, Prepared
    <2>7. CASE EnterQuery(t) /\ pc[t] = "armed"
      BY <1>d, <2>7 DEF EnterQuery, Dialog, Settings, Prepared
    <2>8. CASE _cb(t) /\ pc[t] = "querying"
      BY <1>d, <2>8 DEF _cb, Dialog, Settings, Prepared
    <2> QED
      BY <2>1, <2>2, <2>3, <2>4, <2>5, <2>6, <2>7, <2>8, Progress
        DEF Course, Holding, Window
  <1> QED BY <1>1, <1>2 DEF Settings

\* A query runs under its own request's token cap and stop sequences, and
\* never under what another request left on the dialog (set_stop_sequences
\* and its _stop_dirty, GenieDialog_setMaxNumTokens).
THEOREM OwnSettingsHold == Spec => []OwnSettings
  <1>1. Spec => []Settings
    BY SettingsInit, SettingsStep, TypeInvariant, LockInvariant, PTL DEF Spec
  <1>2. Settings => OwnSettings BY DEF Settings, Prepared, OwnSettings
  <1> QED BY <1>1, <1>2, PTL

-----------------------------------------------------------------------------
(***************************************************************************)
(* Like: equal, but for characters that a flush has replaced.              *)
(***************************************************************************)
Like(a, b) ==
  /\ Len(a) = Len(b)
  /\ \A i \in 1 .. Len(a) : a[i] = b[i] \/ (a[i] = Replacement /\ b[i] \in Piece)

Held == Seq(Word \cup {Junk})

\* What the driver is given it may hold.
LEMMA WordsAreHeld == Seq(Word) \subseteq Held /\ Seq(Token) \subseteq Held
  <1>1. Token \subseteq Word BY EngineAssumption
  <1> QED BY <1>1 DEF Held

\* A prompt sent to an empty dialog is what it then holds.
LEMMA LikeSelf ==
  ASSUME NEW p \in Held PROVE Like(p, << >> \o p) /\ Like(p \o << >>, p)
  BY DEF Like, Held

\* The same token at both ends.
LEMMA LikeAppend ==
  ASSUME NEW a \in Held, NEW b \in Held, NEW w \in Word \cup {Junk}, Like(a, b)
  PROVE  Like(Append(a, w), Append(b, w))
  BY DEF Like, Held

\* Appending to the end of the whole.
LEMMA AppendLast ==
  ASSUME NEW a \in Held, NEW b \in Held, NEW w \in Word \cup {Junk}
  PROVE  a \o Append(b, w) = Append(a \o b, w)
  <1> DEFINE l == a \o Append(b, w)
             r == Append(a \o b, w)
  <1>n. Len(a) \in Nat /\ Len(b) \in Nat BY DEF Held
  <1>1. Append(b, w) \in Held /\ a \o b \in Held BY DEF Held
  <1>2. l \in Held /\ r \in Held BY <1>1 DEF Held
  <1>3. Len(l) = Len(a) + Len(b) + 1 /\ Len(r) = Len(a) + Len(b) + 1
    BY <1>n, <1>1 DEF Held
  <1>4. ASSUME NEW i \in 1 .. Len(a) + Len(b) + 1 PROVE l[i] = r[i]
    <2>1. CASE i <= Len(a) BY <1>n, <1>1, <2>1 DEF Held
    <2>2. CASE i > Len(a) /\ i <= Len(a) + Len(b)
      <3>1. l[i] = Append(b, w)[i - Len(a)] BY <1>n, <1>1, <2>2 DEF Held
      <3>2. r[i] = (a \o b)[i] BY <1>n, <1>1, <2>2 DEF Held
      <3>3. i - Len(a) \in 1 .. Len(b) BY <1>n, <2>2
      <3> QED BY <1>n, <2>2, <3>1, <3>2, <3>3 DEF Held
    <2>3. CASE i = Len(a) + Len(b) + 1 BY <1>n, <1>1, <2>3 DEF Held
    <2> QED BY <1>n, <2>1, <2>2, <2>3
  <1> HIDE DEF l, r
  <1> QED BY <1>2, <1>3, <1>4 DEF Held

\* Sending what a prompt says after the record completes what the KV holds.
LEMMA LikeContinued ==
  ASSUME NEW p \in Held, NEW c \in Held, NEW kv \in Held, Like(c, kv),
         Len(p) > Len(c), SubSeq(p, 1, Len(c)) = c
  PROVE  Like(p, kv \o SubSeq(p, Len(c) + 1, Len(p)))
  <1> DEFINE s == SubSeq(p, Len(c) + 1, Len(p))
             all == kv \o s
  <1>1. Len(c) \in Nat /\ Len(p) \in Nat /\ Len(kv) = Len(c) BY DEF Held, Like
  <1>2. s \in Held /\ Len(s) = Len(p) - Len(c) BY <1>1 DEF Held
  <1>3. Len(all) = Len(p) BY <1>1, <1>2 DEF Held
  <1>4. ASSUME NEW i \in 1 .. Len(p)
        PROVE p[i] = all[i] \/ (p[i] = Replacement /\ all[i] \in Piece)
    <2>1. CASE i <= Len(c)
      <3>1. p[i] = c[i]
        <4>1. SubSeq(p, 1, Len(c))[i] = p[i] BY <1>1, <2>1 DEF Held
        <4> QED BY <4>1
      <3>2. all[i] = kv[i] BY <1>1, <1>2, <2>1 DEF Held
      <3> QED BY <2>1, <3>1, <3>2 DEF Like
    <2>2. CASE i > Len(c)
      <3>1. all[i] = s[i - Len(c)] BY <1>1, <1>2, <2>2 DEF Held
      <3>2. s[i - Len(c)] = p[i] BY <1>1, <2>2 DEF Held
      <3> QED BY <3>1, <3>2
    <2> QED BY <1>1, <2>1, <2>2
  <1> QED BY <1>1, <1>3, <1>4 DEF Like

\* The flush that ends a text replaces no more than its last token.
LEMMA LikeFlushed ==
  ASSUME TypeOK, NEW p \in Seq(Word), NEW kv \in Held, Like(p \o run.toks, kv)
  PROVE  Like(p \o Generated, kv)
  <1> DEFINE toks == run.toks
             n == Len(toks)
             old == p \o toks
             new == p \o Generated
  <1>t. toks \in Seq(Token) BY DEF TypeOK, Locals
  <1>p. Len(p) \in Nat /\ n \in Nat BY <1>t
  <1>1. CASE n > 0 /\ toks[n] \in Piece
    <2>g. Generated = [toks EXCEPT ![n] = Replacement] BY <1>1 DEF Generated
    <2>s. Generated \in Seq(Word) BY GeneratedType
    <2>d. DOMAIN Generated = 1 .. n BY <1>t, <2>g
    <2>1. Generated \in Seq(Word) /\ Len(Generated) = n
      BY <1>p, <2>s, <2>d
    <2>2. \A i \in 1 .. n : Generated[i] = IF i = n THEN Replacement ELSE toks[i]
      BY <1>t, <2>g
    <2>3. Len(new) = Len(old) /\ Len(old) = Len(p) + n
      BY <1>t, <1>p, <2>1
    <2>4. ASSUME NEW i \in 1 .. Len(old)
          PROVE  new[i] = kv[i] \/ (new[i] = Replacement /\ kv[i] \in Piece)
      <3>o. old[i] = kv[i] \/ (old[i] = Replacement /\ kv[i] \in Piece)
        BY DEF Like
      <3>1. CASE i <= Len(p)
        <4>1. new[i] = p[i] /\ old[i] = p[i] BY <1>t, <1>p, <2>1, <2>3, <3>1
        <4> QED BY <3>o, <4>1
      <3>2. CASE i > Len(p)
        <4>1. i - Len(p) \in 1 .. n BY <1>p, <2>3, <3>2
        <4>2. new[i] = Generated[i - Len(p)] BY <1>p, <2>1, <3>2, <4>1
        <4>3. old[i] = toks[i - Len(p)] BY <1>t, <1>p, <3>2, <4>1
        <4> QED BY <1>1, <2>2, <3>o, <4>1, <4>2, <4>3
      <3> QED BY <1>p, <2>3, <3>1, <3>2
    <2> QED BY <2>3, <2>4 DEF Like
  <1>2. CASE ~(n > 0 /\ toks[n] \in Piece)
    <2>1. Generated = toks BY <1>2 DEF Generated
    <2> QED BY <2>1
  <1> QED BY <1>1, <1>2

\* Where no text ends inside a character, alike is equal.
LEMMA LikeIsEqual ==
  ASSUME Piece = {}, NEW a \in Held, NEW b \in Held, Like(a, b)
  PROVE  a = b
  BY DEF Like, Held

-----------------------------------------------------------------------------
(***************************************************************************)
(* Resident: what the KV holds, at every place of _run_query.  It is the   *)
(* record until the query starts; then the prompt and what was generated;  *)
(* and after an end the record may tell, still that.                       *)
(***************************************************************************)
Fresh == {"admitted", "live", "stopSet", "sampled"}
Planned == {"planned", "capSet", "armed"}
Filled == {"querying", "returned", "left", "ended", "recounting", "recounted"}

\* The record holds whenever no query has been at the KV since.
Recorded ==
  (\A t \in Turn : pc[t] \notin Filled) /\ committed # NoText =>
    Like(committed, dialog.kv)

\* What is sent completes the prompt.
Sending ==
  \A t \in Turn :
    /\ pc[t] \in Fresh \cup Planned => run.toks = << >> /\ run.status = "none"
    /\ pc[t] \in Planned => Like(req[t].prompt, dialog.kv \o run.send)

\* The query has its own prompt before it.
Generating ==
  \A t \in Turn : pc[t] = "querying" =>
    /\ Like(req[t].prompt \o run.toks, dialog.kv)
    /\ run.status = "none"

\* A query that ended by itself, at no stop sequence, left the KV as it was; a
\* call that threw left no record.
Ended ==
  \A t \in Turn : pc[t] \in Filled \ {"querying"} =>
    /\ run.status = "none" => committed = NoText
    /\ run.status = "SUCCESS" /\ ~run.cut
         /\ (req[t].stop = NoStop \/ Certain(t)) =>
           Like(req[t].prompt \o run.toks, dialog.kv)

Resident == Recorded /\ Sending /\ Generating /\ Ended

\* At the start there is no record and nobody to make one.
LEMMA ResidentInit == Init => Resident
  BY DEF Init, Resident, Recorded, Sending, Generating, Ended, Fresh, Planned, Filled

\* The steps that move the KV or its record.
LEMMA KvSteps ==
  ASSUME TypeOK, [Next]_vars
  PROVE  \/ \E t \in Turn : \/ _plan(t) \/ EnterQuery(t) \/ _cb(t)
                            \/ QueryReturns(t) \/ Raise(t) \/ Release(t)
         \/ dialog'.kv = dialog.kv /\ committed' = committed
  <1> DEFINE Same == dialog'.kv = dialog.kv /\ committed' = committed
  <1>d. dialog \in Dialog BY DEF TypeOK
  <1>1. ASSUME NEW t \in Turn, Native(t), ~_plan(t), ~_cb(t), ~QueryReturns(t), ~Raise(t)
        PROVE Same
    BY <1>d, <1>1 DEF Native, Prepare, set_stop_sequences, apply_sampler,
      SetMaxNumTokens, RecountReturns, Dialog, books
  <1>2. ASSUME NEW t \in Turn, Admit(t) \/ Worker(t), ~EnterQuery(t), ~Release(t)
        PROVE Same
    BY <1>2 DEF Admit, Worker, Refuse, GoLive, Arm, Leave, HealthEnd, Recount,
      Report, books
  <1>3. ASSUME NEW t \in Turn, Consumer(t) PROVE Same
    BY <1>3 DEF Consumer, Lost, Close, untouched, books
  <1>4. SignalReturns => Same
    BY SignalKeeps DEF SignalReturns, books
  <1>5. count_tokens \/ CountReturns \/ Outside => Same
    BY DEF count_tokens, CountReturns, Outside, WatchdogAbort, NoteStall, Tick,
      untouched, clockless, books
  <1>6. CASE MainStep
    <2>1. begin_shutdown \/ ShutdownAbort \/ CloseMark => Same
      BY DEF begin_shutdown, ShutdownAbort, CloseMark, untouched, books
    <2>2. CloseFree => Same BY <1>d DEF CloseFree, Dialog, quiet, books
    <2>3. CloseAcquire \/ CloseTimeout \/ CloseNull \/ Exit => Same
      BY DEF CloseAcquire, CloseTimeout, CloseNull, Exit, quiet, books
    <2> QED BY <1>6, <2>1, <2>2, <2>3 DEF MainStep
  <1>7. UNCHANGED vars => Same BY DEF vars, books
  <1> QED BY <1>1, <1>2, <1>3, <1>4, <1>5, <1>6, <1>7 DEF Next, Inside, Rest

\* The values the lemmas on Like are about.
LEMMA Values ==
  ASSUME TypeOK
  PROVE  /\ dialog.kv \in Held /\ dialog.cap \in Nat
         /\ run.send \in Held /\ run.toks \in Seq(Token) /\ run.toks \in Held
         /\ committed # NoText => committed \in Held
         /\ \A t \in Turn : req[t].prompt \in Seq(Word) /\ req[t].prompt \in Held
  <1>1. \A t \in Turn : req[t].prompt \in Seq(Word)
    BY EngineAssumption DEF TypeOK
  <1> QED BY <1>1, WordsAreHeld DEF TypeOK, Dialog, Locals, Held

\* A plan either finds its prompt's beginning in the KV or empties it.
LEMMA PlanSends ==
  ASSUME TypeOK, Locking, Resident, NEW t \in Turn, _plan(t)
  PROVE  /\ Like(req[t].prompt, dialog'.kv \o run'.send)
         /\ run'.toks = << >> /\ run'.status = "none"
         /\ committed' # NoText => committed' = committed /\ dialog'.kv = dialog.kv
  <1> DEFINE p == req[t].prompt
  <1>d. dialog \in Dialog /\ run \in Locals BY DEF TypeOK
  <1>v. p \in Held /\ dialog.kv \in Held BY Values
  <1>s. pc[t] = "sampled" BY DEF _plan
  <1>0. run'.toks = << >> /\ run'.status = "none"
    BY <1>d, <1>s DEF _plan, Locals, Resident, Sending, Fresh
  <1>1. CASE Continues(p, committed)
    <2>1. /\ run'.send = SubSeq(p, Len(committed) + 1, Len(p))
          /\ committed' = committed /\ dialog' = dialog
      BY <1>d, <1>1 DEF _plan, Locals
    <2>2. committed # NoText /\ committed \in Held
      BY <1>1, Values DEF Continues
    <2>3. \A u \in Turn : pc[u] \notin Filled
      <3>1. pc[t] \in Holding /\ pc[t] \notin Filled
        BY <1>s DEF Holding, Window, Filled
      <3>2. Filled \subseteq Holding BY DEF Filled, Holding, Window
      <3> QED BY <3>1, <3>2 DEF Locking, Holders
    <2>4. Like(committed, dialog.kv) BY <2>2, <2>3 DEF Resident, Recorded
    <2>5. Like(p, dialog.kv \o SubSeq(p, Len(committed) + 1, Len(p)))
      BY <1>1, <1>v, <2>2, <2>4, LikeContinued DEF Continues
    <2> QED BY <1>0, <2>1, <2>5
  <1>2. CASE ~Continues(p, committed)
    <2>1. run'.send = p /\ committed' = NoText /\ dialog'.kv = << >>
      BY <1>d, <1>2 DEF _plan, Locals, Dialog
    <2> QED BY <1>0, <1>v, <2>1, LikeSelf
  <1> QED BY <1>1, <1>2

\* The query starts on the whole prompt.
LEMMA QueryStarts ==
  ASSUME TypeOK, Resident, NEW t \in Turn, EnterQuery(t)
  PROVE  Like(req[t].prompt \o run'.toks, dialog'.kv) /\ run'.status = "none"
  <1>1. run.toks = << >> /\ run.status = "none"
        /\ Like(req[t].prompt, dialog.kv \o run.send)
    BY DEF EnterQuery, Resident, Sending, Planned
  <1>2. dialog'.kv = dialog.kv \o run.send /\ run' = run
    BY DEF EnterQuery, TypeOK, Dialog
  <1>3. req[t].prompt \o << >> = req[t].prompt BY Values
  <1> QED BY <1>1, <1>2, <1>3

\* Every token is reported and kept.
LEMMA QueryGoesOn ==
  ASSUME TypeOK, Resident, NEW t \in Turn, _cb(t)
  PROVE  Like(req[t].prompt \o run'.toks, dialog'.kv) /\ run'.status = "none"
  <1>d. dialog \in Dialog /\ run \in Locals BY DEF TypeOK
  <1>1. run.status = "none" /\ Like(req[t].prompt \o run.toks, dialog.kv)
    BY DEF _cb, Resident, Generating
  <1>2. PICK w \in Token : /\ dialog' = [dialog EXCEPT !.kv = Append(@, w)]
                           /\ run' = [run EXCEPT !.toks = Append(@, w)]
    BY DEF _cb
  <1>3. /\ dialog'.kv = Append(dialog.kv, w)
        /\ run'.toks = Append(run.toks, w) /\ run'.status = run.status
    BY <1>d, <1>2 DEF Dialog, Locals
  <1>v. /\ req[t].prompt \in Held /\ run.toks \in Held /\ dialog.kv \in Held
        /\ w \in Word \cup {Junk}
    <2>1. w \in Word \cup {Junk} BY <1>2, EngineAssumption
    <2>2. dialog.kv \in Held /\ run.toks \in Held BY Values
    <2>3. req[t].prompt \in Held BY Values
    <2> QED BY <2>1, <2>2, <2>3
  <1>4. req[t].prompt \o run'.toks = Append(req[t].prompt \o run.toks, w)
    BY <1>3, <1>v, AppendLast, Zenon
  <1>5. req[t].prompt \o run.toks \in Held BY <1>v DEF Held
  <1> QED BY <1>1, <1>3, <1>4, <1>5, <1>v, LikeAppend

\* What a query that succeeded leaves behind its text, a stop sequence left.
LEMMA QueryEnds ==
  ASSUME TypeOK, Settings, Resident, NEW t \in Turn, QueryReturns(t),
         run'.status = "SUCCESS", ~run'.cut, req[t].stop = NoStop \/ Certain(t)'
  PROVE  Like(req[t].prompt \o run'.toks, dialog'.kv)
  <1>d. dialog \in Dialog /\ run \in Locals BY DEF TypeOK
  <1>q. pc[t] = "querying" BY DEF QueryReturns
  <1>1. Like(req[t].prompt \o run.toks, dialog.kv)
    BY <1>q DEF Resident, Generating
  <1>2. dialog.stop = req[t].stop /\ dialog.cap = req[t].cap
    BY <1>q DEF Settings, Prepared
  <1>3. PICK s \in Status \ {"none"}, cut \in BOOLEAN, tail \in {<< >>, <<Junk>>} :
          /\ tail # << >> => \/ s # "SUCCESS" \/ cut
                             \/ dialog.stop # NoStop /\ Len(run.toks) < dialog.cap
          /\ run' = [run EXCEPT !.status = s, !.cut = cut]
          /\ dialog' = [dialog EXCEPT !.kv = @ \o tail, !.inside = FALSE,
                                      !.cutting = FALSE]
    BY DEF QueryReturns
  <1>4. /\ run'.status = s /\ run'.cut = cut /\ run'.toks = run.toks
        /\ dialog'.kv = dialog.kv \o tail
    BY <1>d, <1>3 DEF Dialog, Locals
  <1>5. req' = req BY DEF QueryReturns, engine, client
  <1>6. Len(run.toks) \in Nat BY Values
  <1>7. tail = << >>
    <2>1. req[t].stop = NoStop \/ Len(run.toks) >= dialog.cap
      BY <1>2, <1>4, <1>5 DEF Certain
    <2>2. ~(dialog.stop # NoStop /\ Len(run.toks) < dialog.cap)
      BY <1>2, <1>6, <2>1, Values
    <2> QED BY <1>3, <1>4, <2>2
  <1>8. dialog.kv \o << >> = dialog.kv BY Values DEF Held
  <1> QED BY <1>1, <1>4, <1>7, <1>8

\* Nothing comes between a plan and its query.
LEMMA SendingStep ==
  ASSUME TypeOK, Locking, Resident, [Next]_vars PROVE Sending'
  <1> SUFFICES ASSUME NEW t \in Turn, pc'[t] \in Fresh \cup Planned
               PROVE  /\ run'.toks = << >> /\ run'.status = "none"
                      /\ pc'[t] \in Planned =>
                           Like(req'[t].prompt, dialog'.kv \o run'.send)
    BY DEF Sending
  <1>d. dialog \in Dialog /\ run \in Locals BY DEF TypeOK
  <1>q. req' = req BY RequestsStay
  <1>s. pc[t] \in Fresh \cup Planned =>
          /\ run.toks = << >> /\ run.status = "none"
          /\ pc[t] \in Planned => Like(req[t].prompt, dialog.kv \o run.send)
    BY DEF Resident, Sending
  <1>1. CASE pc'[t] = "admitted"
    <2>1. pc[t] \in Holding \/ Admit(t) BY <1>1, Entry DEF Holding
    <2>2. Admit(t) => run' = NoRun BY DEF Admit
    <2>3. ~Course(t) BY <1>1 DEF Course
    <2>4. ASSUME pc[t] \in Holding, ~Worker(t), ~Native(t)
          PROVE  run' = run /\ pc[t] = "admitted"
      BY <1>1, <2>4, Sole
    <2>5. pc[t] \in Holding => run' = run /\ pc[t] = "admitted"
      BY <2>3, <2>4, Courses
    <2> QED BY <1>1, <1>s, <2>1, <2>2, <2>5 DEF NoRun, Fresh, Planned
  <1>2. CASE pc'[t] # "admitted"
    <2>p. pc'[t] \in Holding \ {"refusing", "admitted"}
      BY <1>2 DEF Fresh, Planned, Holding, Window
    <2>1. CASE UNCHANGED <<run, books>> /\ pc'[t] = pc[t]
               /\ (dialog' = dialog \/ SignalReturns)
      BY <1>s, <1>q, <2>1, SignalKeeps
    <2>2. CASE _plan(t)
      BY <1>q, <2>2, PlanSends
    <2>3. CASE SetMaxNumTokens(t) /\ pc[t] = "planned"
      <3>1. run' = run /\ dialog'.kv = dialog.kv
        BY <1>d, <2>3 DEF SetMaxNumTokens, Dialog
      <3> QED BY <1>s, <1>q, <2>3, <3>1 DEF Planned
    <2>4. CASE Arm(t) /\ ~Early(t) /\ pc[t] = "capSet"
      BY <1>s, <1>q, <2>4 DEF Arm, Planned
    <2>5. CASE (GoLive(t) \/ set_stop_sequences(t) \/ apply_sampler(t))
               /\ pc[t] \in Fresh /\ pc'[t] \in Fresh
      <3>1. run' = run BY <2>5 DEF GoLive, set_stop_sequences, apply_sampler
      <3> QED BY <1>s, <2>5, <3>1 DEF Fresh, Planned
    <2> QED
      BY <2>p, <2>1, <2>2, <2>3, <2>4, <2>5, Progress DEF Course, Fresh, Planned
  <1> QED BY <1>1, <1>2

\* The KV of a running query is its own.
LEMMA GeneratingStep ==
  ASSUME TypeOK, Locking, Resident, [Next]_vars PROVE Generating'
  <1> SUFFICES ASSUME NEW t \in Turn, pc'[t] = "querying"
               PROVE  /\ Like(req'[t].prompt \o run'.toks, dialog'.kv)
                      /\ run'.status = "none"
    BY DEF Generating
  <1>q. req' = req BY RequestsStay
  <1>1. CASE UNCHANGED <<run, books>> /\ pc'[t] = pc[t]
             /\ (dialog' = dialog \/ SignalReturns)
    BY <1>q, <1>1, SignalKeeps DEF Resident, Generating
  <1>2. CASE EnterQuery(t) BY <1>q, <1>2, QueryStarts
  <1>3. CASE _cb(t) BY <1>q, <1>3, QueryGoesOn
  <1> QED BY <1>1, <1>2, <1>3, Progress DEF Course, Holding, Window

\* What a query left stays until the record is made.
LEMMA EndedStep ==
  ASSUME TypeOK, Locking, Settings, Resident, [Next]_vars PROVE Ended'
  <1> SUFFICES ASSUME NEW t \in Turn, pc'[t] \in Filled \ {"querying"}
               PROVE  /\ run'.status = "none" => committed' = NoText
                      /\ run'.status = "SUCCESS" /\ ~run'.cut
                           /\ (req'[t].stop = NoStop \/ Certain(t)') =>
                             Like(req'[t].prompt \o run'.toks, dialog'.kv)
    BY DEF Ended
  <1>d. dialog \in Dialog /\ run \in Locals BY DEF TypeOK
  <1>q. req' = req BY RequestsStay
  <1>1. ASSUME pc[t] \in Filled \ {"querying"}, committed' = committed,
               dialog'.kv = dialog.kv, run'.status = run.status,
               run'.cut = run.cut, run'.toks = run.toks
        PROVE  /\ run'.status = "none" => committed' = NoText
               /\ run'.status = "SUCCESS" /\ ~run'.cut
                    /\ (req'[t].stop = NoStop \/ Certain(t)') =>
                      Like(req'[t].prompt \o run'.toks, dialog'.kv)
    <2>1. Certain(t)' <=> Certain(t) BY <1>q, <1>1 DEF Certain
    <2> QED BY <1>q, <1>1, <2>1 DEF Resident, Ended
  <1>2. CASE UNCHANGED <<run, books>> /\ pc'[t] = pc[t]
             /\ (dialog' = dialog \/ SignalReturns)
    BY <1>1, <1>2, SignalKeeps DEF books
  <1>3. CASE Leave(t) \/ HealthEnd(t) \/ Recount(t) \/ RecountReturns(t)
    <2>1. pc[t] \in Filled \ {"querying"}
      BY <1>3 DEF Leave, HealthEnd, Recount, RecountReturns, Filled
    <2>2. committed' = committed /\ dialog' = dialog
      BY <1>3 DEF Leave, HealthEnd, Recount, RecountReturns, books
    <2>3. /\ run'.status = run.status /\ run'.cut = run.cut
          /\ run'.toks = run.toks
      BY <1>d, <1>3 DEF Leave, HealthEnd, Recount, RecountReturns, Locals
    <2> QED BY <1>1, <2>1, <2>2, <2>3
  <1>4. CASE Arm(t) /\ Early(t)
    <2>1. run'.status = "ABORTED" BY <1>d, <1>4 DEF Arm, Locals
    <2> QED BY <2>1
  <1>5. CASE Raise(t)
    <2>1. committed' = NoText /\ run' = run BY <1>5 DEF Raise
    <2>2. run.status = "none"
      BY <1>5 DEF Raise, Resident, Sending, Generating, Fresh, Planned
    <2> QED BY <2>1, <2>2
  <1>6. CASE QueryReturns(t)
    <2>1. run'.status # "none" BY <1>d, <1>6 DEF QueryReturns, Locals
    <2> QED BY <1>6, <1>q, <2>1, QueryEnds
  <1> QED
    BY <1>2, <1>3, <1>4, <1>5, <1>6, Progress DEF Course, Holding, Window, Filled

\* A record is made of an exact end only, and forgotten before the KV moves.
LEMMA RecordedStep ==
  ASSUME TypeOK, Locking, Cutting, ReadOnce, Resident, [Next]_vars PROVE Recorded'
  <1> SUFFICES ASSUME \A t \in Turn : pc'[t] \notin Filled, committed' # NoText
               PROVE  Like(committed', dialog'.kv)
    BY DEF Recorded
  <1>p. Filled \subseteq Holding BY DEF Filled, Holding, Window
  <1>1. ASSUME NEW t \in Turn, Release(t) PROVE Like(committed', dialog'.kv)
    <2>1. pc[t] \in Filled \ {"querying"} /\ pc[t] \in Out
      BY <1>1 DEF Release, Filled, Out
    <2>2. run.status # "none"
      <3>1. run.status = "none" => committed' = committed BY <1>1 DEF Release
      <3> QED BY <2>1, <3>1 DEF Resident, Ended
    <2>3. Exact(t) /\ committed' = req[t].prompt \o Generated
      BY <1>1, <2>2 DEF Release, _commit
    <2>4. ~run.cut
      BY <1>p, <2>1, <2>3 DEF Exact, ReadOnce, Cutting, CutRun
    <2>5. Like(req[t].prompt \o run.toks, dialog.kv)
      BY <2>1, <2>3, <2>4 DEF Exact, Resident, Ended
    <2>6. Like(req[t].prompt \o Generated, dialog.kv)
      BY <2>5, Values, LikeFlushed
    <2> QED BY <1>1, <2>3, <2>6 DEF Release
  <1>2. ASSUME NEW t \in Turn, _plan(t) PROVE Like(committed', dialog'.kv)
    <2>1. committed' = committed /\ dialog'.kv = dialog.kv
      BY <1>2, PlanSends
    <2>2. pc[t] \in Holding /\ pc[t] \notin Filled
      BY <1>2 DEF _plan, Holding, Window, Filled
    <2>3. \A u \in Turn : pc[u] \notin Filled
      BY <1>p, <2>2 DEF Locking, Holders
    <2> QED BY <2>1, <2>3 DEF Resident, Recorded
  <1>3. ASSUME NEW t \in Turn, EnterQuery(t) \/ _cb(t) \/ QueryReturns(t) \/ Raise(t)
        PROVE  FALSE
    <2>1. Course(t) BY <1>3, Courses DEF Worker, Native
    <2>2. pc'[t] \in {"querying", "returned"}
      BY <1>3, PCs, Places DEF EnterQuery, _cb, QueryReturns, Raise, Window
    <2> QED BY <2>2 DEF Filled
  <1>4. CASE /\ \A t \in Turn : ~Release(t)
             /\ dialog'.kv = dialog.kv /\ committed' = committed
    <2>1. ASSUME NEW t \in Turn, pc[t] \in Filled PROVE FALSE
      <3>1. Course(t) \/ pc'[t] = pc[t] BY <1>p, <2>1, Sole, Courses
      <3> QED BY <1>4, <2>1, <3>1 DEF Course, Filled
    <2> QED BY <1>4, <2>1 DEF Resident, Recorded
  <1>5. CASE \E t \in Turn : Release(t) BY <1>1, <1>5
  <1> QED BY <1>1, <1>2, <1>3, <1>4, KvSteps

-----------------------------------------------------------------------------
\* Where the driver ignores an ABORT outside a query, the record tells what
\* the KV holds, and every query has its own prompt before it, up to a
\* character the flush replaced.
THEOREM ResidentInvariant ==
  ASSUME ~SignalSticks PROVE Spec => []Resident
  <1>1. Spec => []Settings
    BY SettingsInit, SettingsStep, TypeInvariant, LockInvariant, PTL DEF Spec
  <1>2. Spec => []ReadOnce
    BY TypeInvariant, LockInvariant, ReadOnceInit, ReadOnceStep, PTL DEF Spec
  <1>3. TypeOK /\ Locking /\ Cutting /\ ReadOnce /\ Settings /\ Resident /\ [Next]_vars
        => Resident'
    BY SendingStep, GeneratingStep, EndedStep, RecordedStep DEF Resident
  <1> QED
    BY <1>1, <1>2, <1>3, ResidentInit, TypeInvariant, LockInvariant,
      CuttingInvariant, PTL DEF Spec

\* `_committed` is the exact text the dialog's KV holds whenever nobody has the
\* engine, if no text ends inside a character.
THEOREM RecordIsResidentHolds ==
  ASSUME ~SignalSticks, Piece = {} PROVE Spec => []RecordIsResident
  <1>1. TypeOK /\ Locking /\ Resident => RecordIsResident
    <2> SUFFICES ASSUME TypeOK, Locking, Resident, lock = Nobody, committed # NoText
                 PROVE  committed = dialog.kv
      BY DEF RecordIsResident
    <2>1. \A t \in Turn : pc[t] \notin Filled
      BY EngineAssumption DEF Locking, Holders, Filled, Holding, Window
    <2>2. Like(committed, dialog.kv) BY <2>1 DEF Resident, Recorded
    <2> QED BY <2>2, Values, LikeIsEqual
  <1> QED BY <1>1, ResidentInvariant, TypeInvariant, LockInvariant, PTL

\* A query runs on its own prompt and on nothing else: whatever _plan skipped
\* because the KV was recorded to hold it, the KV holds.
THEOREM AnswersOwnPromptHolds ==
  ASSUME ~SignalSticks, Piece = {} PROVE Spec => []AnswersOwnPrompt
  <1>1. TypeOK /\ Resident => AnswersOwnPrompt
    <2> SUFFICES ASSUME TypeOK, Resident, NEW t \in Turn, pc[t] = "querying"
                 PROVE  dialog.kv = req[t].prompt \o run.toks
      BY DEF AnswersOwnPrompt
    <2>1. Like(req[t].prompt \o run.toks, dialog.kv)
      BY DEF Resident, Generating
    <2>2. req[t].prompt \o run.toks \in Held BY Values DEF Held
    <2> QED BY <2>1, <2>2, Values, LikeIsEqual
  <1> QED BY <1>1, ResidentInvariant, TypeInvariant, PTL

=============================================================================
