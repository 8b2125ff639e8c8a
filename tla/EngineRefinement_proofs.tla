----------------------- MODULE EngineRefinement_proofs -----------------------
(***************************************************************************)
(* GenieEngine between its two neighbours: it keeps the promises of Turns, *)
(* which Server is built on, and Supervision, with a watchdog that acts    *)
(* only when the code does, is one of the ways it may behave.              *)
(***************************************************************************)
EXTENDS EngineService, Supervision, GenieEngine_proofs

-----------------------------------------------------------------------------
(***************************************************************************)
(* The mapping.                                                            *)
(***************************************************************************)
\* A caller sees of a turn its place, its flags and its answer.
LEMMA SeenSame ==
  ASSUME NEW t \in Turn,
         At(t)' = At(t),
         flags'[t].aborted = flags[t].aborted,
         flags'[t].shutdown = flags[t].shutdown,
         flags'[t].stalled = flags[t].stalled,
         answer'[t] = answer[t]
  PROVE  Seen(t)' = Seen(t)
  <1>1. How(t)' = How(t) BY DEF How
  <1> QED BY <1>1 DEF Seen

\* A step that changes what is seen of one turn.
LEMMA SeenBecomes ==
  ASSUME NEW t \in Turn, NEW r, Seen(t)' = r,
         \A u \in Turn \ {t} : Seen(u)' = Seen(u)
  PROVE  T!Becomes(t, r)
  BY DEF T!Becomes

\* A step that changes what is seen of nobody.
LEMMA SeenStutter ==
  ASSUME \A u \in Turn : Seen(u)' = Seen(u), UNCHANGED <<lock, closing>>
  PROVE  UNCHANGED T!service
  BY DEF T!service

-----------------------------------------------------------------------------
(***************************************************************************)
(* Refused: a turn is turned away only after shutdown has begun.           *)
(***************************************************************************)
RefusedLate == \A t \in Turn : pc[t] = "refusing" => closing

\* At the start nobody has been let in.
LEMMA RefusedLateInit == Init => RefusedLate
  BY DEF Init, RefusedLate

\* The gate reads `_closing` and `_closed`, and neither is ever reset.
LEMMA RefusedLateStep ==
  TypeOK /\ Locking /\ Closing /\ Marked /\ RefusedLate /\ [Next]_vars => RefusedLate'
  <1> SUFFICES ASSUME TypeOK, Locking, Closing, Marked, RefusedLate, [Next]_vars,
                      NEW t \in Turn, pc'[t] = "refusing"
               PROVE  closing'
    BY DEF RefusedLate
  <1>1. CASE pc[t] \in Holding
    <2>1. ~Course(t) BY DEF Course
    <2>2. pc'[t] = pc[t] BY <1>1, <2>1, Sole, Courses
    <2> QED BY <2>2, NoReturn DEF RefusedLate
  <1>2. CASE pc[t] \notin Holding
    <2>1. Admit(t) BY <1>2, Entry DEF Holding
    <2>2. ~closed /\ ~closing => pc'[t] = "admitted"
      BY <2>1, Places DEF Admit, PC, Holding
    <2>3. closing BY <2>2 DEF Closing, ClosedLast, Marked
    <2> QED BY <2>3, NoReturn
  <1> QED BY <1>1, <1>2

-----------------------------------------------------------------------------
(***************************************************************************)
(* Each step of the engine is a step of Turns, or is seen by nobody.       *)
(***************************************************************************)
\* What a step may do to what is seen.
Kept == T!TurnsNext \/ UNCHANGED T!service

\* A step of one turn's worker leaves the other turns alone.
LEMMA OthersSame ==
  ASSUME TypeOK, NEW t \in Turn, Admit(t) \/ Worker(t) \/ Native(t)
  PROVE  \A u \in Turn \ {t} : Seen(u)' = Seen(u)
  <1> SUFFICES ASSUME NEW u \in Turn, u # t PROVE Seen(u)' = Seen(u)
    OBVIOUS
  <1>1. pc'[u] = pc[u]
    <2>1. UNCHANGED pc \/ \E p : To(t, p)
      BY DEF Admit, Worker, Refuse, GoLive, Arm, EnterQuery, Leave, HealthEnd,
        Recount, Release, Report, Native, Prepare, Raise, set_stop_sequences,
        apply_sampler, _plan, SetMaxNumTokens, _cb, QueryReturns, RecountReturns
    <2>2. pc \in [Turn -> PC] BY DEF TypeOK
    <2> QED BY <2>1, <2>2 DEF To
  <1>2. answer'[u] = answer[u]
    <2>1. UNCHANGED answer \/ Refuse(t) \/ Release(t) \/ Report(t)
      BY DEF Admit, Worker, GoLive, Arm, EnterQuery, Leave, HealthEnd, Recount,
        Native, Prepare, Raise, set_stop_sequences, apply_sampler, _plan,
        SetMaxNumTokens, _cb, QueryReturns, RecountReturns, engine, client
    <2> QED BY <2>1 DEF Refuse, Release, Report, TypeOK
  <1>3. flags'[u] = flags[u]
    <2>1. UNCHANGED flags \/ Refuse(t) \/ Leave(t)
      BY DEF Admit, Worker, GoLive, Arm, EnterQuery, HealthEnd, Recount, Release,
        Report, Native, Prepare, Raise, set_stop_sequences, apply_sampler, _plan,
        SetMaxNumTokens, _cb, QueryReturns, RecountReturns, engine
    <2> QED BY <2>1, DoneTurn DEF Refuse, Leave
  <1>4. At(u)' = At(u) BY <1>1 DEF At
  <1> QED BY <1>2, <1>3, <1>4, SeenSame

\* The lock is taken: the turn runs, even one that is about to be refused.
LEMMA AdmitTakes ==
  ASSUME TypeOK, Locking, NEW t \in Turn, Admit(t) PROVE T!Take(t)
  <1> DEFINE All == [u \in Turn |-> Seen(u)]
  <1>1. pc[t] = "queued" /\ pc'[t] \in Holding
    BY Places DEF Admit, PC, Holding
  <1>2. At(t) = "queued" /\ At(t)' = "running"
    BY <1>1 DEF At, Holding, Window
  <1>3. How(t) = "none" /\ How(t)' = "none" BY <1>2 DEF How
  <1>4. flags' = flags /\ answer' = answer BY DEF Admit, client
  <1>5. Seen(t)' = [All[t] EXCEPT !.at = "running"]
    BY <1>2, <1>3, <1>4 DEF Seen
  <1>6. T!Becomes(t, [All[t] EXCEPT !.at = "running"])
    BY <1>5, OthersSame, SeenBecomes
  <1>7. All[t].at = "queued" BY <1>2 DEF Seen
  <1> QED BY <1>6, <1>7 DEF T!Take, Admit

\* Turned away at the gate.
LEMMA RefuseRefuses ==
  ASSUME TypeOK, Locking, RefusedLate, NEW t \in Turn, Refuse(t)
  PROVE  T!Refuse(t)
  <1>1. pc[t] = "refusing" /\ pc'[t] = "done" BY PCs, Places DEF Refuse
  <1>2. At(t) = "running" /\ At(t)' = "ended"
    BY <1>1 DEF At, Holding, Window
  <1>3. answer'[t].kind = "closing" BY DEF Refuse, TypeOK, Answer
  <1>4. How(t)' = "refused" BY <1>2, <1>3 DEF How
  <1>5. /\ flags'[t].aborted = flags[t].aborted
        /\ flags'[t].shutdown = flags[t].shutdown
        /\ flags'[t].stalled = flags[t].stalled
    BY DEF Refuse, TypeOK, TurnFlags
  <1> DEFINE r == [at |-> "ended", aborted |-> flags[t].aborted,
                   named |-> flags[t].shutdown \/ flags[t].stalled,
                   how |-> "refused", told |-> "closing"]
             All == [u \in Turn |-> Seen(u)]
  <1>6. Seen(t)' = r BY <1>2, <1>3, <1>4, <1>5 DEF Seen
  <1>s. Seen(t) = [at |-> At(t), aborted |-> flags[t].aborted,
                   named |-> flags[t].shutdown \/ flags[t].stalled,
                   how |-> How(t), told |-> answer[t].kind]
    BY DEF Seen
  <1>7. r = [All[t] EXCEPT !.at = "ended", !.how = "refused", !.told = "closing"]
    <2> DEFINE s == All[t]
               e == [at |-> "ended", aborted |-> flags[t].aborted,
                     named |-> flags[t].shutdown \/ flags[t].stalled,
                     how |-> How(t), told |-> answer[t].kind]
               f == [at |-> "ended", aborted |-> flags[t].aborted,
                     named |-> flags[t].shutdown \/ flags[t].stalled,
                     how |-> "refused", told |-> answer[t].kind]
    <2>1. [s EXCEPT !.at = "ended", !.how = "refused", !.told = "closing"]
            = [[[s EXCEPT !.at = "ended"] EXCEPT !.how = "refused"]
                 EXCEPT !.told = "closing"]
      OBVIOUS
    <2>2. [s EXCEPT !.at = "ended"] = e BY <1>s
    <2>3. [e EXCEPT !.how = "refused"] = f OBVIOUS
    <2>4. [f EXCEPT !.told = "closing"] = r OBVIOUS
    <2> QED BY <2>1, <2>2, <2>3, <2>4
  <1>8. T!Becomes(t, [All[t] EXCEPT !.at = "ended", !.how = "refused",
                                    !.told = "closing"])
    BY <1>6, <1>7, OthersSame, SeenBecomes DEF Worker
  <1>9. lock = t BY <1>1 DEF Locking, Holders, Holding
  <1>10. All[t].at = "running" BY <1>2 DEF Seen
  <1> QED BY <1>1, <1>8, <1>9, <1>10 DEF T!Refuse, Refuse, RefusedLate

\* The lock is given back with the way the turn ended.
LEMMA ReleaseGives ==
  ASSUME TypeOK, Locking, Cutting, Telling, NEW t \in Turn, Release(t)
  PROVE  T!Give(t)
  <1>1. pc[t] \in Holding /\ pc[t] # "done" /\ pc'[t] = "released"
    BY PCs, Places DEF Release, Holding
  <1>2. At(t) = "running" /\ At(t)' = "ended"
    BY <1>1 DEF At, Holding, Window
  <1>3. answer[t].kind = "none" BY <1>1 DEF Telling, ToldLast
  <1>4. /\ answer'[t].kind = "none" /\ answer'[t].finish = Finish(t)
        /\ answer'[t].cut = run.cut
    BY <1>3 DEF Release, TypeOK, Answer
  <1>5. run.cut => flags[t].aborted BY <1>1 DEF Cutting, CutRun
  <1>6. PICK how \in {"whole", "raised"} \cup (IF flags[t].aborted THEN {"cut"} ELSE {}) :
          How(t)' = how
    BY <1>2, <1>4, <1>5 DEF How
  <1>7. flags' = flags BY DEF Release
  <1> DEFINE r == [at |-> "ended", aborted |-> flags[t].aborted,
                   named |-> flags[t].shutdown \/ flags[t].stalled,
                   how |-> how, told |-> "none"]
             All == [u \in Turn |-> Seen(u)]
  <1>8. Seen(t)' = r BY <1>2, <1>4, <1>6, <1>7 DEF Seen
  <1>s. Seen(t) = [at |-> At(t), aborted |-> flags[t].aborted,
                   named |-> flags[t].shutdown \/ flags[t].stalled,
                   how |-> How(t), told |-> "none"]
    BY <1>3 DEF Seen
  <1>9. r = [All[t] EXCEPT !.at = "ended", !.how = how]
    <2> DEFINE s == All[t]
               e == [at |-> "ended", aborted |-> flags[t].aborted,
                     named |-> flags[t].shutdown \/ flags[t].stalled,
                     how |-> How(t), told |-> "none"]
    <2>1. [s EXCEPT !.at = "ended", !.how = how]
            = [[s EXCEPT !.at = "ended"] EXCEPT !.how = how]
      OBVIOUS
    <2>2. [s EXCEPT !.at = "ended"] = e BY <1>s
    <2>3. [e EXCEPT !.how = how] = r OBVIOUS
    <2> QED BY <2>1, <2>2, <2>3
  <1>10. T!Becomes(t, [All[t] EXCEPT !.at = "ended", !.how = how])
    BY <1>8, <1>9, OthersSame, SeenBecomes DEF Worker
  <1>11. lock = t BY <1>1 DEF Locking, Holders
  <1>12. how \in T!Ways(t) BY <1>6 DEF T!Ways, Seen
  <1>13. All[t].at = "running" BY <1>2 DEF Seen
  <1> QED BY <1>10, <1>11, <1>12, <1>13 DEF T!Give, Release

\* The consumer is told what a turn that ended so may be told.
LEMMA ReportTells ==
  ASSUME TypeOK, Locking, Telling, NEW t \in Turn, Report(t)
  PROVE  T!Tell(t)
  <1>1. pc[t] = "released" /\ pc'[t] = "done"
    BY PCs, Places DEF Report
  <1>2. At(t) = "ended" /\ At(t)' = "ended"
    BY <1>1 DEF At, Holding, Window
  <1>3. answer[t].kind = "none" BY <1>1 DEF Telling, ToldLast
  <1>4. /\ answer'[t].kind = Kind(t) /\ answer'[t].finish = answer[t].finish
        /\ answer'[t].cut = answer[t].cut
    BY DEF Report, TypeOK, Answer
  <1>5. Kind(t) # "closing" BY DEF Kind
  <1>6. How(t)' = How(t) BY <1>2, <1>3, <1>4, <1>5 DEF How
  <1>7. How(t) = "raised" <=> answer[t].finish = "raised"
    BY <1>2, <1>3 DEF How
  <1>8. flags' = flags BY DEF Report
  <1> DEFINE All == [u \in Turn |-> Seen(u)]
  <1>9. Seen(t)' = [All[t] EXCEPT !.told = Kind(t)]
    BY <1>2, <1>4, <1>6, <1>8 DEF Seen
  <1>10. Kind(t) \in T!Tellable(t)
    BY <1>7 DEF T!Tellable, Kind, Seen
  <1>11. T!Becomes(t, [All[t] EXCEPT !.told = Kind(t)])
    BY <1>9, OthersSame, SeenBecomes DEF Worker
  <1>12. All[t].at = "ended" /\ All[t].told = "none" BY <1>2, <1>3 DEF Seen
  <1> QED BY <1>10, <1>11, <1>12 DEF T!Tell, Report

\* Every other step of a turn's worker happens inside, unseen.
LEMMA WindowUnseen ==
  ASSUME TypeOK, Locking, NEW t \in Turn, Worker(t) \/ Native(t),
         ~Refuse(t), ~Release(t), ~Report(t)
  PROVE  UNCHANGED T!service
  <1>1. Course(t) BY Courses
  <1>2. pc[t] \in Holding /\ pc'[t] \in Holding
    BY <1>1 DEF Course, Holding, Window
  <1>3. At(t)' = At(t) BY <1>2 DEF At, Holding, Window
  <1>4. UNCHANGED <<lock, closing, answer>>
    BY DEF Worker, GoLive, Arm, EnterQuery, Leave, HealthEnd, Recount, Native,
      Prepare, Raise, set_stop_sequences, apply_sampler, _plan, SetMaxNumTokens,
      _cb, QueryReturns, RecountReturns, engine, client
  <1>5. /\ flags'[t].aborted = flags[t].aborted
        /\ flags'[t].shutdown = flags[t].shutdown
        /\ flags'[t].stalled = flags[t].stalled
    <2>1. UNCHANGED flags \/ Leave(t)
      BY DEF Worker, GoLive, Arm, EnterQuery, HealthEnd, Recount, Native,
        Prepare, Raise, set_stop_sequences, apply_sampler, _plan,
        SetMaxNumTokens, _cb, QueryReturns, RecountReturns, engine
    <2> QED BY <2>1 DEF Leave, TypeOK, TurnFlags
  <1>6. Seen(t)' = Seen(t) BY <1>3, <1>4, <1>5, SeenSame
  <1> QED BY <1>4, <1>6, OthersSame, SeenStutter

\* An abort finds a turn that has not ended, or nothing.
LEMMA AbortAborts ==
  ASSUME TypeOK, Locking, NEW by \in Turn \cup {Main, Watchdog},
         NEW t \in Turn \cup {Nobody}, NEW any \in BOOLEAN, NEW stalled \in BOOLEAN,
         _abort(by, t, any, stalled), UNCHANGED <<lock, closing, pc, answer>>
  PROVE  Kept
  <1> DEFINE x == Target(t, any)
  <1>a. \A u \in Turn : At(u)' = At(u) BY DEF At
  <1>h. \A u \in Turn : How(u)' = How(u) BY <1>a DEF How
  <1>e. \A u \in Turn :
          /\ flags'[u].aborted <=> flags[u].aborted \/ (Aborts(t, any) /\ u = x)
          /\ flags'[u].stalled <=>
               flags[u].stalled \/ (Aborts(t, any) /\ u = x /\ stalled)
          /\ flags'[u].shutdown <=> flags[u].shutdown
    <2>1. \A u \in Turn :
            LET hit == Aborts(t, any) /\ u = Target(t, any) IN
            /\ flags'[u].aborted <=> flags[u].aborted \/ hit
            /\ flags'[u].stalled <=> flags[u].stalled \/ (hit /\ stalled)
            /\ flags'[u].shutdown <=> flags[u].shutdown
      BY AbortEffect, Z3
    <2> QED BY <2>1
  <1>b. \A u \in Turn : /\ flags[u] \in TurnFlags /\ flags'[u] \in TurnFlags
    <2>1. flags' \in [Turn -> TurnFlags] BY AbortType
    <2>2. flags \in [Turn -> TurnFlags] BY DEF TypeOK
    <2> QED BY <2>1, <2>2
  <1>o. ASSUME NEW u \in Turn, ~(Aborts(t, any) /\ u = x) PROVE Seen(u)' = Seen(u)
    <2>1. /\ flags'[u].aborted = flags[u].aborted
          /\ flags'[u].shutdown = flags[u].shutdown
          /\ flags'[u].stalled = flags[u].stalled
      BY <1>b, <1>e, <1>o DEF TurnFlags
    <2> QED BY <1>a, <2>1, SeenSame
  <1>1. CASE Aborts(t, any)
    <2>y. x \in Turn BY <1>1 DEF Aborts, Target, TypeOK
    <2>z. PICK y \in Turn : y = x BY <2>y
    <2>x. ~flags[y].done BY <1>1, <2>z DEF Aborts
    <2> HIDE DEF x
    <2>1. pc[y] \notin Gone BY <2>x DEF Locking, Done
    <2>2. At(y) \in T!Live
      BY <2>x, <2>1 DEF T!Live, At, Gone, TypeOK, PC
    <2> DEFINE All == [u \in Turn |-> Seen(u)]
               yes == TRUE
               was == flags[y].shutdown \/ flags[y].stalled
               is == flags'[y].shutdown \/ flags'[y].stalled
               n == All[y].named \/ stalled
               r == [at |-> At(y), aborted |-> yes, named |-> n,
                     how |-> How(y), told |-> answer[y].kind]
    <2>s. All[y] = [at |-> At(y), aborted |-> flags[y].aborted, named |-> was,
                    how |-> How(y), told |-> answer[y].kind]
      BY DEF Seen
    <2>n. All[y].named = was BY <2>s
    <2>f. flags'[y].aborted = yes /\ is = n
      BY <1>1, <1>b, <1>e, <2>z, <2>n DEF TurnFlags
    <2>t. Seen(y)' = [at |-> At(y)', aborted |-> flags'[y].aborted, named |-> is,
                      how |-> How(y)', told |-> answer'[y].kind]
      BY DEF Seen
    <2> HIDE DEF yes, was, is, n
    <2>3. Seen(y)' = r BY <1>a, <1>h, <2>f, <2>t
    <2>4. r = [All[y] EXCEPT !.aborted = yes, !.named = n]
      <3> DEFINE s == All[y]
                 e == [at |-> At(y), aborted |-> yes, named |-> was,
                       how |-> How(y), told |-> answer[y].kind]
      <3>1. [s EXCEPT !.aborted = yes, !.named = n]
              = [[s EXCEPT !.aborted = yes] EXCEPT !.named = n]
        OBVIOUS
      <3>2. [s EXCEPT !.aborted = yes] = e BY <2>s
      <3>3. [e EXCEPT !.named = n] = r OBVIOUS
      <3> QED BY <3>1, <3>2, <3>3
    <2>5. T!Becomes(y, [All[y] EXCEPT !.aborted = yes, !.named = n])
      BY <1>o, <2>z, <2>3, <2>4, SeenBecomes
    <2>6. All[y].at \in T!Live BY <2>2, <2>s
    <2>7. T!Abort(y, stalled) BY <2>5, <2>6 DEF T!Abort, yes, n
    <2> QED BY <2>7 DEF Kept, T!TurnsNext
  <1>2. CASE ~Aborts(t, any)
    BY <1>2, <1>o, SeenStutter DEF Kept
  <1> QED BY <1>1, <1>2

\* Shutdown marks the running turn, if there is one.
LEMMA MarkStops ==
  ASSUME TypeOK, Locking, begin_shutdown PROVE T!Stop
  <1>u. UNCHANGED <<lock, pc, answer>> /\ closing' = TRUE
    BY DEF begin_shutdown, untouched
  <1>a. \A u \in Turn : At(u)' = At(u) BY <1>u DEF At
  <1>h. \A u \in Turn : How(u)' = How(u) BY <1>a, <1>u DEF How
  <1>f. flags \in [Turn -> TurnFlags] BY DEF TypeOK
  <1>1. CASE live # Nobody /\ ~flags[live].done
    <2>l. PICK y \in Turn : y = live BY <1>1 DEF TypeOK
    <2>2. flags' = [flags EXCEPT ![y].shutdown = TRUE]
      BY <1>1, <2>l DEF begin_shutdown
    <2> DEFINE All == [u \in Turn |-> Seen(u)]
               yes == TRUE
               is == flags'[y].shutdown \/ flags'[y].stalled
               was == flags[y].shutdown \/ flags[y].stalled
               r == [at |-> At(y), aborted |-> flags[y].aborted, named |-> yes,
                     how |-> How(y), told |-> answer[y].kind]
    <2>s. All[y] = [at |-> At(y), aborted |-> flags[y].aborted, named |-> was,
                    how |-> How(y), told |-> answer[y].kind]
      BY DEF Seen
    <2>f. flags'[y].aborted = flags[y].aborted /\ is = yes
      BY <1>f, <2>2 DEF TurnFlags
    <2>t. Seen(y)' = [at |-> At(y)', aborted |-> flags'[y].aborted, named |-> is,
                      how |-> How(y)', told |-> answer'[y].kind]
      BY DEF Seen
    <2>4. \A u \in Turn \ {y} : Seen(u)' = Seen(u)
      BY <1>f, <1>a, <1>u, <2>2, SeenSame
    <2> HIDE DEF yes, is, was
    <2>3. Seen(y)' = r BY <1>a, <1>h, <1>u, <2>f, <2>t
    <2>5. r = [All[y] EXCEPT !.named = yes] BY <2>s
    <2>6. T!Becomes(y, [All[y] EXCEPT !.named = yes])
      BY <2>3, <2>4, <2>5, SeenBecomes
    <2>7. pc[y] \in Holding BY <2>l, PCs DEF Locking, Live
    <2>8. All[y].at = "running" BY <2>7 DEF Seen, At, Holding, Window
    <2> QED BY <1>u, <2>6, <2>8 DEF T!Stop, yes
  <1>2. CASE ~(live # Nobody /\ ~flags[live].done)
    <2>1. flags' = flags BY <1>2 DEF begin_shutdown
    <2>2. \A u \in Turn : Seen(u)' = Seen(u) BY <1>a, <1>u, <2>1, SeenSame
    <2> QED BY <1>u, <2>2 DEF T!Stop
  <1> QED BY <1>1, <1>2

\* Whatever leaves the turns' places, flags and answers alone is unseen.
LEMMA Unseen ==
  ASSUME UNCHANGED <<pc, flags, answer>> PROVE \A u \in Turn : Seen(u)' = Seen(u)
  <1>1. \A u \in Turn : At(u)' = At(u) BY DEF At
  <1> QED BY <1>1, SeenSame

\* The main thread stops the service and borrows the engine to close it.
LEMMA MainKept ==
  ASSUME TypeOK, Locking, MainStep PROVE Kept
  <1>1. CASE begin_shutdown BY <1>1, MarkStops DEF Kept, T!TurnsNext
  <1>2. CASE ShutdownAbort
    BY <1>2, AbortAborts DEF ShutdownAbort, untouched
  <1>3. CASE CloseMark
    <2>1. UNCHANGED <<pc, flags, answer, lock>> /\ closing' = TRUE
      BY <1>3 DEF CloseMark, untouched
    <2>2. \A u \in Turn : Seen(u)' = Seen(u) BY <2>1, Unseen
    <2> QED BY <2>1, <2>2 DEF Kept, T!TurnsNext, T!Stop
  <1>4. ASSUME quiet' = quiet PROVE UNCHANGED closing /\ \A u \in Turn : Seen(u)' = Seen(u)
    BY <1>4, Unseen DEF quiet, client
  <1>5. CASE CloseAcquire
    <2>1. /\ quiet' = quiet /\ lock = Nobody /\ lock' = Main
      BY <1>5 DEF CloseAcquire
    <2>2. T!Borrow(Main) BY <1>4, <2>1 DEF T!Borrow
    <2> QED BY <2>2 DEF Kept, T!TurnsNext
  <1>6. CASE CloseFree
    <2>1. quiet' = quiet /\ lock = Main /\ lock' = Nobody
      BY <1>6 DEF CloseFree, Locking, MainHolds
    <2>2. T!Return(Main) BY <1>4, <2>1 DEF T!Return
    <2> QED BY <2>2 DEF Kept, T!TurnsNext
  <1>7. CASE CloseTimeout \/ CloseNull \/ Exit
    <2>1. quiet' = quiet /\ lock' = lock BY <1>7 DEF CloseTimeout, CloseNull, Exit
    <2> QED BY <1>4, <2>1, SeenStutter DEF Kept
  <1> QED BY <1>1, <1>2, <1>3, <1>5, <1>6, <1>7 DEF MainStep

\* So do count_tokens, the watchdog and the driver keep the promises.
LEMMA OthersKept ==
  ASSUME TypeOK, Locking, SignalReturns \/ count_tokens \/ CountReturns \/ Outside
  PROVE  Kept
  <1>1. CASE SignalReturns \/ NoteStall \/ Tick
    <2>1. UNCHANGED <<pc, flags, answer, lock, closing>>
      BY <1>1 DEF SignalReturns, NoteStall, Tick, clockless, client
    <2> QED BY <2>1, Unseen, SeenStutter DEF Kept
  <1>2. CASE count_tokens
    <2>1. UNCHANGED <<pc, flags, answer, closing>> /\ lock = Nobody /\ lock' = Counter
      BY <1>2 DEF count_tokens, client
    <2>2. T!Borrow(Counter) BY <2>1, Unseen DEF T!Borrow
    <2> QED BY <2>2 DEF Kept, T!TurnsNext
  <1>3. CASE CountReturns
    <2>1. UNCHANGED <<pc, flags, answer, closing>> /\ lock = Counter /\ lock' = Nobody
      BY <1>3 DEF CountReturns, client
    <2>2. T!Return(Counter) BY <2>1, Unseen DEF T!Return
    <2> QED BY <2>2 DEF Kept, T!TurnsNext
  <1>4. CASE WatchdogAbort
    BY <1>4, AbortAborts DEF WatchdogAbort, untouched
  <1> QED BY <1>1, <1>2, <1>3, <1>4 DEF Outside

\* Every step keeps them.
LEMMA KeptStep ==
  TypeOK /\ Locking /\ Cutting /\ Telling /\ RefusedLate /\ [Next]_vars => Kept
  <1> SUFFICES ASSUME TypeOK, Locking, Cutting, Telling, RefusedLate, [Next]_vars
               PROVE  Kept
    OBVIOUS
  <1>1. ASSUME NEW t \in Turn, Admit(t) PROVE Kept
    BY <1>1, AdmitTakes DEF Kept, T!TurnsNext
  <1>2. ASSUME NEW t \in Turn, Worker(t) \/ Native(t) PROVE Kept
    <2>1. CASE Refuse(t) BY <2>1, RefuseRefuses DEF Kept, T!TurnsNext
    <2>2. CASE Release(t) BY <2>2, ReleaseGives DEF Kept, T!TurnsNext
    <2>3. CASE Report(t) BY <2>3, ReportTells DEF Kept, T!TurnsNext
    <2>4. CASE ~Refuse(t) /\ ~Release(t) /\ ~Report(t)
      BY <1>2, <2>4, WindowUnseen DEF Kept
    <2> QED BY <2>1, <2>2, <2>3, <2>4
  <1>3. ASSUME NEW t \in Turn, Consumer(t) PROVE Kept
    BY <1>3, AbortAborts DEF Consumer, Lost, Close, untouched
  <1>4. CASE UNCHANGED vars
    <2>1. UNCHANGED <<pc, flags, answer, lock, closing>> BY <1>4 DEF vars, client
    <2> QED BY <2>1, Unseen, SeenStutter DEF Kept
  <1> QED BY <1>1, <1>2, <1>3, <1>4, MainKept, OthersKept DEF Next, Inside, Rest

-----------------------------------------------------------------------------
\* The engine starts with every turn waiting, and nothing promised broken.
LEMMA KeptInit == Init => T!TurnsInit
  <1> SUFFICES ASSUME Init PROVE T!TurnsInit
    OBVIOUS
  <1>1. ASSUME NEW t \in Turn PROVE Seen(t) = T!Queued
    <2>1. pc[t] = "queued" /\ flags[t] = NewTurn /\ answer[t] = NoAnswer
      BY DEF Init
    <2>2. At(t) = "queued" BY <2>1 DEF At, Holding, Window
    <2>3. How(t) = "none" BY <2>2 DEF How
    <2> DEFINE was == flags[t].shutdown \/ flags[t].stalled
               no == FALSE
    <2>4. flags[t].aborted = no /\ was = no /\ answer[t].kind = "none"
      BY <2>1 DEF NewTurn, NoAnswer
    <2>5. Seen(t) = [at |-> At(t), aborted |-> flags[t].aborted, named |-> was,
                     how |-> How(t), told |-> answer[t].kind]
      BY DEF Seen
    <2> HIDE DEF was, no
    <2>6. Seen(t) = [at |-> "queued", aborted |-> no, named |-> no,
                     how |-> "none", told |-> "none"]
      BY <2>2, <2>3, <2>4, <2>5
    <2>7. [[at |-> "idle", aborted |-> no, named |-> no, how |-> "none",
            told |-> "none"] EXCEPT !.at = "queued"]
            = [at |-> "queued", aborted |-> no, named |-> no, how |-> "none",
               told |-> "none"]
      OBVIOUS
    <2> QED BY <2>6, <2>7 DEF T!Queued, T!Unasked, no
  <1> QED BY <1>1 DEF T!TurnsInit, Init

\* The engine implements Turns, where the driver ignores an ABORT outside a
\* query: whatever it does, a caller sees one holder at a time, turns that end
\* in one of four ways and are told once, and no cut that was not asked for.
THEOREM ServiceIsKept ==
  ASSUME ~SignalSticks PROVE Spec => ServiceKept
  <1>1. Spec => []Closing
    BY TypeInvariant, LockInvariant, ClosingInit, ClosingStep, PTL DEF Spec
  <1>2. Spec => []Marked
    <2>1. Asking => Marked BY DEF Asking
    <2> QED BY <2>1, AskingInvariant, PTL
  <1>3. Spec => []RefusedLate
    BY <1>1, <1>2, TypeInvariant, LockInvariant, RefusedLateInit, RefusedLateStep,
      PTL DEF Spec
  <1>4. TypeOK /\ Locking /\ Cutting /\ Telling /\ RefusedLate /\ [Next]_vars
        => [T!TurnsNext]_(T!service)
    BY KeptStep DEF Kept
  <1>5. Spec => [][T!TurnsNext]_(T!service)
    BY <1>3, <1>4, TypeInvariant, LockInvariant, CuttingInvariant,
      TellingInvariant, PTL DEF Spec
  <1>6. Spec => T!TurnsInit BY KeptInit DEF Spec
  <1> QED BY <1>5, <1>6 DEF ServiceKept, T!TurnsSpec

-----------------------------------------------------------------------------
(***************************************************************************)
(* The watchdog.                                                           *)
(***************************************************************************)
Reading == now \in 0 .. MaxAge

\* At the start it has read nothing.
LEMMA ReadingInit == DogInit => Reading
  BY HealthAssumption DEF DogInit, Reading

\* The clock reading the watchdog acts on is reset on waking and ages no
\* further than the bound.
LEMMA ReadingStep == Reading /\ [SupervisedNext]_svars => Reading'
  <1> SUFFICES ASSUME Reading, [SupervisedNext]_svars PROVE Reading'
    OBVIOUS
  <1>1. 0 \in 0 .. MaxAge /\ Older(now) \in 0 .. MaxAge
    BY HealthAssumption DEF Reading, Older, Unset
  <1> QED
    BY <1>1 DEF Reading, SupervisedNext, watchdog, Wake, Bark, Note,
      _exit_for_supervisor, Pass, svars

\* A step of the supervised engine is a step of the engine, or the watchdog's.
LEMMA SupervisedStep == Reading /\ [SupervisedNext]_svars => [Next]_vars
  <1> SUFFICES ASSUME Reading, [SupervisedNext]_svars PROVE [Next]_vars
    OBVIOUS
  <1>1. CASE ~Exited /\ Inside
    BY <1>1 DEF Exited, Next
  <1>2. CASE ~Exited /\ Bark
    BY <1>2 DEF Exited, Bark, Next, Outside
  <1>3. CASE ~Exited /\ Note
    <2>1. NoteStall BY <1>3 DEF Note, NoteStall, Reading
    <2> QED BY <1>3, <2>1 DEF Exited, Next, Outside
  <1>4. CASE ~Exited /\ Pass
    BY <1>4 DEF Exited, Pass, Next, Outside
  <1>5. CASE Wake \/ _exit_for_supervisor
    BY <1>5 DEF Wake, _exit_for_supervisor
  <1>6. CASE UNCHANGED svars
    BY <1>6 DEF svars
  <1> QED BY <1>1, <1>2, <1>3, <1>4, <1>5, <1>6 DEF SupervisedNext, watchdog

\* The engine under its watchdog is the engine: every theorem about Spec is one
\* about Supervised.
THEOREM SupervisedIsEngine == Supervised => Spec
  <1>1. Supervised => []Reading
    BY ReadingInit, ReadingStep, PTL DEF Supervised
  <1>2. Supervised => [][Next]_vars
    BY <1>1, SupervisedStep, PTL DEF Supervised
  <1> QED BY <1>2 DEF Supervised, Spec
=============================================================================
