----------------------------- MODULE PacerProofs -----------------------------
(***************************************************************************)
(* Machine-checked facts about the pacer, for every number of workers and  *)
(* slots, every flood wait and every bound on the clock: its types, the    *)
(* balance of its slots, and that a flood pause is neither cut short nor   *)
(* left without the timer that lifts it.                                   *)
(***************************************************************************)
EXTENDS Pacer, FiniteSetTheorems, TLAPS

\* The timers that still exist: at most one per generation, none newer than
\* the current one, which carries the deadline in force; a callback started
\* no earlier than it was due; a deadline in force has a timer.
TimersInv ==
    /\ \A t \in timers : t.gen <= floodGen
    /\ \A s, t \in timers : s.gen = t.gen => s = t
    /\ \A t \in timers : t.gen = floodGen => t.at = floodUntil
    /\ \A t \in timers : t.fired => t.at <= now
    /\ floodUntil # 0 => \E t \in timers : t.gen = floodGen

\* The deadline in force never exceeds what was reported.
PauseInv ==
    /\ floodUntil <= owed
    /\ PauseOutlasts

IInv == TypeOK /\ SlotsBalance /\ TimersInv /\ PauseInv /\ NoLostWakeup

-----------------------------------------------------------------------------
(* Slots *)

LEMMA InAttemptFinite ==
    ASSUME PacerAssumption
    PROVE  IsFiniteSet(InAttempt) /\ Cardinality(InAttempt) \in Nat
<1>1. InAttempt \subseteq Workers
  BY DEF InAttempt
<1> QED BY <1>1, FS_Subset, FS_CardinalityType DEF PacerAssumption

\* A worker in an attempt holds a token, so a release never underflows.
LEMMA HolderHasToken ==
    ASSUME PacerAssumption, TypeOK, SlotsBalance, NEW w \in InAttempt
    PROVE  tokens \in 1..Slots
<1>1. Cardinality(InAttempt) # 0
  BY InAttemptFinite, FS_EmptySet
<1> QED BY <1>1 DEF SlotsBalance, TypeOK, PacerAssumption

LEMMA Entering ==
    ASSUME PacerAssumption, TypeOK, SlotsBalance, NEW w \in Workers,
           w \notin InAttempt, InAttempt' = InAttempt \cup {w}, tokens' = tokens + 1
    PROVE  SlotsBalance'
<1>1. Cardinality(InAttempt \cup {w}) = Cardinality(InAttempt) + 1
  BY InAttemptFinite, FS_AddElement
<1> QED BY <1>1 DEF SlotsBalance

LEMMA Leaving ==
    ASSUME PacerAssumption, TypeOK, SlotsBalance, NEW w \in InAttempt,
           InAttempt' = InAttempt \ {w}, tokens' = tokens - 1
    PROVE  SlotsBalance'
<1>1. Cardinality(InAttempt \ {w}) = Cardinality(InAttempt) - 1
  BY InAttemptFinite, FS_RemoveElement
<1> QED BY <1>1 DEF SlotsBalance

LEMMA Staying ==
    ASSUME SlotsBalance, InAttempt' = InAttempt, tokens' = tokens
    PROVE  SlotsBalance'
BY DEF SlotsBalance

\* Release on the way out of an attempt or of the ladder's own Wait.
LEMMA ReleaseStep ==
    ASSUME PacerAssumption, TypeOK, SlotsBalance, NEW w \in Workers,
           pc[w] \in {"check", "blocked", "jitter", "fetch"},
           NEW point \in {"idle", "failed", "out"}, Goto(w, point),
           Release(w), UNCHANGED ladder
    PROVE  SlotsBalance' /\ tokens' \in 0..Slots
<1>1. CASE ladder[w] = "attempt"
  <2>1. w \in InAttempt
    BY <1>1 DEF InAttempt
  <2>2. InAttempt' = InAttempt \ {w}
    BY DEF InAttempt, Goto, TypeOK
  <2>3. tokens' = tokens - 1
    BY <1>1 DEF Release
  <2> QED BY <2>1, <2>2, <2>3, Leaving, HolderHasToken DEF PacerAssumption
<1>2. CASE ladder[w] # "attempt"
  <2>1. InAttempt' = InAttempt
    BY <1>2 DEF InAttempt, Goto, TypeOK
  <2>2. tokens' = tokens
    BY <1>2 DEF Release
  <2> QED BY <2>1, <2>2, Staying DEF TypeOK
<1> QED BY <1>1, <1>2

-----------------------------------------------------------------------------
(* The pause *)

\* A step that touches neither clock nor pause keeps what is known of them.
LEMMA PauseKept ==
    ASSUME TimersInv, PauseInv, UNCHANGED <<now, pauseVars, owed>>
    PROVE  TimersInv' /\ PauseInv'
BY DEF TimersInv, PauseInv, PauseOutlasts, pauseVars

\* No worker newly blocks, no timer goes.
LEMMA WaitersKept ==
    ASSUME NoLostWakeup, UNCHANGED <<pauseVars, seen>>, TypeOK, NEW w \in Workers,
           NEW point \in Point \ {"blocked"}, Goto(w, point)
    PROVE  NoLostWakeup'
BY DEF NoLostWakeup, pauseVars, Goto, TypeOK

LEMMA GotoType ==
    ASSUME TypeOK, NEW w \in Workers, NEW point \in Point, Goto(w, point)
    PROVE  pc' \in [Workers -> Point]
BY DEF Goto, TypeOK

\* A new deadline: the timers left over are older, the new one carries it.
LEMMA StartPauseStep ==
    ASSUME PacerAssumption, IInv, NEW deadline \in Nat, deadline > now,
           deadline > floodUntil, deadline <= MaxTime, StartPause(deadline),
           UNCHANGED now, owed' = IF deadline > owed THEN deadline ELSE owed
    PROVE  /\ timers' \subseteq TimerType
           /\ floodGen' \in Nat /\ floodUntil' \in 0..MaxTime
           /\ TimersInv' /\ PauseInv'
           /\ \E t \in timers' : t.gen = floodGen'
<1> DEFINE new == Timer(floodGen + 1, deadline)
<1>1. floodGen \in Nat /\ timers \subseteq TimerType /\ floodUntil \in Nat /\ owed \in Nat
      /\ now \in Nat
  BY DEF IInv, TypeOK, PacerAssumption
<1>2. new \in TimerType /\ new.gen = floodGen + 1 /\ new.at = deadline /\ ~new.fired
  BY <1>1 DEF Timer, TimerType
<1>3. timers' = Stopped \cup {new} /\ floodGen' = floodGen + 1 /\ floodUntil' = deadline
  BY DEF StartPause
<1>4. \A t \in Stopped : t \in timers /\ t.gen \in Nat /\ t.gen <= floodGen
  BY <1>1 DEF Stopped, TimerType, IInv, TimersInv
<1>5. \A t \in timers' : t.gen <= floodGen' /\ (t.gen = floodGen' => t = new)
  <2> HIDE DEF new
  <2> QED BY <1>1, <1>2, <1>3, <1>4
<1>6. TimersInv'
  <2>1. \A s, t \in timers' : s.gen = t.gen => s = t
    <3> HIDE DEF new
    <3> QED BY <1>1, <1>2, <1>3, <1>4 DEF IInv, TimersInv
  <2>2. \A t \in timers' : t.fired => t.at <= now'
    <3> HIDE DEF new
    <3> QED BY <1>2, <1>3, <1>4 DEF IInv, TimersInv
  <2>3. new \in timers'
    BY <1>3
  <2> HIDE DEF new
  <2> QED BY <1>2, <1>3, <1>5, <2>1, <2>2, <2>3 DEF TimersInv
<1>7. PauseInv'
  BY <1>1, <1>3 DEF IInv, PauseInv, PauseOutlasts
<1>8. new \in timers'
  BY <1>3
<1> HIDE DEF new
<1> QED BY <1>1, <1>2, <1>3, <1>4, <1>6, <1>7, <1>8 DEF PacerAssumption

\* A reported wait, whether or not it moves the deadline.
LEMMA ReportStep ==
    ASSUME PacerAssumption, IInv, NEW w \in Workers, NEW seconds \in Waits,
           ReportFlood(w, seconds)
    PROVE  IInv'
<1>1. /\ now \in Nat /\ seconds \in Nat /\ owed \in Nat /\ floodUntil \in Nat
      /\ now + seconds \in Nat /\ now + seconds <= MaxTime
      /\ UNCHANGED <<now, tokens, seen>>
      /\ owed' = IF now + seconds > owed THEN now + seconds ELSE owed
  BY DEF ReportFlood, IInv, TypeOK, PacerAssumption
<1>2. PICK point \in {"check", "out"} : Goto(w, point)
  BY DEF ReportFlood
<1>3. InAttempt' = InAttempt /\ ladder' \in [Workers -> {"attempt", "backoff"}]
  BY DEF ReportFlood, IInv, TypeOK, InAttempt, Goto
<1>4. pc' \in [Workers -> Point]
  BY <1>2, GotoType DEF IInv, Point
<1>5. SlotsBalance'
  BY <1>1, <1>3, Staying DEF IInv
<1>6. cancelled' \in BOOLEAN /\ owed' \in 0..MaxTime
  <2>1. cancelled' \in BOOLEAN
    BY DEF ReportFlood, IInv, TypeOK
  <2>2. owed \in 0..MaxTime
    BY DEF IInv, TypeOK
  <2>3. owed' \in 0..MaxTime
    BY <1>1, <2>2
  <2> QED BY <2>1, <2>3
<1>7. CASE StartPause(now + seconds) /\ seconds # 0 /\ now + seconds > floodUntil
  <2>1. /\ timers' \subseteq TimerType
        /\ floodGen' \in Nat /\ floodUntil' \in 0..MaxTime
        /\ TimersInv' /\ PauseInv'
        /\ \E t \in timers' : t.gen = floodGen'
    BY <1>1, <1>7, StartPauseStep
  <2>2. wake' = wake
    BY <1>7 DEF StartPause
  <2>3. TypeOK'
    BY <1>1, <1>3, <1>4, <1>6, <2>1, <2>2 DEF IInv, TypeOK
  <2>4. NoLostWakeup'
    BY <2>1 DEF NoLostWakeup
  <2> QED BY <1>5, <2>1, <2>3, <2>4 DEF IInv
<1>8. CASE UNCHANGED pauseVars /\ (seconds = 0 \/ now + seconds <= floodUntil)
  <2>1. TimersInv'
    BY <1>1, <1>8 DEF IInv, TimersInv, pauseVars
  <2>2. PauseInv'
    BY <1>1, <1>8 DEF IInv, PauseInv, PauseOutlasts, pauseVars
  <2>3. NoLostWakeup'
    BY <1>1, <1>2, <1>8, WaitersKept DEF IInv, Point
  <2>4. TypeOK'
    BY <1>1, <1>3, <1>4, <1>6, <1>8 DEF IInv, TypeOK, pauseVars
  <2> QED BY <1>5, <2>1, <2>2, <2>3, <2>4 DEF IInv
<1>9. \/ StartPause(now + seconds) /\ seconds # 0 /\ now + seconds > floodUntil
      \/ UNCHANGED pauseVars /\ (seconds = 0 \/ now + seconds <= floodUntil)
  BY <1>1 DEF ReportFlood, setDeadlineLocked
<1> QED BY <1>7, <1>8, <1>9

-----------------------------------------------------------------------------
(* Every step *)

\* The steps of a worker inside Wait and around the semaphore leave the
\* pause alone; what differs is whether a slot changes hands and whether the
\* worker blocks.
LEMMA WorkerStep ==
    ASSUME PacerAssumption, IInv, NEW w \in Workers,
           Acquire(w) \/ Quit(w) \/ InWait(w) \/ FetchEnds(w) \/ OtherError(w)
    PROVE  IInv'
<1>1. UNCHANGED <<now, pauseVars, cancelled, owed>>
  BY DEF Acquire, Quit, InWait, CheckFlood, WakeUp, JitterEnds, WaitCancelled, FetchEnds,
         OtherError
<1>2. TimersInv' /\ PauseInv'
  BY <1>1, PauseKept DEF IInv
<1>types. /\ pc \in [Workers -> Point]
          /\ ladder \in [Workers -> {"attempt", "backoff"}]
          /\ seen \in [Workers -> 0..wake]
          /\ tokens \in 0..Slots
          /\ wake \in Nat
          /\ wake' = wake
  BY <1>1 DEF IInv, TypeOK, pauseVars
<1>enough. ASSUME tokens' \in 0..Slots, SlotsBalance',
                  pc' \in [Workers -> Point],
                  ladder' \in [Workers -> {"attempt", "backoff"}],
                  seen' \in [Workers -> 0..wake],
                  NoLostWakeup'
           PROVE  IInv'
  <2>1. TypeOK'
    BY <1>1, <1>types, <1>enough DEF IInv, TypeOK, pauseVars
  <2> QED BY <1>2, <1>enough, <2>1 DEF IInv
<1>3. CASE Acquire(w)
  <2>1. Goto(w, "check") /\ pc[w] = "idle" /\ tokens < Slots /\ tokens' = tokens + 1
        /\ ladder' = [ladder EXCEPT ![w] = "attempt"] /\ seen' = seen
    BY <1>3 DEF Acquire
  <2>2. w \notin InAttempt /\ InAttempt' = InAttempt \cup {w}
    BY <1>types, <2>1 DEF InAttempt, Goto
  <2>3. SlotsBalance'
    BY <2>1, <2>2, Entering DEF IInv
  <2>4. NoLostWakeup'
    BY <1>1, <2>1, WaitersKept DEF IInv, Point
  <2>5. pc' \in [Workers -> Point]
    BY <2>1, GotoType DEF IInv, Point
  <2>6. tokens' \in 0..Slots
    BY <1>types, <2>1 DEF PacerAssumption
  <2> QED BY <1>enough, <1>types, <2>1, <2>3, <2>4, <2>5, <2>6
<1>4. CASE Quit(w)
  <2>1. Goto(w, "out") /\ pc[w] = "idle" /\ tokens' = tokens /\ ladder' = ladder /\ seen' = seen
    BY <1>4 DEF Quit
  <2>2. InAttempt' = InAttempt
    BY <1>types, <2>1 DEF InAttempt, Goto
  <2>3. SlotsBalance'
    BY <2>1, <2>2, Staying DEF IInv
  <2>4. NoLostWakeup'
    BY <1>1, <2>1, WaitersKept DEF IInv, Point
  <2>5. pc' \in [Workers -> Point]
    BY <2>1, GotoType DEF IInv, Point
  <2> QED BY <1>enough, <1>types, <2>1, <2>3, <2>4, <2>5
<1>5. CASE CheckFlood(w)
  <2>1. tokens' = tokens /\ ladder' = ladder /\ pc[w] = "check"
    BY <1>5 DEF CheckFlood
  <2>2. InAttempt' = InAttempt /\ pc' \in [Workers -> Point]
    BY <1>5, <1>types DEF CheckFlood, InAttempt, Goto, Point
  <2>3. SlotsBalance'
    BY <2>1, <2>2, Staying DEF IInv
  <2>4. CASE floodUntil > now
    <3>1. Goto(w, "blocked") /\ seen' = [seen EXCEPT ![w] = wake]
      BY <1>5, <2>4 DEF CheckFlood
    <3>2. \E t \in timers : t.gen = floodGen
      BY <2>4 DEF IInv, TypeOK, TimersInv
    <3>3. NoLostWakeup'
      BY <1>1, <3>2 DEF NoLostWakeup, pauseVars
    <3>4. seen' \in [Workers -> 0..wake]
      BY <1>types, <3>1
    <3> QED BY <1>enough, <1>types, <2>1, <2>2, <2>3, <3>3, <3>4
  <2>5. CASE ~(floodUntil > now)
    <3>1. Goto(w, "jitter") /\ seen' = seen
      BY <1>5, <2>5 DEF CheckFlood
    <3>2. NoLostWakeup'
      BY <1>1, <3>1, WaitersKept DEF IInv, Point
    <3> QED BY <1>enough, <1>types, <2>1, <2>2, <2>3, <3>1, <3>2
  <2> QED BY <2>4, <2>5
<1>6. CASE WakeUp(w)
  <2>1. Goto(w, "check") /\ pc[w] = "blocked" /\ tokens' = tokens /\ ladder' = ladder
        /\ seen' = seen
    BY <1>6 DEF WakeUp
  <2>2. InAttempt' = InAttempt
    BY <1>types, <2>1 DEF InAttempt, Goto
  <2>3. SlotsBalance'
    BY <2>1, <2>2, Staying DEF IInv
  <2>4. NoLostWakeup'
    BY <1>1, <2>1, WaitersKept DEF IInv, Point
  <2>5. pc' \in [Workers -> Point]
    BY <2>1, GotoType DEF IInv, Point
  <2> QED BY <1>enough, <1>types, <2>1, <2>3, <2>4, <2>5
<1>7. CASE JitterEnds(w)
  <2>1. tokens' = tokens /\ ladder' = ladder /\ seen' = seen /\ pc[w] = "jitter"
    BY <1>7 DEF JitterEnds
  <2>2. PICK point \in {"fetch", "idle"} :
            /\ Goto(w, point)
            /\ point = IF ladder[w] = "attempt" THEN "fetch" ELSE "idle"
    BY <1>7 DEF JitterEnds
  <2>3. InAttempt' = InAttempt
    BY <1>types, <2>1, <2>2 DEF InAttempt, Goto
  <2>4. SlotsBalance'
    BY <2>1, <2>3, Staying DEF IInv
  <2>5. NoLostWakeup'
    BY <1>1, <2>1, <2>2, WaitersKept DEF IInv, Point
  <2>6. pc' \in [Workers -> Point]
    BY <2>2, GotoType DEF IInv, Point
  <2> QED BY <1>enough, <1>types, <2>1, <2>4, <2>5, <2>6
<1>8. CASE WaitCancelled(w) \/ FetchEnds(w)
  <2>1. /\ ladder' = ladder /\ seen' = seen /\ Release(w)
        /\ pc[w] \in {"check", "blocked", "jitter", "fetch"}
    BY <1>8 DEF WaitCancelled, FetchEnds
  <2>2. PICK point \in {"idle", "failed", "out"} : Goto(w, point)
    BY <1>8 DEF WaitCancelled, FetchEnds
  <2>3. SlotsBalance' /\ tokens' \in 0..Slots
    BY <2>1, <2>2, ReleaseStep DEF IInv
  <2>4. NoLostWakeup'
    BY <1>1, <2>1, <2>2, WaitersKept DEF IInv, Point
  <2>5. pc' \in [Workers -> Point]
    BY <2>2, GotoType DEF IInv, Point
  <2> QED BY <1>enough, <1>types, <2>1, <2>3, <2>4, <2>5
<1>9. CASE OtherError(w)
  <2>1. Goto(w, "check") /\ pc[w] = "failed" /\ tokens' = tokens /\ seen' = seen
        /\ ladder' = [ladder EXCEPT ![w] = "backoff"]
    BY <1>9 DEF OtherError
  <2>2. InAttempt' = InAttempt
    BY <1>types, <2>1 DEF InAttempt, Goto
  <2>3. SlotsBalance'
    BY <2>1, <2>2, Staying DEF IInv
  <2>4. NoLostWakeup'
    BY <1>1, <2>1, WaitersKept DEF IInv, Point
  <2>5. pc' \in [Workers -> Point]
    BY <2>1, GotoType DEF IInv, Point
  <2> QED BY <1>enough, <1>types, <2>1, <2>3, <2>4, <2>5
<1> QED BY <1>3, <1>4, <1>5, <1>6, <1>7, <1>8, <1>9 DEF InWait

LEMMA TimerStep ==
    ASSUME PacerAssumption, IInv, NEW t \in timers, TimerFires(t) \/ TimerRuns(t)
    PROVE  IInv'
<1>1. /\ UNCHANGED <<now, floodGen, tokens, workerVars, cancelled, owed>>
      /\ timers \subseteq TimerType
      /\ wake \in Nat /\ now \in Nat /\ owed \in Nat /\ floodUntil \in Nat
  BY DEF TimerFires, TimerRuns, IInv, TypeOK
<1>2. SlotsBalance'
  BY <1>1 DEF IInv, SlotsBalance, InAttempt, workerVars
<1>3. CASE TimerFires(t)
  <2> DEFINE started == [t EXCEPT !.fired = TRUE]
  <2>1. started \in TimerType /\ started.gen = t.gen /\ started.at = t.at /\ started.fired
    BY <1>1 DEF TimerType
  <2>2. timers' = (timers \ {t}) \cup {started} /\ UNCHANGED <<floodUntil, wake>> /\ t.at <= now
    BY <1>3 DEF TimerFires
  <2> HIDE DEF started
  <2>3. TimersInv'
    BY <1>1, <2>1, <2>2 DEF IInv, TimersInv
  <2>4. PauseInv'
    BY <1>1, <2>2 DEF IInv, PauseInv, PauseOutlasts
  <2>5. NoLostWakeup'
    BY <1>1, <2>1, <2>2 DEF IInv, NoLostWakeup, workerVars
  <2>6. TypeOK'
    BY <1>1, <2>1, <2>2 DEF IInv, TypeOK, workerVars
  <2> QED BY <1>2, <2>3, <2>4, <2>5, <2>6 DEF IInv
<1>4. CASE TimerRuns(t) /\ t.gen = floodGen
  <2>1. timers' = timers \ {t} /\ floodUntil' = 0 /\ wake' = wake + 1 /\ t.fired
    BY <1>4 DEF TimerRuns, LiftPause
  <2>2. t.at <= now /\ t.at = floodUntil
    BY <1>4, <2>1 DEF IInv, TimersInv
  <2>3. TimersInv'
    BY <1>1, <1>4, <2>1 DEF IInv, TimersInv
  <2>4. PauseInv'
    BY <1>1, <2>1, <2>2 DEF IInv, PauseInv, PauseOutlasts
  <2>5. \A v \in Workers : seen[v] \in 0..wake
    BY DEF IInv, TypeOK
  <2>6. NoLostWakeup'
    BY <1>1, <2>1, <2>5 DEF NoLostWakeup, workerVars
  <2>7. seen' \in [Workers -> 0..wake']
    BY <1>1, <2>1 DEF IInv, TypeOK, workerVars
  <2>8. TypeOK'
    BY <1>1, <2>1, <2>7 DEF IInv, TypeOK, workerVars, PacerAssumption
  <2> QED BY <1>2, <2>3, <2>4, <2>6, <2>8 DEF IInv
<1>5. CASE TimerRuns(t) /\ t.gen # floodGen
  <2>1. timers' = timers \ {t} /\ UNCHANGED <<floodUntil, wake>>
    BY <1>5 DEF TimerRuns
  <2>2. TimersInv'
    BY <1>1, <1>5, <2>1 DEF IInv, TimersInv
  <2>3. PauseInv'
    BY <1>1, <2>1 DEF IInv, PauseInv, PauseOutlasts
  <2>4. NoLostWakeup'
    BY <1>1, <1>5, <2>1 DEF IInv, NoLostWakeup, workerVars
  <2>5. TypeOK'
    BY <1>1, <2>1 DEF IInv, TypeOK, workerVars
  <2> QED BY <1>2, <2>2, <2>3, <2>4, <2>5 DEF IInv
<1> QED BY <1>3, <1>4, <1>5

\* Time passing brings deadlines closer, and never moves one.
LEMMA TickStep ==
    ASSUME PacerAssumption, IInv, Tick
    PROVE  IInv'
<1>1. /\ now' = now + 1 /\ now < MaxTime
      /\ UNCHANGED <<pauseVars, tokens, workerVars, cancelled, owed>>
      /\ now \in Nat /\ owed \in Nat /\ floodUntil \in Nat /\ timers \subseteq TimerType
  BY DEF Tick, IInv, TypeOK
<1>2. SlotsBalance' /\ NoLostWakeup'
  BY <1>1 DEF IInv, SlotsBalance, InAttempt, NoLostWakeup, workerVars, pauseVars
<1>3. TimersInv'
  <2>1. \A t \in timers : t.fired => t.at <= now + 1
    BY <1>1 DEF IInv, TimersInv, TimerType
  <2> QED BY <1>1, <2>1 DEF IInv, TimersInv, pauseVars
<1>4. PauseInv'
  BY <1>1 DEF IInv, PauseInv, PauseOutlasts, pauseVars
<1>5. TypeOK'
  BY <1>1 DEF IInv, TypeOK, pauseVars, workerVars, PacerAssumption
<1> QED BY <1>2, <1>3, <1>4, <1>5 DEF IInv

\* Nothing but the context changes, or nothing at all.
LEMMA IdleStep ==
    ASSUME IInv, Cancel \/ UNCHANGED vars
    PROVE  IInv'
<1>1. UNCHANGED <<now, pauseVars, tokens, workerVars, owed>> /\ cancelled' \in BOOLEAN
  BY DEF Cancel, vars, IInv, TypeOK
<1>2. TypeOK'
  BY <1>1 DEF IInv, TypeOK, pauseVars, workerVars
<1>3. SlotsBalance' /\ NoLostWakeup'
  BY <1>1 DEF IInv, SlotsBalance, InAttempt, NoLostWakeup, workerVars, pauseVars
<1>4. TimersInv' /\ PauseInv'
  BY <1>1, PauseKept DEF IInv
<1> QED BY <1>2, <1>3, <1>4 DEF IInv

LEMMA InitStep ==
    ASSUME PacerAssumption, Init
    PROVE  IInv
<1>1. InAttempt = {}
  BY DEF Init, InAttempt
<1>2. SlotsBalance
  BY <1>1, FS_EmptySet DEF Init, SlotsBalance
<1>3. TypeOK
  <2>1. cancelled \in BOOLEAN
    BY DEF Init
  <2>2. 0 \in 0..MaxTime /\ 0 \in 0..Slots
    BY DEF PacerAssumption
  <2>3. /\ pc \in [Workers -> Point]
        /\ ladder \in [Workers -> {"attempt", "backoff"}]
        /\ seen \in [Workers -> 0..wake]
    BY DEF Init, Point
  <2> QED BY <2>1, <2>2, <2>3 DEF Init, TypeOK
<1>4. TimersInv /\ PauseInv /\ NoLostWakeup
  BY DEF Init, TimersInv, PauseInv, PauseOutlasts, NoLostWakeup
<1> QED BY <1>2, <1>3, <1>4 DEF IInv

LEMMA NextStep ==
    ASSUME PacerAssumption, IInv, [Next]_vars
    PROVE  IInv'
<1>1. ASSUME NEW w \in Workers, Step(w)
      PROVE  IInv'
  BY <1>1, WorkerStep, ReportStep DEF Step
<1>2. CASE FireTimer
  BY <1>2, TimerStep DEF FireTimer
<1> QED BY <1>1, <1>2, TickStep, IdleStep DEF Next, AllOut

-----------------------------------------------------------------------------
(* Theorems *)

\* The strengthened invariant holds throughout every run of the pacer.
THEOREM Invariance == Spec => []IInv
<1>1. Init => IInv
  BY PacerAssumption, InitStep
<1>2. IInv /\ [Next]_vars => IInv'
  BY PacerAssumption, NextStep
<1> QED BY <1>1, <1>2, PTL DEF Spec

\* The pacer's fields and the semaphore stay within their types: no release
\* underflows the semaphore, no acquisition overfills it.
THEOREM TypeCorrect == Spec => []TypeOK
BY Invariance, PTL DEF IInv

\* Every slot taken is given back, for any number of workers and slots.
THEOREM SlotsAreBalanced == Spec => []SlotsBalance
BY Invariance, PTL DEF IInv

\* A flood pause lasts until the longest reported wait is over.
THEOREM PausesOutlast == Spec => []PauseOutlasts
<1>1. IInv => PauseOutlasts
  BY DEF IInv, PauseInv
<1> QED BY <1>1, Invariance, PTL

\* Whoever waits for a pause to lift has a timer pending that will lift it.
THEOREM WakeupsAreNotLost == Spec => []NoLostWakeup
BY Invariance, PTL DEF IInv

\* Nobody passes the flood check while a reported wait is running.
THEOREM PausesHold == Spec => PauseHolds
<1>1. ASSUME IInv, [Next]_vars, NEW w \in Workers, pc[w] = "check", pc'[w] = "jitter"
      PROVE  owed <= now
  <2>1. CheckFlood(w)
    <3>1. ASSUME NEW v \in Workers, Step(v)
          PROVE  CheckFlood(w)
      BY <1>1, <3>1 DEF Step, Acquire, Quit, InWait, CheckFlood, WakeUp, JitterEnds,
             WaitCancelled, FetchEnds, ReportFlood, OtherError, Goto, IInv, TypeOK
    <3>2. CASE FireTimer \/ Tick \/ Cancel \/ AllOut \/ UNCHANGED vars
      BY <1>1, <3>2 DEF FireTimer, TimerFires, TimerRuns, Tick, Cancel, AllOut, vars, workerVars
    <3> QED BY <1>1, <3>1, <3>2 DEF Next
  <2>2. floodUntil <= now
    BY <1>1, <2>1 DEF CheckFlood, Goto, IInv, TypeOK
  <2> QED BY <1>1, <2>2 DEF IInv, TypeOK, PauseInv, PauseOutlasts
<1>2. IInv /\ [Next]_vars =>
        [\A w \in Workers : pc[w] = "check" /\ pc'[w] = "jitter" => owed <= now]_vars
  BY <1>1
<1> QED BY <1>2, Invariance, PTL DEF Spec, PauseHolds
=============================================================================
