-------------------------------- MODULE Pacer --------------------------------
(***************************************************************************)
(* The account-wide pacer (src/internal/pace/pace.go) and the download     *)
(* workers that share it: a counting semaphore over the transfers in       *)
(* flight and one flood pause, whose deadline any worker may push out      *)
(* while others wait for it to lift.                                       *)
(*                                                                         *)
(* The pause is a deadline, a wake channel that is closed and replaced     *)
(* when the pause lifts, and a timer of which only the latest generation   *)
(* may lift it.  time.Timer.Stop does not reach a callback that has        *)
(* already been started and waits for the mutex, so timers pass through    *)
(* "fired" before their callback runs.                                     *)
(***************************************************************************)
EXTENDS Naturals, FiniteSets

CONSTANTS
    Workers,   \* the goroutines sharing the pacer
    Slots,     \* Config.Concurrency, clamped to at least one
    Waits,     \* flood waits the server may answer, in seconds
    Threshold, \* Config.FloodSleepThreshold
    MaxTime    \* bound on the clock

ASSUME PacerAssumption ==
    /\ IsFiniteSet(Workers)
    /\ Slots \in Nat \ {0}
    /\ Waits \subseteq Nat
    /\ Threshold \in Nat
    /\ MaxTime \in Nat

VARIABLES
    now,        \* the clock
    floodUntil, \* Pacer.floodUntil; 0 is the zero time
    floodGen,   \* Pacer.floodGen
    wake,       \* the current Pacer.floodWake; every channel before it is closed
    timers,     \* started and not stopped: [gen, at, fired]
    tokens,     \* len(Pacer.sem)
    pc,         \* [Workers -> program point]
    ladder,     \* [Workers -> which Wait the worker is in]
    seen,       \* [Workers -> the wake channel awaitFlood captured]
    cancelled,  \* runCtx is done
    owed        \* history: the latest end of any flood wait reported

pauseVars == <<floodUntil, floodGen, wake, timers>>
workerVars == <<pc, ladder, seen>>
vars == <<now, pauseVars, tokens, workerVars, cancelled, owed>>

InAttempt == {w \in Workers : /\ ladder[w] = "attempt"
                              /\ pc[w] \in {"check", "blocked", "jitter", "fetch"}}

Init ==
    /\ now = 0
    /\ floodUntil = 0
    /\ floodGen = 0
    /\ wake = 0
    /\ timers = {}
    /\ tokens = 0
    /\ pc = [w \in Workers |-> "idle"]
    /\ ladder = [w \in Workers |-> "attempt"]
    /\ seen = [w \in Workers |-> 0]
    /\ cancelled = FALSE
    /\ owed = 0

Goto(w, point) == pc' = [pc EXCEPT ![w] = point]

-----------------------------------------------------------------------------
(* The semaphore *)

Acquire(w) ==
    /\ pc[w] = "idle"
    /\ tokens < Slots
    /\ tokens' = tokens + 1
    /\ ladder' = [ladder EXCEPT ![w] = "attempt"]
    /\ Goto(w, "check")
    /\ UNCHANGED <<now, pauseVars, seen, cancelled, owed>>

\* Acquire lost to the context, or there is no row left to fetch.
Quit(w) ==
    /\ pc[w] = "idle"
    /\ Goto(w, "out")
    /\ UNCHANGED <<now, pauseVars, tokens, ladder, seen, cancelled, owed>>

\* Mutant: every way out of a Wait releases a slot.
ReleaseAlways(w) == tokens' = tokens - 1

\* attemptOnce defers Release: it runs on every way out of the attempt, and
\* the ladder's own Wait holds no slot.
Release(w) == tokens' = IF ladder[w] = "attempt" THEN tokens - 1 ELSE tokens

-----------------------------------------------------------------------------
(* Wait *)

\* awaitFlood, one turn of its loop under the mutex.
CheckFlood(w) ==
    /\ pc[w] = "check"
    /\ IF floodUntil > now
       THEN Goto(w, "blocked") /\ seen' = [seen EXCEPT ![w] = wake]
       ELSE Goto(w, "jitter") /\ UNCHANGED seen
    /\ UNCHANGED <<now, pauseVars, tokens, ladder, cancelled, owed>>

WakeUp(w) ==
    /\ pc[w] = "blocked"
    /\ seen[w] < wake
    /\ Goto(w, "check")
    /\ UNCHANGED <<now, pauseVars, tokens, ladder, seen, cancelled, owed>>

\* Clock.Sleep over the jittered delay; the delay itself is any number of ticks.
JitterEnds(w) ==
    /\ pc[w] = "jitter"
    /\ Goto(w, IF ladder[w] = "attempt" THEN "fetch" ELSE "idle")
    /\ UNCHANGED <<now, pauseVars, tokens, ladder, seen, cancelled, owed>>

\* Mutant: the slot is kept when Wait is cancelled.
WaitCancelledKeepsSlot(w) ==
    /\ pc[w] \in {"check", "blocked", "jitter"}
    /\ cancelled
    /\ Goto(w, "out")
    /\ UNCHANGED <<now, pauseVars, tokens, ladder, seen, cancelled, owed>>

WaitCancelled(w) ==
    /\ pc[w] \in {"check", "blocked", "jitter"}
    /\ cancelled
    /\ Release(w)
    /\ Goto(w, "out")
    /\ UNCHANGED <<now, pauseVars, ladder, seen, cancelled, owed>>

\* The transfer is over: settled, or to be classified by handleFailure.
FetchEnds(w) ==
    /\ pc[w] = "fetch"
    /\ Release(w)
    /\ Goto(w, "idle") \/ Goto(w, "failed")
    /\ UNCHANGED <<now, pauseVars, ladder, seen, cancelled, owed>>

-----------------------------------------------------------------------------
(* The flood pause *)

\* Timer.Stop: a callback already started is out of reach.
Stopped == {t \in timers : t.gen # floodGen \/ t.fired}

Timer(gen, at) == [gen |-> gen, at |-> at, fired |-> FALSE]

StartPause(deadline) ==
    /\ floodGen' = floodGen + 1
    /\ floodUntil' = deadline
    /\ timers' = Stopped \cup {Timer(floodGen + 1, deadline)}
    /\ UNCHANGED wake

\* Mutant: a shorter pause replaces a longer one.
setDeadlineShortens(deadline) ==
    IF deadline <= now
    THEN UNCHANGED pauseVars
    ELSE StartPause(deadline)

\* Mutant: the active timer is stopped before the early return.
setDeadlineStopsFirst(deadline) ==
    IF deadline <= now \/ deadline <= floodUntil
    THEN timers' = Stopped /\ UNCHANGED <<floodUntil, floodGen, wake>>
    ELSE StartPause(deadline)

setDeadlineLocked(deadline) ==
    IF deadline <= now \/ deadline <= floodUntil
    THEN UNCHANGED pauseVars
    ELSE StartPause(deadline)

\* handleFloodOrRefetch on a flood error: report it to everybody, then park
\* the run or stay in the ladder, which backs off and waits without a slot.
ReportFlood(w, seconds) ==
    /\ pc[w] = "failed"
    /\ now + seconds <= MaxTime
    /\ IF seconds = 0 THEN UNCHANGED pauseVars ELSE setDeadlineLocked(now + seconds)
    /\ owed' = IF now + seconds > owed THEN now + seconds ELSE owed
    /\ IF seconds > Threshold
       THEN cancelled' = TRUE /\ Goto(w, "out") /\ UNCHANGED ladder
       ELSE /\ UNCHANGED cancelled
            /\ Goto(w, "check")
            /\ ladder' = [ladder EXCEPT ![w] = "backoff"]
    /\ UNCHANGED <<now, tokens, seen>>

\* Any other error: only the backoff.
OtherError(w) ==
    /\ pc[w] = "failed"
    /\ Goto(w, "check")
    /\ ladder' = [ladder EXCEPT ![w] = "backoff"]
    /\ UNCHANGED <<now, pauseVars, tokens, seen, cancelled, owed>>

TimerFires(t) ==
    /\ ~t.fired
    /\ t.at <= now
    /\ timers' = (timers \ {t}) \cup {[t EXCEPT !.fired = TRUE]}
    /\ UNCHANGED <<now, floodUntil, floodGen, wake, tokens, workerVars, cancelled, owed>>

LiftPause ==
    /\ floodUntil' = 0
    /\ wake' = wake + 1

\* Mutant: any timer lifts the pause.
TimerRunsUnguarded(t) ==
    /\ t.fired
    /\ timers' = timers \ {t}
    /\ LiftPause
    /\ UNCHANGED <<now, floodGen, tokens, workerVars, cancelled, owed>>

\* Mutant: the pause is lifted and nobody is told.
TimerRunsSilently(t) ==
    /\ t.fired
    /\ timers' = timers \ {t}
    /\ floodUntil' = IF t.gen = floodGen THEN 0 ELSE floodUntil
    /\ UNCHANGED <<now, wake, floodGen, tokens, workerVars, cancelled, owed>>

\* The callback, under the mutex.
TimerRuns(t) ==
    /\ t.fired
    /\ timers' = timers \ {t}
    /\ IF t.gen = floodGen THEN LiftPause ELSE UNCHANGED <<floodUntil, wake>>
    /\ UNCHANGED <<now, floodGen, tokens, workerVars, cancelled, owed>>

-----------------------------------------------------------------------------
Tick ==
    /\ now < MaxTime
    /\ now' = now + 1
    /\ UNCHANGED <<pauseVars, tokens, workerVars, cancelled, owed>>

\* The user interrupts the run.
Cancel ==
    /\ ~cancelled
    /\ cancelled' = TRUE
    /\ UNCHANGED <<now, pauseVars, tokens, workerVars, owed>>

AllOut ==
    /\ \A w \in Workers : pc[w] = "out"
    /\ UNCHANGED vars

InWait(w) == CheckFlood(w) \/ WakeUp(w) \/ JitterEnds(w) \/ WaitCancelled(w)

Step(w) ==
    \/ Acquire(w) \/ Quit(w)
    \/ InWait(w)
    \/ FetchEnds(w)
    \/ \E seconds \in Waits : ReportFlood(w, seconds)
    \/ OtherError(w)

FireTimer == \E t \in timers : TimerFires(t) \/ TimerRuns(t)

Next ==
    \/ \E w \in Workers : Step(w)
    \/ FireTimer
    \/ Tick \/ Cancel \/ AllOut

Spec == Init /\ [][Next]_vars

\* Time passes, the runtime runs due timers and started callbacks, and a
\* goroutine whose select has a ready case goes on.
FairSpec ==
    /\ Spec
    /\ WF_vars(Tick)
    /\ WF_vars(FireTimer)
    /\ \A w \in Workers : WF_vars(InWait(w))

-----------------------------------------------------------------------------
Point == {"idle", "check", "blocked", "jitter", "fetch", "failed", "out"}

TimerType == [gen : Nat, at : Nat, fired : BOOLEAN]

\* Fields of the Pacer and locals of its callers; a captured wake channel is
\* the current one or one already closed.
TypeOK ==
    /\ now \in 0..MaxTime
    /\ floodUntil \in 0..MaxTime
    /\ floodGen \in Nat
    /\ wake \in Nat
    /\ timers \subseteq TimerType
    /\ tokens \in 0..Slots
    /\ pc \in [Workers -> Point]
    /\ ladder \in [Workers -> {"attempt", "backoff"}]
    /\ seen \in [Workers -> 0..wake]
    /\ cancelled \in BOOLEAN
    /\ owed \in 0..MaxTime

\* Every slot is held by a transfer attempt and given back on each way out of
\* it, cancelled waits included (downloader.go:589-604).
SlotsBalance == tokens = Cardinality(InAttempt)

\* The pause lasts until the longest flood wait anybody reported has passed:
\* neither a shorter report nor the timer of an earlier pause, already
\* started when it was stopped, ends it early (pace.go:140-141, 188-194).
PauseOutlasts == now < owed => floodUntil = owed

\* A waiter blocked on a channel nobody has closed yet is owed a wake-up: the
\* timer that closes it is pending (pace.go:202-221).
NoLostWakeup ==
    \A w \in Workers :
        pc[w] = "blocked" /\ seen[w] = wake => \E t \in timers : t.gen = floodGen

\* Nobody passes the flood check of Wait while a reported wait is running.
PauseHolds ==
    [][\A w \in Workers : pc[w] = "check" /\ pc'[w] = "jitter" => owed <= now]_vars

\* A worker held by a flood pause is let go again, however often the pause is
\* extended while it waits.
WaitersReleased == \A w \in Workers : pc[w] = "blocked" ~> pc[w] # "blocked"
=============================================================================
