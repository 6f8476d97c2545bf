---------------------------- MODULE CycleScheduler ----------------------------
(***************************************************************************)
(* createCycleScheduler of apps/worker/src/scheduler.ts: a timer that runs *)
(* one cycle after the other.  Its caller may start and stop it whenever   *)
(* it likes, a cycle ends when it likes, well or not, and a timer fires    *)
(* when it is due or later.                                                *)
(***************************************************************************)
EXTENDS Integers

CONSTANTS
    InitialDelay,       \* initialDelayMs, in ticks of the clock
    Interval            \* intervalMs

ASSUME SchedulerAssumption ==
    InitialDelay \in Nat /\ Interval \in Nat

VARIABLES
    enabled,      \* schedulerEnabled: FALSE runs one cycle
    started, stopped, tickActive,
    pending,      \* what is left of the delay of the timer, NoTimer when there is none
    running,      \* calls of runCycle that have not ended
    sinceEnd,     \* time since a cycle ended, at first since the creation of the scheduler;
                  \* Interval when it is that or more
    sinceStart    \* time since start() armed the timer there is, InitialDelay when it is that
                  \* or more, NoTimer when start() armed none or another

sched == <<enabled, started, stopped, tickActive, pending, running, sinceEnd, sinceStart>>

NoTimer == -1
Least(a, b) == IF a < b THEN a ELSE b
Longest == IF InitialDelay < Interval THEN Interval ELSE InitialDelay

SchedulerInit ==
    /\ enabled \in BOOLEAN
    /\ started = FALSE /\ stopped = TRUE /\ tickActive = FALSE
    /\ pending = NoTimer
    /\ running = 0
    /\ sinceEnd = 0 /\ sinceStart = NoTimer

\* Nothing happens when it is already started.
Start ==
    /\ ~(started /\ ~stopped)
    /\ started' = TRUE
    /\ stopped' = FALSE
    /\ pending' = InitialDelay
    /\ sinceStart' = 0
    /\ UNCHANGED <<enabled, tickActive, running, sinceEnd>>

\* Mutant of Stop: the timer only is cleared.
StopTimer ==
    /\ pending' = NoTimer /\ sinceStart' = NoTimer
    /\ UNCHANGED <<enabled, started, stopped, tickActive, running, sinceEnd>>

Stop ==
    /\ stopped' = TRUE
    /\ pending' = NoTimer /\ sinceStart' = NoTimer
    /\ UNCHANGED <<enabled, started, tickActive, running, sinceEnd>>

\* The timer fires ...
RunTick ==
    /\ pending = 0 /\ ~stopped /\ ~tickActive
    /\ pending' = NoTimer /\ sinceStart' = NoTimer
    /\ tickActive' = TRUE
    /\ running' = running + 1
    /\ UNCHANGED <<enabled, started, stopped, sinceEnd>>

\* ... in vain, when stop() and start() were called in the middle of a tick: it is
\* still active, or was the one tick of the one-shot mode.
TickRefused ==
    /\ pending = 0 /\ (stopped \/ tickActive)
    /\ pending' = NoTimer /\ sinceStart' = NoTimer
    /\ UNCHANGED <<enabled, started, stopped, tickActive, running, sinceEnd>>

\* Mutant of EndTick: a cycle that threw arms nothing.
EndTickSilent ==
    /\ running > 0
    /\ running' = running - 1
    /\ tickActive' = FALSE
    /\ sinceEnd' = 0
    /\ IF ~stopped /\ enabled
       THEN pending' \in {Interval, pending} /\ sinceStart' = NoTimer /\ UNCHANGED stopped
       ELSE stopped' = TRUE /\ UNCHANGED <<pending, sinceStart>>
    /\ UNCHANGED <<enabled, started>>

\* Mutant of EndTick: the interval is not waited for.
EndTickAtOnce ==
    /\ running > 0
    /\ running' = running - 1
    /\ tickActive' = FALSE
    /\ sinceEnd' = 0
    /\ IF ~stopped /\ enabled
       THEN pending' = 0 /\ sinceStart' = NoTimer /\ UNCHANGED stopped
       ELSE stopped' = TRUE /\ UNCHANGED <<pending, sinceStart>>
    /\ UNCHANGED <<enabled, started>>

\* The cycle has ended, well or with an error: the next one is armed, whatever timer
\* there is.
EndTick ==
    /\ running > 0
    /\ running' = running - 1
    /\ tickActive' = FALSE
    /\ sinceEnd' = 0
    /\ IF ~stopped /\ enabled
       THEN pending' = Interval /\ sinceStart' = NoTimer /\ UNCHANGED stopped
       ELSE stopped' = TRUE /\ UNCHANGED <<pending, sinceStart>>
    /\ UNCHANGED <<enabled, started>>

\* Time passes; a timer that is due may fire late.
Elapse ==
    /\ pending' = IF pending > 0 THEN pending - 1 ELSE pending
    /\ sinceEnd' = Least(sinceEnd + 1, Interval)
    /\ sinceStart' = IF sinceStart = NoTimer THEN NoTimer ELSE Least(sinceStart + 1, InitialDelay)
    /\ UNCHANGED <<enabled, started, stopped, tickActive, running>>

SchedulerNext == Start \/ Stop \/ RunTick \/ TickRefused \/ EndTick \/ Elapse

SchedulerSpec == SchedulerInit /\ [][SchedulerNext]_sched
-----------------------------------------------------------------------------
\* At most one cycle at a time.
SchedulerTypeOK ==
    /\ enabled \in BOOLEAN /\ started \in BOOLEAN /\ stopped \in BOOLEAN /\ tickActive \in BOOLEAN
    /\ pending \in NoTimer .. Longest
    /\ running = IF tickActive THEN 1 ELSE 0
    /\ sinceEnd \in 0 .. Interval /\ sinceStart \in NoTimer .. InitialDelay

(***************************************************************************)
(* No burst after a long cycle or a missed tick: a cycle begins Interval   *)
(* after the end of the last one, or InitialDelay after the start() that   *)
(* armed its timer, whatever stop() and start() were called while a cycle  *)
(* was running (scheduler.ts, "no catch-up burst").                        *)
(***************************************************************************)
Spaced ==
    [][running' > running => sinceEnd = Interval \/ sinceStart = InitialDelay]_sched

=============================================================================
