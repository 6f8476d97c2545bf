-------------------------------- MODULE Worker --------------------------------
(***************************************************************************)
(* The worker process of apps/worker/src/worker.ts: the scheduler, the     *)
(* cycle it runs, the connections the cycle uses, and the shutdown that a  *)
(* signal asks for or that ends the one-shot mode.                         *)
(*                                                                         *)
(* SIGINT and SIGTERM have one handler each, which serves once: the same   *)
(* signal a second time ends the process as signals do.                    *)
(***************************************************************************)
EXTENDS CycleScheduler

VARIABLES
    proc,           \* "up", "exited" (process.exit(0)) or "killed"
    shuttingDown,
    activeCycle,    \* the cycle under way, which may end before its tick
    waiting,        \* a shutdown waits for the active cycle
    closing,        \* Discord is destroyed, Prisma is being disconnected
    discord,        \* the client is open
    handled         \* the signals that have been handled

host == <<proc, shuttingDown, activeCycle, waiting, closing, discord, handled>>
vars == <<sched, host>>

Signals == {"SIGINT", "SIGTERM"}

Init ==
    /\ SchedulerInit
    /\ proc = "up" /\ discord = TRUE
    /\ shuttingDown = FALSE /\ activeCycle = FALSE /\ waiting = FALSE /\ closing = FALSE
    /\ handled = {}

\* startWorker ends with scheduler.start().
StartWorker == proc = "up" /\ ~started /\ Start /\ UNCHANGED host

CycleBegins ==
    /\ proc = "up"
    /\ RunTick
    /\ activeCycle' = TRUE
    /\ UNCHANGED <<proc, shuttingDown, waiting, closing, discord, handled>>

Pass == proc = "up" /\ started /\ Elapse /\ UNCHANGED host

\* Mutant of CycleEnds: nobody resumes the shutdown.
CycleEndsUnheard ==
    /\ proc = "up" /\ activeCycle
    /\ enabled \/ shuttingDown
    /\ EndTick
    /\ activeCycle' = FALSE
    /\ UNCHANGED <<proc, shuttingDown, waiting, closing, discord, handled>>

\* The end of the cycle is the end of the tick ...
CycleEnds ==
    /\ proc = "up" /\ activeCycle
    /\ enabled \/ shuttingDown
    /\ EndTick
    /\ activeCycle' = FALSE
    /\ waiting' = FALSE
    /\ closing' = (closing \/ waiting)
    /\ discord' = (discord /\ ~waiting)
    /\ UNCHANGED <<proc, shuttingDown, handled>>

\* ... but in the one-shot mode, whose tick shuts the worker down.
OneShotEnds ==
    /\ proc = "up" /\ activeCycle
    /\ ~enabled /\ ~shuttingDown
    /\ Stop
    /\ activeCycle' = FALSE
    /\ shuttingDown' = TRUE /\ closing' = TRUE /\ discord' = FALSE
    /\ UNCHANGED <<proc, waiting, handled>>

\* Mutant of Shutdown: the active cycle is not waited for.
ShutdownAtOnce(s) ==
    /\ proc = "up" /\ started /\ s \notin handled /\ ~shuttingDown
    /\ handled' = handled \cup {s}
    /\ shuttingDown' = TRUE
    /\ Stop
    /\ closing' = TRUE /\ discord' = FALSE
    /\ UNCHANGED <<proc, activeCycle, waiting>>

\* A signal: the scheduler is stopped, the active cycle waited for.
Shutdown(s) ==
    /\ proc = "up" /\ started /\ s \notin handled /\ ~shuttingDown
    /\ handled' = handled \cup {s}
    /\ shuttingDown' = TRUE
    /\ Stop
    /\ IF activeCycle
       THEN waiting' = TRUE /\ UNCHANGED <<closing, discord>>
       ELSE closing' = TRUE /\ discord' = FALSE /\ UNCHANGED waiting
    /\ UNCHANGED <<proc, activeCycle>>

\* The other signal during a shutdown: shutdown() returns at once, and the handler
\* exits.
ShutdownAgain(s) ==
    /\ proc = "up" /\ s \notin handled /\ shuttingDown
    /\ handled' = handled \cup {s}
    /\ proc' = "exited"
    /\ UNCHANGED <<sched, shuttingDown, activeCycle, waiting, closing, discord>>

\* $disconnect has answered.
Disconnected ==
    /\ proc = "up" /\ closing
    /\ proc' = "exited"
    /\ UNCHANGED <<sched, shuttingDown, activeCycle, waiting, closing, discord, handled>>

\* The same signal once more, or any other death.
Killed ==
    /\ proc = "up"
    /\ proc' = "killed"
    /\ UNCHANGED <<sched, shuttingDown, activeCycle, waiting, closing, discord, handled>>

Next ==
    \/ StartWorker \/ CycleBegins \/ Pass
    \/ CycleEnds \/ OneShotEnds
    \/ \E s \in Signals : Shutdown(s) \/ ShutdownAgain(s)
    \/ Disconnected \/ Killed

\* Timers fire, cycles end and disconnections answer.
Fairness ==
    /\ WF_vars(StartWorker) /\ WF_vars(CycleBegins) /\ WF_vars(Pass)
    /\ WF_vars(CycleEnds \/ OneShotEnds) /\ WF_vars(Disconnected)

Spec == Init /\ [][Next]_vars /\ Fairness
-----------------------------------------------------------------------------
TypeOK ==
    /\ SchedulerTypeOK
    /\ proc \in {"up", "exited", "killed"}
    /\ shuttingDown \in BOOLEAN /\ activeCycle \in BOOLEAN /\ waiting \in BOOLEAN /\ closing \in BOOLEAN
    /\ discord \in BOOLEAN
    /\ handled \subseteq Signals

(***************************************************************************)
(* The connections outlive the cycle that uses them: nothing is closed     *)
(* under a cycle that is running, whatever signal arrives when             *)
(* (worker.ts, shutdown).                                                  *)
(***************************************************************************)
OpenWhileRunning == proc = "up" /\ activeCycle => discord

\* The types, and the connections of a running cycle.
WorkerInv == TypeOK /\ OpenWhileRunning

(***************************************************************************)
(* Once the worker shuts down no cycle begins, although the one under way  *)
(* ends through the code that arms the next one.                           *)
(***************************************************************************)
StopsForGood == [][shuttingDown => running' <= running]_vars

(***************************************************************************)
(* A signal ends the worker, and the one-shot mode ends by itself.         *)
(***************************************************************************)
ShutdownEnds == shuttingDown \/ ~enabled ~> proc # "up"

(***************************************************************************)
(* A worker that gets no signal runs cycle after cycle.                    *)
(***************************************************************************)
CyclesGoOn == enabled => []<>(running > 0) \/ <>shuttingDown \/ <>(proc = "killed")

===============================================================================
