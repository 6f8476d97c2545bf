---------------------------- MODULE PipelineLock ----------------------------
(***************************************************************************)
(* The single-flight lock of the pipeline                                  *)
(* (packages/database/src/administration-repository.ts) and the cycle that *)
(* takes it, keeps it alive with heartbeats and releases it                *)
(* (packages/database/src/pipeline-orchestrator.ts).                       *)
(*                                                                         *)
(* The lock is one row, locked FOR UPDATE by every operation, so each of   *)
(* tryAcquire, heartbeat and release is one atomic step.  What is not      *)
(* atomic is the road from the process to the database: a heartbeat        *)
(* carries the expiry its sender computed when the timer fired, and lands  *)
(* later, or never.  Time is discrete; lock.left is the time to expiresAt  *)
(* and a beat's age is the time since the timer that sent it fired.        *)
(*                                                                         *)
(* A Holder is one process incarnation of the worker, whose holder id is   *)
(* drawn once and serves all its cycles, or one /radar-admin command of    *)
(* the bot; a restarted worker is another Holder.  A holder runs one cycle *)
(* at a time (apps/worker/src/scheduler.ts).                               *)
(***************************************************************************)
EXTENDS Integers

CONSTANTS
    Holder,             \* holder ids
    Worker,             \* those of the incarnations of the worker
    NoHolder,           \* the null holderId of a free lock
    LockTtl,            \* PIPELINE_LOCK_TTL
    HeartbeatInterval,  \* PIPELINE_HEARTBEAT_INTERVAL
    MaxDelay,           \* how long a prompt database call may take
    MaxRuns,            \* bound: PipelineRun rows ever created
    MaxFaults           \* bound: crashes, stalls, failed or slow calls

\* packages/config/src/schema.ts refuses any other configuration.
ASSUME ConfigAssumption ==
    /\ HeartbeatInterval \in Nat \ {0}
    /\ LockTtl \in Nat
    /\ 3 * HeartbeatInterval < LockTtl

ASSUME DelayAssumption == MaxDelay \in Nat /\ 2 * MaxDelay <= HeartbeatInterval
ASSUME BoundAssumption == MaxRuns \in Nat /\ MaxFaults \in Nat
ASSUME HolderAssumption == NoHolder \notin Holder /\ Worker \subseteq Holder

RunId == 1 .. MaxRuns
NoRun == 0
Terminal == {"completed", "degraded", "failed"}
Active == {"working", "releasing"}

VARIABLES
    lock,     \* the PipelineLock row
    runs,     \* the PipelineRun rows
    cyc,      \* cyc[h]: the cycle holder h is running
    beats,    \* the heartbeats on their way to the database
    faults    \* the faults met so far

vars == <<lock, runs, cyc, beats, faults>>

LockRow == [run : RunId \cup {NoRun}, holder : Holder \cup {NoHolder},
            left : 0 .. LockTtl]
RunRow  == [status : Terminal \cup {"absent", "running"},
            holder : Holder \cup {NoHolder}]
\* lost: the lockLost flag.  since: time since the heartbeat timer fired.
\* misses: consecutive heartbeats the database refused.  pace: whether the cycle
\* met a stall, a slow call or two misses in a row (history, for the properties).
Cycle   == [pc : Active \cup {"idle", "dead"}, run : RunId \cup {NoRun},
            lost : BOOLEAN, since : 0 .. HeartbeatInterval, misses : 0 .. 2,
            pace : {"prompt", "disturbed"}]
Beat    == [holder : Holder, run : RunId, age : 0 .. LockTtl]

TypeOK ==
    /\ lock \in LockRow
    /\ runs \in [RunId -> RunRow]
    /\ cyc \in [Holder -> Cycle]
    /\ beats \subseteq Beat
    /\ faults \in 0 .. MaxFaults

FreeLock == [run |-> NoRun, holder |-> NoHolder, left |-> 0]
NewCycle(pc, r, pace) ==
    [pc |-> pc, run |-> r, lost |-> FALSE, since |-> 0, misses |-> 0, pace |-> pace]
NoCycle == NewCycle("idle", NoRun, "prompt")

Init ==
    /\ lock = FreeLock
    /\ runs = [r \in RunId |-> [status |-> "absent", holder |-> NoHolder]]
    /\ cyc = [h \in Holder |-> NoCycle]
    /\ beats = {}
    /\ faults = 0

-----------------------------------------------------------------------------
Held    == lock.run # NoRun /\ lock.holder # NoHolder
\* Mutant of Expired: the lock is taken for expired one unit too early.
ExpiredEarly == Held /\ lock.left <= 1

Expired == Held /\ lock.left = 0

Pace(disturbed) == IF disturbed THEN "disturbed" ELSE "prompt"
Paced(c, disturbed) == [c EXCEPT !.pace = Pace(@ = "disturbed" \/ disturbed)]

Capped(n, max) == IF n < max THEN n + 1 ELSE max

Fault == faults < MaxFaults /\ faults' = faults + 1

\* create() hands out fresh ids; the model takes the lowest unused one.
Fresh(r) ==
    /\ runs[r].status = "absent"
    /\ \A q \in RunId : q < r => runs[q].status # "absent"

\* Mutants of TryAcquire: the run of an expired lock is left running; the lock is
\* never stolen.
TryAcquireForgetsStale(h, r, a) ==
    /\ ~Held \/ Expired
    /\ Fresh(r)
    /\ lock' = [run |-> r, holder |-> h, left |-> LockTtl - a]
    /\ runs' = [runs EXCEPT ![r] = [status |-> "running", holder |-> h]]

TryAcquireNoSteal(h, r, a) ==
    /\ ~Held
    /\ Fresh(r)
    /\ lock' = [run |-> r, holder |-> h, left |-> LockTtl - a]
    /\ runs' = [runs EXCEPT ![r] = [status |-> "running", holder |-> h]]

\* The tryAcquire transaction, whose caller read its clock a ticks before: a
\* free or expired lock is taken for a new run, and the run whose lock expired
\* is marked failed.  (That clock may find the lock not yet expired: a refusal that
\* a later try makes good.)
TryAcquire(h, r, a) ==
    /\ ~Held \/ Expired
    /\ Fresh(r)
    /\ lock' = [run |-> r, holder |-> h, left |-> LockTtl - a]
    /\ runs' = [q \in RunId |->
                  IF q = r THEN [status |-> "running", holder |-> h]
                  ELSE IF q = lock.run /\ runs[q].status = "running"
                       THEN [runs[q] EXCEPT !.status = "failed"]
                       ELSE runs[q]]

SlowBeat(h) == \E b \in beats : b.holder = h /\ b.age > MaxDelay

\* runCycle acquires the lock and starts its heartbeat timer.  A blocked or
\* failed tryAcquire leaves every row and the process as they were.
Acquire(h, r, a) ==
    /\ cyc[h].pc = "idle"
    /\ TryAcquire(h, r, a)
    /\ cyc' = [cyc EXCEPT ![h] = NewCycle("working", r, Pace(a > MaxDelay \/ SlowBeat(h)))]
    /\ IF a > MaxDelay THEN Fault ELSE UNCHANGED faults
    /\ UNCHANGED beats

\* The transaction commits but the answer is lost: runCycle reports
\* persistence_unavailable and gives up, leaving the lock held.
AcquireUnanswered(h, r) ==
    /\ cyc[h].pc = "idle"
    /\ TryAcquire(h, r, 0)
    /\ Fault
    /\ UNCHANGED <<cyc, beats>>

\* The heartbeat timer fires: now and expiresAt are computed here.
SendBeat(h) ==
    /\ cyc[h].pc \in Active
    /\ cyc[h].since = HeartbeatInterval
    /\ cyc' = [cyc EXCEPT ![h].since = 0]
    /\ beats' = beats \cup {[holder |-> h, run |-> cyc[h].run, age |-> 0]}
    /\ UNCHANGED <<lock, runs, faults>>

\* The cycle whose timer sent the beat is still the one its holder runs.
FromCurrentCycle(b) == cyc[b.holder].pc \in Active /\ cyc[b.holder].run = b.run

\* heartbeat() renews the lock of its holder, whichever cycle sent it and even
\* when the lock has expired, provided nobody took it meanwhile.
Heartbeat(b) ==
    /\ b \in beats
    /\ Held /\ lock.holder = b.holder /\ runs[lock.run].status = "running"
    /\ lock' = [lock EXCEPT !.left = LockTtl - b.age]
    /\ beats' = beats \ {b}
    /\ cyc' = IF FromCurrentCycle(b) THEN [cyc EXCEPT ![b.holder].misses = 0]
                                     ELSE cyc
    /\ UNCHANGED <<runs, faults>>

\* heartbeat() answers lock_not_held or lock_holder_mismatch: lockLost is set in
\* the cycle that sent the beat.
HeartbeatRefused(b) ==
    /\ b \in beats
    /\ ~Held \/ lock.holder # b.holder
    /\ beats' = beats \ {b}
    /\ cyc' = IF FromCurrentCycle(b) THEN [cyc EXCEPT ![b.holder].lost = TRUE]
                                     ELSE cyc
    /\ UNCHANGED <<lock, runs, faults>>

\* Mutant of HeartbeatError: any error is taken for the loss of the lock.
HeartbeatErrorLosesLock(b) ==
    /\ b \in beats
    /\ Fault
    /\ beats' = beats \ {b}
    /\ cyc' = IF FromCurrentCycle(b) THEN [cyc EXCEPT ![b.holder].lost = TRUE]
                                     ELSE cyc
    /\ UNCHANGED <<lock, runs>>

Missed(c) == Paced([c EXCEPT !.misses = Capped(@, 2)], c.misses >= 1)

\* Any other error of heartbeat() only degrades the cycle, which goes on.
HeartbeatError(b) ==
    /\ b \in beats
    /\ Fault
    /\ beats' = beats \ {b}
    /\ cyc' = IF FromCurrentCycle(b)
              THEN [cyc EXCEPT ![b.holder] = Missed(cyc[b.holder])]
              ELSE cyc
    /\ UNCHANGED <<lock, runs>>

\* The cycle ends, by its last stage, by an error or at one of its lockLost
\* checks, and enters releaseAndFinalize.
Finish(h) ==
    /\ cyc[h].pc = "working"
    /\ cyc' = [cyc EXCEPT ![h].pc = "releasing"]
    /\ UNCHANGED <<lock, runs, beats, faults>>

\* Mutant of Release: the holder of the lock is not compared.
ReleaseAnyHolder(h) ==
    /\ cyc[h].pc = "releasing"
    /\ IF Held /\ runs[lock.run].status = "running"
       THEN /\ \E s \in Terminal : runs' = [runs EXCEPT ![lock.run].status = s]
            /\ lock' = FreeLock
       ELSE UNCHANGED <<lock, runs>>
    /\ cyc' = [cyc EXCEPT ![h] = NoCycle]
    /\ UNCHANGED <<beats, faults>>

\* release() ends the run the lock names, not the run the caller started: only
\* the holder is compared.  Its errors are swallowed.  The timer is then cleared.
Release(h) ==
    /\ cyc[h].pc = "releasing"
    /\ IF Held /\ lock.holder = h /\ runs[lock.run].status = "running"
       THEN /\ \E s \in Terminal : runs' = [runs EXCEPT ![lock.run].status = s]
            /\ lock' = FreeLock
       ELSE UNCHANGED <<lock, runs>>
    /\ cyc' = [cyc EXCEPT ![h] = NoCycle]
    /\ UNCHANGED <<beats, faults>>

ReleaseError(h) ==
    /\ cyc[h].pc = "releasing"
    /\ Fault
    /\ cyc' = [cyc EXCEPT ![h] = NoCycle]
    /\ UNCHANGED <<lock, runs, beats>>

\* The process dies.  Its heartbeats already sent may still land.
Crash(h) ==
    /\ cyc[h].pc # "dead"
    /\ Fault
    /\ cyc' = [cyc EXCEPT ![h] = NewCycle("dead", NoRun, "prompt")]
    /\ UNCHANGED <<lock, runs, beats>>

\* A holder whose timer should have fired, or whose database call is too long.
Overdue(h) ==
    \/ cyc[h].pc \in Active /\ cyc[h].since = HeartbeatInterval
    \/ \E b \in beats : b.holder = h /\ b.age >= MaxDelay

NewlyOverdue == {h \in Holder : Overdue(h) /\ cyc[h].pace = "prompt"}

\* One unit of time.  Letting it pass over an undisturbed cycle that has a
\* deadline to meet is a fault.
Tick ==
    /\ IF NewlyOverdue = {} THEN UNCHANGED faults ELSE Fault
    /\ lock' = [lock EXCEPT !.left = IF @ = 0 THEN 0 ELSE @ - 1]
    /\ cyc' = [h \in Holder |->
                 Paced([cyc[h] EXCEPT !.since = IF cyc[h].pc \in Active
                                                THEN Capped(@, HeartbeatInterval) ELSE @],
                       Overdue(h))]
    /\ beats' = {[b EXCEPT !.age = Capped(@, LockTtl)] : b \in beats}
    /\ UNCHANGED runs

Next ==
    \/ \E h \in Holder, r \in RunId :
          \/ \E a \in 0 .. LockTtl : Acquire(h, r, a)
          \/ AcquireUnanswered(h, r)
    \/ \E h \in Holder :
          \/ SendBeat(h)
          \/ Finish(h)
          \/ Release(h)
          \/ ReleaseError(h)
          \/ Crash(h)
    \/ \E b \in beats :
          \/ Heartbeat(b)
          \/ HeartbeatRefused(b)
          \/ HeartbeatError(b)
    \/ Tick

Spec == Init /\ [][Next]_vars

\* A cycle that was started cannot wait for ever, whoever started it: its calls have
\* timeouts, its timer fires, the database answers or fails.  Only the scheduler of a
\* worker keeps starting cycles: a command of the bot is given when a human likes, if
\* ever.  Crashes and errors are never required.
Fairness ==
    /\ WF_vars(Tick)
    /\ \A h \in Worker : WF_vars(\E r \in RunId : Acquire(h, r, 0))
    /\ \A h \in Holder :
          /\ WF_vars(SendBeat(h))
          /\ WF_vars(Finish(h))
          /\ WF_vars(Release(h))
          /\ WF_vars(\E b \in beats : b.holder = h /\ (Heartbeat(b) \/ HeartbeatRefused(b)))

FairSpec == Spec /\ Fairness

-----------------------------------------------------------------------------
\* Single flight: a run is marked running exactly while the lock row names it, and
\* the row and the run agree on the holder.  So at most one run is ever running,
\* whatever was stolen, left behind by a crash or never acknowledged.
SingleFlight ==
    \A r \in RunId :
        runs[r].status = "running" <=> lock.run = r /\ lock.holder = runs[r].holder

\* The types of the rows, and what they say of each other.
RowsAgree == TypeOK /\ SingleFlight

\* With heartbeats sent less than a third of the TTL apart, a cycle that is never
\* stalled and never loses two heartbeats in a row still holds an unexpired lock
\* for its own run at every moment until it releases it: nobody steals from it,
\* even with calls in flight and the heartbeats of an earlier cycle landing late.
PromptCycleKeepsLock ==
    \A h \in Holder :
        cyc[h].pc \in Active /\ cyc[h].pace = "prompt" =>
            lock.holder = h /\ lock.run = cyc[h].run /\ lock.left > 0

\* lockLost is never a false alarm and never becomes one: once a cycle was told
\* its lock is gone, the lock is not its own again, so that giving up the
\* remaining stages is right.
LostIsFinal ==
    \A h \in Holder : cyc[h].lost => lock.run # cyc[h].run

\* Although release() ends whatever run the lock names, the run a cycle ends by
\* releasing is always the one that cycle started.
EndsOwnRun ==
    \A h \in Holder, r \in RunId :
        /\ cyc[h].pc = "releasing" /\ cyc'[h].pc = "idle"
        /\ runs[r].status = "running" /\ runs'[r].status \in Terminal
        => r = cyc[h].run

ReleasesOwnRun == [][EndsOwnRun]_vars

\* A run left running by a crash, a lost answer or a failed release is marked
\* failed in the end, and the pipeline goes on, as long as an incarnation of the
\* worker is alive: nothing that only a human may start is counted on.  (Stealing
\* needs a fresh run, so the last row of the bounded table is excepted.)
OrphanedRunEnds ==
    \A r \in RunId : r < MaxRuns =>
        (runs[r].status = "running"
             ~> runs[r].status \in Terminal \/ \A h \in Worker : cyc[h].pc = "dead")
=============================================================================
