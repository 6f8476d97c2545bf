----------------------------- MODULE ProcessProofs -----------------------------
(***************************************************************************)
(* Proofs about the two processes: Worker, for every delay, and the        *)
(* commands of the bot, AdminOps, for every number of commands, folders,   *)
(* operations and faults.                                                  *)
(*                                                                         *)
(* The worker drives its scheduler by the calls CycleScheduler allows, so  *)
(* that what holds of any caller holds of it.  Cycles are spaced because   *)
(* of where a timer comes from: the one start() armed has run out when     *)
(* InitialDelay has passed since, the one the end of a cycle armed when    *)
(* Interval has.  The connections are closed under no cycle because the    *)
(* scheduler is stopped for good before they are.                          *)
(*                                                                         *)
(* The rows of the audit are right because of what a command holds in      *)
(* memory between its operation and its row.  It claims what the operation *)
(* was answered, or a failure; no two commands audit one operation; and a  *)
(* batch remembers its members by what they claimed, when their rows are   *)
(* written for good, so that its own row still agrees with them later.     *)
(***************************************************************************)
EXTENDS Worker, AdminOps, SequenceTheorems, TLAPS

-----------------------------------------------------------------------------
(* The scheduler, whoever calls it.                                          *)

Switches == /\ enabled \in BOOLEAN /\ started \in BOOLEAN
            /\ stopped \in BOOLEAN /\ tickActive \in BOOLEAN
Times == /\ pending \in NoTimer .. Longest
         /\ sinceEnd \in 0 .. Interval /\ sinceStart \in NoTimer .. InitialDelay
OneCycle == IF tickActive THEN running = 1 ELSE running = 0

FromStart == sinceStart # NoTimer /\ pending + sinceStart = InitialDelay
FromEnd   == pending + sinceEnd = Interval
TimerInv  == pending # NoTimer => FromStart \/ (enabled /\ FromEnd)
\* A scheduler that was stopped left no timer, but in the one-shot mode, in
\* which the end of the tick leaves the one that start() armed.
StopInv   == stopped /\ enabled => pending = NoTimer

SchedulerInv == Switches /\ Times /\ OneCycle /\ TimerInv /\ StopInv

LEMMA SchedulerInvInit == SchedulerInit => SchedulerInv
<1>. SUFFICES ASSUME SchedulerInit PROVE SchedulerInv
  OBVIOUS
<1>1. Switches
  BY DEF SchedulerInit, Switches
<1>2. Times /\ TimerInv
  BY SchedulerAssumption DEF SchedulerInit, Times, TimerInv, NoTimer, Longest
<1>3. OneCycle
  BY DEF SchedulerInit, OneCycle
<1>4. StopInv
  BY DEF SchedulerInit, StopInv
<1>. QED
  BY <1>1, <1>2, <1>3, <1>4 DEF SchedulerInv

LEMMA SwitchesKept == Switches /\ [SchedulerNext]_sched => Switches'
BY DEF Switches, SchedulerNext, sched, Start, Stop, RunTick, TickRefused, EndTick, Elapse

LEMMA OneCycleKept == OneCycle /\ [SchedulerNext]_sched => OneCycle'
<1>. SUFFICES ASSUME OneCycle, [SchedulerNext]_sched PROVE OneCycle'
  OBVIOUS
<1>1. CASE tickActive' = tickActive /\ running' = running
  BY <1>1 DEF OneCycle
<1>2. CASE RunTick
  <2>1. ~tickActive /\ tickActive' /\ running' = running + 1
    BY <1>2 DEF RunTick
  <2>. QED
    BY <2>1 DEF OneCycle
<1>3. CASE EndTick
  <2>1. ~tickActive' /\ running > 0 /\ running' = running - 1
    BY <1>3 DEF EndTick
  <2>. QED
    BY <2>1 DEF OneCycle
<1>. QED
  BY <1>1, <1>2, <1>3 DEF SchedulerNext, sched, Start, Stop, TickRefused, Elapse

LEMMA TimesKept ==
    Times /\ TimerInv /\ StopInv /\ [SchedulerNext]_sched => Times' /\ TimerInv'
<1>. SUFFICES ASSUME Times, TimerInv, StopInv, [SchedulerNext]_sched PROVE Times' /\ TimerInv'
  OBVIOUS
<1>. USE SchedulerAssumption DEF Times, TimerInv, FromStart, FromEnd, NoTimer, Longest
<1>1. CASE Start
  <2>1. pending' = InitialDelay /\ sinceStart' = 0 /\ sinceEnd' = sinceEnd
    BY <1>1 DEF Start
  <2>. QED
    BY <2>1
<1>2. CASE pending' = NoTimer /\ sinceStart' = NoTimer /\ sinceEnd' = sinceEnd
  BY <1>2
<1>3. CASE EndTick
  <2>1. sinceEnd' = 0
    BY <1>3 DEF EndTick
  <2>2. CASE ~stopped /\ enabled
    <3>1. pending' = Interval /\ sinceStart' = NoTimer /\ (enabled' <=> enabled)
      BY <1>3, <2>2 DEF EndTick
    <3>. QED
      BY <2>1, <2>2, <3>1
  <2>3. CASE ~(~stopped /\ enabled)
    <3>1. /\ pending' = pending /\ sinceStart' = sinceStart
          /\ pending = NoTimer \/ ~enabled
      BY <1>3, <2>3 DEF EndTick, StopInv
    <3>2. enabled' <=> enabled
      BY <1>3 DEF EndTick
    <3>. QED
      BY <2>1, <3>1, <3>2
  <2>. QED
    BY <2>2, <2>3
<1>4. CASE Elapse
  <2>0. enabled' <=> enabled
    BY <1>4 DEF Elapse
  <2>1. /\ pending' = IF pending > 0 THEN pending - 1 ELSE pending
        /\ sinceEnd' = IF sinceEnd + 1 < Interval THEN sinceEnd + 1 ELSE Interval
        /\ sinceStart' = IF sinceStart = NoTimer THEN NoTimer
                         ELSE IF sinceStart + 1 < InitialDelay THEN sinceStart + 1 ELSE InitialDelay
    BY <1>4 DEF Elapse, Least
  <2>2. /\ pending \in Int /\ sinceEnd \in Int /\ sinceStart \in Int
        /\ InitialDelay \in Nat /\ Interval \in Nat
    OBVIOUS
  <2>3. Times'
    BY <2>1, <2>2
  <2>4. CASE pending > 0
    BY <2>0, <2>1, <2>2, <2>4
  <2>5. CASE ~(pending > 0)
    <3>1. pending' = pending
      BY <2>1, <2>5
    <3>. QED
      BY <2>0, <2>1, <2>2, <2>3, <3>1, <2>5
  <2>. QED
    BY <2>3, <2>4, <2>5
<1>5. CASE UNCHANGED sched
  BY <1>5 DEF sched
<1>. QED
  BY <1>1, <1>2, <1>3, <1>4, <1>5 DEF SchedulerNext, Stop, RunTick, TickRefused

LEMMA StopKept == StopInv /\ [SchedulerNext]_sched => StopInv'
<1>. SUFFICES ASSUME StopInv, [SchedulerNext]_sched PROVE StopInv'
  OBVIOUS
<1>1. CASE Start
  BY <1>1 DEF Start, StopInv
<1>2. CASE pending' = NoTimer
  BY <1>2 DEF StopInv
<1>3. CASE EndTick
  <2>1. stopped' /\ enabled' => stopped /\ enabled /\ pending' = pending
    BY <1>3 DEF EndTick
  <2>. QED
    BY <2>1 DEF StopInv
<1>4. CASE Elapse
  <2>1. /\ pending = NoTimer => pending' = NoTimer
        /\ stopped' /\ enabled' => stopped /\ enabled
    BY <1>4 DEF Elapse, NoTimer
  <2>. QED
    BY <2>1 DEF StopInv
<1>5. CASE UNCHANGED sched
  BY <1>5 DEF sched, StopInv
<1>. QED
  BY <1>1, <1>2, <1>3, <1>4, <1>5 DEF SchedulerNext, Stop, RunTick, TickRefused

LEMMA SchedulerInvariant == SchedulerSpec => []SchedulerInv
<1>1. SchedulerInv /\ [SchedulerNext]_sched => SchedulerInv'
  BY SwitchesKept, OneCycleKept, TimesKept, StopKept DEF SchedulerInv
<1>. QED
  BY <1>1, SchedulerInvInit, PTL DEF SchedulerSpec

-----------------------------------------------------------------------------
(***************************************************************************)
(* Whatever its caller does, the scheduler runs one cycle at a time: the   *)
(* tickActive guard of scheduler.ts.                                       *)
(***************************************************************************)
THEOREM SchedulerTypeCorrect == SchedulerSpec => []SchedulerTypeOK
<1>1. SchedulerInv => SchedulerTypeOK
  <2>. SUFFICES ASSUME SchedulerInv PROVE SchedulerTypeOK
    OBVIOUS
  <2>1. running = IF tickActive THEN 1 ELSE 0
    BY DEF SchedulerInv, OneCycle
  <2>. QED
    BY <2>1 DEF SchedulerInv, SchedulerTypeOK, Switches, Times
<1>. QED
  BY <1>1, SchedulerInvariant, PTL

(***************************************************************************)
(* No burst (scheduler.ts): whatever the delays and the calls of start()   *)
(* and stop(), a cycle begins Interval after the end of the last one, or   *)
(* InitialDelay after a start().                                           *)
(***************************************************************************)
THEOREM SchedulerSpaced == SchedulerSpec => Spaced
<1>. DEFINE Gap == running' > running => sinceEnd = Interval \/ sinceStart = InitialDelay
<1>1. SchedulerInv /\ [SchedulerNext]_sched => [Gap]_sched
  <2>. SUFFICES ASSUME SchedulerInv, SchedulerNext PROVE Gap
    OBVIOUS
  <2>1. running \in Int
    BY DEF SchedulerInv, OneCycle
  <2>2. CASE RunTick
    <3>1. pending = 0
      BY <2>2 DEF RunTick
    <3>. QED
      BY <3>1, SchedulerAssumption
         DEF SchedulerInv, Times, TimerInv, FromStart, FromEnd, NoTimer
  <2>3. CASE EndTick
    <3>1. running' = running - 1
      BY <2>3 DEF EndTick
    <3>. QED
      BY <2>1, <3>1
  <2>4. CASE running' = running
    BY <2>1, <2>4
  <2>. QED
    BY <2>2, <2>3, <2>4 DEF SchedulerNext, Start, Stop, TickRefused, Elapse
<1>2. SchedulerSpec => [][Gap]_sched
  BY <1>1, SchedulerInvariant, PTL DEF SchedulerSpec
<1>. QED
  BY <1>2 DEF Spaced

-----------------------------------------------------------------------------
(* The worker.                                                               *)

LEMMA InitIsScheduled == Init => SchedulerInit
BY DEF Init

LEMMA StepIsScheduled == [Next]_vars => [SchedulerNext]_sched
BY DEF Next, vars, SchedulerNext, StartWorker, CycleBegins, Pass, CycleEnds, OneShotEnds,
       Shutdown, ShutdownAgain, Disconnected, Killed

(***************************************************************************)
(* The worker calls its scheduler as the scheduler expects to be called:   *)
(* what is proved of any caller holds of the worker (worker.ts).           *)
(***************************************************************************)
THEOREM WorkerIsScheduled == Spec => SchedulerSpec
BY InitIsScheduled, StepIsScheduled, PTL DEF Spec, SchedulerSpec

(***************************************************************************)
(* The cycles of the worker are spaced.                                    *)
(***************************************************************************)
THEOREM SpacedHolds == Spec => Spaced
BY WorkerIsScheduled, SchedulerSpaced

HostType ==
    /\ proc \in {"up", "exited", "killed"}
    /\ shuttingDown \in BOOLEAN /\ activeCycle \in BOOLEAN
    /\ waiting \in BOOLEAN /\ closing \in BOOLEAN /\ discord \in BOOLEAN
    /\ handled \subseteq Signals

\* Nothing begins before startWorker, nor once the worker shuts down; and it
\* closes its connections when it shuts down and its cycle is over.
Quiet ==
    /\ ~started => pending = NoTimer /\ ~activeCycle /\ ~shuttingDown
    /\ shuttingDown => stopped
    /\ waiting => shuttingDown
    /\ closing => shuttingDown /\ ~activeCycle
    /\ closing \/ discord

HostInv == HostType /\ Quiet

LEMMA HostInvInit == Init => HostInv
BY DEF Init, SchedulerInit, HostInv, HostType, Quiet

LEMMA HostInvNext == HostInv /\ [Next]_vars => HostInv'
<1>. SUFFICES ASSUME HostInv, [Next]_vars PROVE HostInv'
  OBVIOUS
<1>. USE DEF HostInv, HostType, Quiet
<1>1. CASE StartWorker
  BY <1>1 DEF StartWorker, Start, host
<1>2. CASE CycleBegins
  <2>1. pending # NoTimer
    BY <1>2 DEF CycleBegins, RunTick, NoTimer
  <2>. QED
    BY <1>2, <2>1 DEF CycleBegins, RunTick
<1>3. CASE Pass
  <2>1. pending = NoTimer => pending' = NoTimer
    BY <1>3 DEF Pass, Elapse, NoTimer
  <2>. QED
    BY <1>3, <2>1 DEF Pass, Elapse, host
<1>4. CASE CycleEnds
  BY <1>4 DEF CycleEnds, EndTick
<1>5. CASE OneShotEnds
  BY <1>5 DEF OneShotEnds, Stop
<1>6. ASSUME NEW s \in Signals, Shutdown(s) PROVE HostInv'
  BY <1>6 DEF Shutdown, Stop
<1>7. ASSUME NEW s \in Signals, ShutdownAgain(s) PROVE HostInv'
  BY <1>7 DEF ShutdownAgain, sched
<1>8. CASE Disconnected
  BY <1>8 DEF Disconnected, sched
<1>9. CASE Killed
  BY <1>9 DEF Killed, sched
<1>10. CASE UNCHANGED vars
  BY <1>10 DEF vars, sched, host
<1>. QED
  BY <1>1, <1>2, <1>3, <1>4, <1>5, <1>6, <1>7, <1>8, <1>9, <1>10 DEF Next

LEMMA HostInvariant == Spec => []HostInv
BY HostInvInit, HostInvNext, PTL DEF Spec

(***************************************************************************)
(* The variables keep their types, and at most one cycle runs at a time.   *)
(***************************************************************************)
THEOREM TypeCorrect == Spec => []TypeOK
<1>1. SchedulerTypeOK /\ HostInv => TypeOK
  BY DEF HostInv, HostType, TypeOK
<1>. QED
  BY <1>1, WorkerIsScheduled, SchedulerTypeCorrect, HostInvariant, PTL

(***************************************************************************)
(* Discord is never closed under a running cycle (worker.ts, shutdown).    *)
(***************************************************************************)
THEOREM OpenWhileRunningHolds == Spec => []OpenWhileRunning
<1>1. HostInv => OpenWhileRunning
  BY DEF HostInv, Quiet, OpenWhileRunning
<1>. QED
  BY <1>1, HostInvariant, PTL

(***************************************************************************)
(* Both theorems, as the run checks them: the types of the worker, and the *)
(* connections of a running cycle.                                         *)
(***************************************************************************)
THEOREM WorkerInvHolds == Spec => []WorkerInv
<1>1. TypeOK /\ OpenWhileRunning => WorkerInv
  BY DEF WorkerInv
<1>. QED
  BY <1>1, TypeCorrect, OpenWhileRunningHolds, PTL

(***************************************************************************)
(* Once a shutdown has begun no cycle begins, although the one under way   *)
(* ends through the code that arms the next one.                           *)
(***************************************************************************)
THEOREM StopsForGoodHolds == Spec => StopsForGood
<1>. DEFINE Fewer == shuttingDown => running' <= running
<1>1. HostInv /\ SchedulerInv /\ [Next]_vars => [Fewer]_vars
  <2>. SUFFICES ASSUME HostInv, SchedulerInv, Next, shuttingDown
                PROVE  running' <= running
    OBVIOUS
  <2>1. running \in Int
    BY DEF SchedulerInv, OneCycle
  <2>2. ~CycleBegins
    BY DEF HostInv, Quiet, CycleBegins, RunTick
  <2>3. CASE running' = running
    BY <2>1, <2>3
  <2>4. CASE EndTick
    <3>1. running' = running - 1
      BY <2>4 DEF EndTick
    <3>. QED
      BY <2>1, <3>1
  <2>. QED
    BY <2>2, <2>3, <2>4 DEF Next, StartWorker, Start, Pass, Elapse, CycleEnds, OneShotEnds,
       Shutdown, Stop, ShutdownAgain, Disconnected, Killed, sched
<1>2. Spec => [][Fewer]_vars
  BY <1>1, HostInvariant, WorkerIsScheduled, SchedulerInvariant, PTL DEF Spec
<1>. QED
  BY <1>2 DEF StopsForGood

-----------------------------------------------------------------------------
(* The commands of the bot, and what the audit says of them.               *)

Good == {"reached", "partly"}

\* An operation whose rows are all written.
Settled(n) == n \in DOMAIN ops /\ log[n] # <<>> /\ ~UnderWay(n)

\* What the command c is going to claim.
Claims(c) ==
    c.pc \in Auditing =>
        /\ c.n \in DOMAIN ops
        /\ c.claim = "succeeded" => ops[c.n].came \in Good
        /\ c.op = "resume_all" => c.claim # "rejected"

\* The members of its batch are settled, and their last rows are as it remembers.
Remembers(c) ==
    \A m \in c.members : Settled(m[1]) /\ Final(m[1]) = m[2] /\ m[2] # "rejected"

\* The publications it has resumed, or is still to resume.
Taken(c) ==
    {ops[m[1]].folder : m \in c.members} \cup c.todo
        \cup (IF c.pc \in Auditing THEN {ops[c.n].folder} ELSE {})

Batched(c) ==
    /\ c.b = 0 => /\ c.members = {} /\ c.pc # "summary"
                  /\ c.op = "resume_all" => c.todo = {} /\ c.pc = "call"
    /\ c.b # 0 => /\ c.b \in DOMAIN batches /\ c.op = "resume_all" /\ c.pc # "free"
                  /\ Taken(c) = batches[c.b].folders
    /\ c.pc = "summary" => c.todo = {}

Sound(c) == Claims(c) /\ Remembers(c) /\ Batched(c)

\* A batch whose row is written consists of settled operations.
Written(b) == (\A n \in b.members : Settled(n)) /\ (b.row # "none" => Agrees(b))

AllSound   == \A s \in Slot : \A c \in Command : cmd[s] = c => Sound(c)
AllWritten == \A i \in DOMAIN batches : \A b \in Batch : batches[i] = b => Written(b)
\* Two commands never audit the same operation.
Alone     == \A s \in Slot, t \in Slot :
                s # t /\ cmd[s].pc \in Auditing /\ cmd[t].pc \in Auditing => cmd[s].n # cmd[t].n
RowsKnown == \A n \in OpIndex : n \notin DOMAIN ops => log[n] = <<>>

DataTyped == /\ ops \in Seq(Operation) /\ Len(ops) <= MaxOps
             /\ log \in [OpIndex -> Seq(Outcome)]
             /\ batches \in Seq(Batch) /\ Len(batches) <= MaxBatches
             /\ faults \in 0 .. MaxFaults

AuditInv == /\ cmd \in [Slot -> Command] /\ DataTyped /\ AllSound /\ AllWritten
            /\ Alone /\ RowsKnown /\ SuccessIsTrue

LEMMA AuditInvImplies == AuditInv => LogInv
<1>. SUFFICES ASSUME AuditInv PROVE LogInv
  OBVIOUS
<1>1. \A s \in Slot : Sound(cmd[s])
  BY DEF AuditInv, AllSound
<1>2. \A s \in Slot : /\ cmd[s].pc \in Auditing => cmd[s].n \in DOMAIN ops
                      /\ cmd[s].b # 0 => cmd[s].b \in DOMAIN batches
  BY <1>1 DEF Sound, Claims, Batched
<1>3. AdminTypeOK
  BY <1>2 DEF AdminTypeOK, AuditInv, DataTyped
<1>4. BatchIsTrue
  <2>. SUFFICES ASSUME NEW i \in DOMAIN batches, batches[i].row # "none" PROVE Agrees(batches[i])
    BY DEF BatchIsTrue
  <2>1. batches[i] \in Batch
    BY ElementOfSeq DEF AuditInv, DataTyped
  <2>. QED
    BY <2>1 DEF AuditInv, AllWritten, Written
<1>. QED
  BY <1>3, <1>4 DEF AuditInv, LogInv

LEMMA FreeIsSound == Free \in Command /\ Sound(Free)
<1>1. /\ Free.pc = "free" /\ Free.op = "cycle" /\ Free.todo = {} /\ Free.n = 0
      /\ Free.claim = "failed" /\ Free.members = {} /\ Free.b = 0
  BY DEF Free
<1>2. Free \in Command
  <2>1. 0 \in 0 .. MaxOps /\ 0 \in 0 .. MaxBatches /\ "cycle" \in Commands /\ "failed" \in Outcome
    BY AdminAssumption DEF Commands, Outcome
  <2>. QED
    BY <2>1 DEF Free, Command
<1>3. Sound(Free)
  BY <1>1 DEF Sound, Claims, Remembers, Batched, Auditing
<1>. QED
  BY <1>2, <1>3

LEMMA AuditInvInit == AdminInit => AuditInv
<1>. SUFFICES ASSUME AdminInit PROVE AuditInv
  OBVIOUS
<1>1. \A s \in Slot : cmd[s] = Free
  BY DEF AdminInit
<1>2. AllSound /\ cmd \in [Slot -> Command]
  BY <1>1, FreeIsSound DEF AllSound, AdminInit
<1>3. DataTyped
  BY AdminAssumption DEF AdminInit, DataTyped, OpIndex
<1>4. Alone
  BY <1>1 DEF Alone, Free, Auditing
<1>5. AllWritten /\ RowsKnown /\ SuccessIsTrue
  BY DEF AdminInit, AllWritten, RowsKnown, SuccessIsTrue, OpIndex
<1>. QED
  BY <1>2, <1>3, <1>4, <1>5 DEF AuditInv

\* Every step but the death of the bot is a step of one command, which comes to c.
Moves(s, c) == cmd' = [cmd EXCEPT ![s] = c]

LEMMA MoveSlots ==
    ASSUME AuditInv, NEW s \in Slot, NEW c \in Command, Moves(s, c)
    PROVE  /\ cmd' \in [Slot -> Command] /\ cmd'[s] = c
           /\ \A t \in Slot : t # s => cmd'[t] = cmd[t]
BY DEF AuditInv, Moves

\* What no step takes back.
Keeps ==
    /\ DOMAIN ops \subseteq DOMAIN ops'
    /\ \A n \in DOMAIN ops : ops'[n] = ops[n]
    /\ DOMAIN batches \subseteq DOMAIN batches'
    /\ \A i \in DOMAIN batches : batches'[i].folders = batches[i].folders
    /\ \A n : Settled(n) => Settled(n)' /\ log'[n] = log[n]

LEMMA SoundKept == ASSUME Keeps, NEW c, Sound(c) PROVE Sound(c)'
<1>1. Claims(c)'
  BY DEF Keeps, Sound, Claims
<1>2. Remembers(c)'
  BY DEF Keeps, Sound, Remembers, Final
<1>3. Batched(c)'
  <2>1. \A m \in c.members : ops'[m[1]] = ops[m[1]]
    BY DEF Keeps, Sound, Remembers, Settled
  <2>2. c.pc \in Auditing => ops'[c.n] = ops[c.n]
    BY DEF Keeps, Sound, Claims
  <2>3. Taken(c)' = Taken(c)
    BY <2>1, <2>2 DEF Taken
  <2>. QED
    BY <2>3 DEF Keeps, Sound, Batched
<1>. QED
  BY <1>1, <1>2, <1>3 DEF Sound

LEMMA WrittenKept == ASSUME Keeps, NEW b, Written(b) PROVE Written(b)'
<1>1. \A n \in b.members : Settled(n)' /\ log'[n] = log[n] /\ ops'[n] = ops[n]
  BY DEF Keeps, Written, Settled
<1>2. {ops'[n].folder : n \in b.members} = {ops[n].folder : n \in b.members}
  BY <1>1
<1>3. (b.row # "none" /\ Agrees(b)) => Agrees(b)'
  BY <1>1, <1>2 DEF Agrees, Final
<1>. QED
  BY <1>1, <1>3 DEF Written

\* What remains to be shown of a step.
LEMMA Assembled ==
    ASSUME AuditInv, NEW s \in Slot, NEW c \in Command, Moves(s, c), Keeps, Sound(c)',
           DataTyped', AllWritten', Alone', RowsKnown', SuccessIsTrue'
    PROVE  AuditInv'
<1>1. ASSUME NEW t \in Slot, NEW d \in Command, cmd'[t] = d PROVE Sound(d)'
  <2>1. CASE t = s
    BY <1>1, <2>1, MoveSlots
  <2>2. CASE t # s
    <3>1. Sound(d)
      BY <1>1, <2>2, MoveSlots DEF AuditInv, AllSound
    <3>. QED
      BY <3>1, SoundKept
  <2>. QED
    BY <2>1, <2>2
<1>. QED
  BY <1>1, MoveSlots DEF AuditInv, AllSound

\* The batches are as they were.
LEMMA BatchesKept == ASSUME AuditInv, Keeps, UNCHANGED batches PROVE AllWritten'
<1>1. ASSUME NEW i \in DOMAIN batches', NEW b \in Batch, batches'[i] = b PROVE Written(b)'
  BY <1>1, WrittenKept DEF AuditInv, AllWritten
<1>. QED
  BY <1>1 DEF AllWritten

\* A command that begins no new audit leaves what is settled, and the audits apart.
LEMMA AuditsKept ==
    ASSUME AuditInv, NEW s \in Slot, NEW c \in Command, Moves(s, c), UNCHANGED <<ops, log>>,
           c.pc \in Auditing => cmd[s].pc \in Auditing /\ c.n = cmd[s].n
    PROVE  Alone' /\ \A n : Settled(n) => Settled(n)' /\ log'[n] = log[n]
<1>1. \A t \in Slot : cmd'[t].pc \in Auditing => cmd[t].pc \in Auditing /\ cmd'[t].n = cmd[t].n
  BY MoveSlots
<1>. QED
  BY <1>1 DEF AuditInv, Alone, Settled, UnderWay

\* A step that changes no operation and no row.
LEMMA QuietStep ==
    ASSUME AuditInv, NEW s \in Slot, NEW c \in Command, Moves(s, c),
           UNCHANGED <<ops, log, batches>>, faults' \in 0 .. MaxFaults,
           c.pc \in Auditing => cmd[s].pc \in Auditing /\ c.n = cmd[s].n,
           Sound(c)
    PROVE  AuditInv'
<1>1. Alone' /\ Keeps
  BY AuditsKept DEF Keeps
<1>2. Sound(c)' /\ AllWritten'
  BY <1>1, SoundKept, BatchesKept
<1>3. DataTyped' /\ RowsKnown' /\ SuccessIsTrue'
  BY DEF AuditInv, DataTyped, RowsKnown, SuccessIsTrue
<1>. QED
  BY <1>1, <1>2, <1>3, Assembled

\* One more operation has ended, and its row is going to say how.
LEMMA EndsStep ==
    ASSUME AuditInv, NEW s \in Slot, NEW f \in Folder \cup {NoFolder}, NEW came \in Came,
           NEW claim \in Outcome, NEW pc \in Auditing, Ends(s, f, came, claim, pc),
           cmd[s].pc = "call", Tells(came, claim),
           cmd[s].op = "resume_all" => claim # "rejected" /\ f \in cmd[s].todo
    PROVE  AuditInv'
<1>. DEFINE new == Len(ops) + 1
            r == [came |-> came, folder |-> f]
<1>1. /\ cmd[s] \in Command /\ Sound(cmd[s]) /\ ops \in Seq(Operation) /\ Len(ops) \in Nat
      /\ Len(ops) < MaxOps
  BY DEF AuditInv, AllSound, DataTyped, Ends
<1>2. new \in OpIndex /\ new \in 0 .. MaxOps /\ new \notin DOMAIN ops
  BY <1>1, AdminAssumption DEF OpIndex
<1>3. r \in Operation /\ r.came = came /\ r.folder = f
  BY DEF Operation
<1>4. PICK c \in Command :
        /\ c.pc = pc /\ c.todo = cmd[s].todo \ {f} /\ c.n = new /\ c.claim = claim
        /\ c.op = cmd[s].op /\ c.members = cmd[s].members /\ c.b = cmd[s].b
        /\ Moves(s, c)
  <2>. DEFINE e == [cmd[s] EXCEPT !.pc = pc, !.todo = cmd[s].todo \ {f}, !.n = new,
                                  !.claim = claim]
  <2>1. /\ e.pc = pc /\ e.todo = cmd[s].todo \ {f} /\ e.n = new /\ e.claim = claim
        /\ e.op = cmd[s].op /\ e.members = cmd[s].members /\ e.b = cmd[s].b
        /\ e \in Command
    BY <1>1, <1>2 DEF Command, Auditing
  <2>2. Moves(s, e)
    BY <1>1 DEF Ends, Moves, AuditInv, Command
  <2>. HIDE DEF e
  <2>. QED
    BY <2>1, <2>2
<1>5. Moves(s, c)
  BY <1>4
<1>6. /\ ops' \in Seq(Operation) /\ Len(ops') <= MaxOps
      /\ DOMAIN ops' = DOMAIN ops \cup {new} /\ ops'[new] = r
      /\ \A n \in DOMAIN ops : ops'[n] = ops[n]
  BY <1>1, <1>3, AdminAssumption DEF Ends
<1>7. UNCHANGED <<log, batches, faults>>
  BY DEF Ends
<1>. HIDE DEF r, new
<1>8. /\ cmd'[s] = c
      /\ \A t \in Slot : t # s => cmd'[t] = cmd[t]
  BY <1>4, <1>5, MoveSlots
<1>9. \A t \in Slot : cmd[t].pc \in Auditing => cmd[t].n \in DOMAIN ops
  BY DEF AuditInv, AllSound, Sound, Claims
<1>10. Alone'
  BY <1>2, <1>4, <1>8, <1>9 DEF AuditInv, Alone
<1>11. \A n : Settled(n) => Settled(n)' /\ log'[n] = log[n]
  BY <1>2, <1>4, <1>6, <1>7, <1>8 DEF Settled, UnderWay
<1>12. Keeps
  BY <1>6, <1>7, <1>11 DEF Keeps
<1>13. Sound(c)'
  <2>1. Claims(c)'
    BY <1>3, <1>4, <1>6 DEF Claims, Tells, Good
  <2>2. Remembers(c)'
    <3>1. Sound(cmd[s])
      BY <1>1
    <3>. QED
      BY <1>4, <1>12, <3>1 DEF Keeps, Sound, Remembers, Final
  <2>3. ASSUME c.b = 0 PROVE Batched(c)'
    <3>1. c.members = {} /\ c.op # "resume_all"
      BY <1>1, <1>4, <2>3 DEF Batched, Sound
    <3>2. c.pc # "summary"
      BY <1>4 DEF Auditing
    <3>. QED
      BY <2>3, <3>1, <3>2 DEF Batched
  <2>4. ASSUME c.b # 0 PROVE Batched(c)'
    <3>1. Batched(cmd[s]) /\ cmd[s].op = "resume_all" /\ f \in cmd[s].todo
      BY <1>1, <1>4, <2>4 DEF Sound, Batched
    <3>2. \A m \in c.members : ops'[m[1]] = ops[m[1]]
      BY <1>1, <1>4, <1>6 DEF Sound, Remembers, Settled
    <3>3. {ops'[m[1]].folder : m \in c.members} = {ops[m[1]].folder : m \in c.members}
      BY <3>2
    <3>4. /\ Taken(cmd[s]) = {ops[m[1]].folder : m \in c.members} \cup cmd[s].todo
          /\ Taken(c)' = {ops'[m[1]].folder : m \in c.members} \cup c.todo \cup {f}
      BY <1>3, <1>4, <1>6 DEF Taken, Auditing
    <3>5. Taken(c)' = Taken(cmd[s])
      BY <1>4, <3>1, <3>3, <3>4
    <3>. QED
      BY <1>4, <1>7, <2>4, <3>1, <3>5 DEF Batched, Auditing
  <2>. QED
    BY <2>1, <2>2, <2>3, <2>4 DEF Sound
<1>14. DataTyped' /\ RowsKnown'
  BY <1>6, <1>7 DEF AuditInv, DataTyped, RowsKnown
<1>15. SuccessIsTrue'
  <2>1. log[new] = <<>>
    BY <1>2 DEF AuditInv, RowsKnown
  <2>. QED
    BY <1>6, <1>7, <2>1 DEF AuditInv, SuccessIsTrue
<1>16. AllWritten'
  BY <1>7, <1>12, BatchesKept
<1>. QED
  BY <1>4, <1>5, <1>10, <1>12, <1>13, <1>14, <1>15, <1>16, Assembled

\* A row is written, and claims what the command does.
LEMMA RowWritten ==
    ASSUME AuditInv, NEW s \in Slot, cmd[s].pc \in Auditing, Row(s), UNCHANGED ops
    PROVE  \E n \in OpIndex, claim \in Outcome :
             /\ n = cmd[s].n /\ claim = cmd[s].claim /\ n \in DOMAIN ops
             /\ log' \in [OpIndex -> Seq(Outcome)]
             /\ log'[n] = Append(log[n], claim) /\ log[n] \in Seq(Outcome)
             /\ \A k : k # n => log'[k] = log[k]
             /\ RowsKnown' /\ SuccessIsTrue'
<1>. DEFINE n == cmd[s].n  claim == cmd[s].claim
<1>1. /\ cmd[s] \in Command /\ Sound(cmd[s])
      /\ ops \in Seq(Operation) /\ Len(ops) <= MaxOps /\ Len(ops) \in Nat
      /\ log \in [OpIndex -> Seq(Outcome)]
  BY DEF AuditInv, AllSound, DataTyped
<1>2. /\ n \in DOMAIN ops /\ claim \in Outcome
      /\ claim = "succeeded" => ops[n].came \in Good
  BY <1>1 DEF Sound, Claims, Command
<1>3. n \in OpIndex /\ log[n] \in Seq(Outcome)
  BY <1>1, <1>2, AdminAssumption DEF OpIndex
<1>4. log' = [log EXCEPT ![n] = Append(log[n], claim)]
  BY DEF Row
<1>. HIDE DEF n, claim
<1>5. /\ log' \in [OpIndex -> Seq(Outcome)] /\ log'[n] = Append(log[n], claim)
      /\ \A k \in OpIndex : k # n => log'[k] = log[k]
  BY <1>1, <1>2, <1>3, <1>4
<1>6. \A k : k # n => log'[k] = log[k]
  BY <1>4
<1>7. RowsKnown'
  BY <1>2, <1>5 DEF AuditInv, RowsKnown
<1>8. SuccessIsTrue'
  <2>1. ASSUME NEW k \in DOMAIN ops, NEW i \in DOMAIN log'[k], log'[k][i] = "succeeded"
        PROVE  ops[k].came \in Good
    <3>1. CASE k # n
      BY <1>6, <2>1, <3>1 DEF AuditInv, SuccessIsTrue, Good
    <3>2. CASE k = n /\ i \in DOMAIN log[k]
      <4>1. log'[k][i] = log[k][i]
        BY <1>2, <1>3, <1>5, <3>2
      <4>. QED
        BY <2>1, <3>2, <4>1 DEF AuditInv, SuccessIsTrue, Good
    <3>3. CASE k = n /\ i \notin DOMAIN log[k]
      <4>1. log'[k][i] = claim
        BY <1>2, <1>3, <1>5, <2>1, <3>3
      <4>. QED
        BY <1>2, <2>1, <3>3, <4>1
    <3>. QED
      BY <3>1, <3>2, <3>3
  <2>. QED
    BY <2>1 DEF SuccessIsTrue, Good
<1>. QED
  BY <1>2, <1>3, <1>5, <1>6, <1>7, <1>8 DEF n, claim

\* A row is written by a command that goes on as c.
LEMMA RowStep ==
    ASSUME AuditInv, NEW s \in Slot, NEW c \in Command, Moves(s, c),
           cmd[s].pc \in Auditing, Row(s), UNCHANGED <<ops, batches>>,
           faults' \in 0 .. MaxFaults, c.pc \in Auditing => c.n = cmd[s].n,
           Keeps => Sound(c)'
    PROVE  AuditInv'
<1>1. PICK n \in OpIndex, claim \in Outcome :
        /\ n = cmd[s].n /\ claim = cmd[s].claim /\ n \in DOMAIN ops
        /\ log' \in [OpIndex -> Seq(Outcome)]
        /\ log'[n] = Append(log[n], claim) /\ log[n] \in Seq(Outcome)
        /\ \A k : k # n => log'[k] = log[k]
        /\ RowsKnown' /\ SuccessIsTrue'
  BY RowWritten
<1>2. \A t \in Slot : cmd'[t].pc \in Auditing => cmd[t].pc \in Auditing /\ cmd'[t].n = cmd[t].n
  BY MoveSlots
<1>3. Alone'
  BY <1>2 DEF AuditInv, Alone
<1>4. ~Settled(n)
  BY <1>1 DEF Settled, UnderWay
<1>5. \A k : Settled(k) => Settled(k)' /\ log'[k] = log[k]
  BY <1>1, <1>2, <1>4 DEF Settled, UnderWay
<1>6. Keeps
  BY <1>5 DEF Keeps
<1>7. DataTyped'
  BY <1>1 DEF AuditInv, DataTyped
<1>. QED
  BY <1>1, <1>3, <1>6, <1>7, BatchesKept, Assembled

\* What follows a row: the member that is added is remembered as the row claims.
LEMMA RecordStep == ASSUME AuditInv, NEW s \in Slot, Record(s) PROVE AuditInv'
<1>. DEFINE d == cmd[s]
<1>1. d \in Command /\ Sound(d) /\ d.pc \in Auditing
  BY DEF AuditInv, AllSound, Record
<1>2. Row(s) /\ UNCHANGED <<ops, batches, faults>> /\ faults' \in 0 .. MaxFaults
  BY DEF Record, AuditInv, DataTyped
<1>3. CASE d.op # "resume_all"
  <2>1. Moves(s, Free)
    BY <1>3 DEF Record, Audited, End, Moves
  <2>2. Free.pc \notin Auditing
    BY DEF Free, Auditing
  <2>. QED
    BY <1>1, <1>2, <2>1, <2>2, FreeIsSound, SoundKept, RowStep
<1>4. CASE d.op = "resume_all"
  <2>1. PICK n \in OpIndex, claim \in Outcome :
          /\ n = cmd[s].n /\ claim = cmd[s].claim /\ n \in DOMAIN ops
          /\ log'[n] = Append(log[n], claim) /\ log[n] \in Seq(Outcome)
          /\ \A k : k # n => log'[k] = log[k]
    BY <1>1, <1>2, RowWritten
  <2>2. PICK c \in Command :
          /\ c.pc = IF d.todo = {} THEN "summary" ELSE "call"
          /\ c.todo = d.todo /\ c.n = 0 /\ c.claim = "failed" /\ c.op = d.op /\ c.b = d.b
          /\ c.members = d.members \cup {<<n, claim>>} /\ Moves(s, c)
    <3>. DEFINE e == [d EXCEPT !.pc = IF d.todo = {} THEN "summary" ELSE "call",
                               !.members = d.members \cup {<<d.n, d.claim>>},
                               !.n = 0, !.claim = "failed"]
    <3>1. Moves(s, e)
      BY <1>4 DEF Record, Audited, Moves
    <3>2. /\ e.pc = IF d.todo = {} THEN "summary" ELSE "call"
          /\ e.todo = d.todo /\ e.n = 0 /\ e.claim = "failed" /\ e.op = d.op /\ e.b = d.b
          /\ e.members = d.members \cup {<<n, claim>>}
      BY <1>1, <2>1 DEF Command
    <3>3. 0 \in 0 .. MaxOps /\ "failed" \in Outcome /\ <<n, claim>> \in OpIndex \X Outcome
      BY AdminAssumption DEF Outcome
    <3>4. e \in Command
      BY <1>1, <2>1, <3>3 DEF Command
    <3>. HIDE DEF e
    <3>. QED
      BY <3>1, <3>2, <3>4
  <2>5. c.pc \notin Auditing
    BY <2>2 DEF Auditing
  <2>6. ASSUME Keeps PROVE Sound(c)'
    <3>1. Claims(c)'
      BY <2>5 DEF Claims
    <3>2. Settled(n)'
      <4>1. \A t \in Slot : cmd'[t].pc \in Auditing => t # s /\ cmd[t].pc \in Auditing
                                                       /\ cmd'[t].n = cmd[t].n
        BY <2>2, <2>5, MoveSlots
      <4>2. ~UnderWay(n)'
        BY <1>1, <2>1, <4>1 DEF UnderWay, AuditInv, Alone
      <4>3. log'[n] # <<>>
        BY <2>1
      <4>. QED
        BY <1>2, <2>1, <4>2, <4>3 DEF Settled
    <3>3. Final(n)' = claim /\ claim # "rejected"
      BY <1>1, <1>4, <2>1 DEF Final, Sound, Claims
    <3>4. \A m \in d.members : Settled(m[1])' /\ Final(m[1])' = m[2] /\ m[2] # "rejected"
      BY <1>1, <2>6 DEF Keeps, Sound, Remembers, Final
    <3>5. Remembers(c)'
      BY <2>2, <3>2, <3>3, <3>4 DEF Remembers
    <3>6. Batched(c)'
      <4>1. d.b # 0 /\ d.b \in DOMAIN batches /\ Taken(d) = batches[d.b].folders
        BY <1>1, <1>4 DEF Sound, Batched, Auditing
      <4>2. Taken(c)' = {ops[m[1]].folder : m \in c.members} \cup d.todo
        BY <1>2, <2>2, <2>5 DEF Taken
      <4>3. {ops[m[1]].folder : m \in c.members}
              = {ops[m[1]].folder : m \in d.members} \cup {ops[n].folder}
        <5>. <<n, claim>>[1] = n
          OBVIOUS
        <5>. QED
          BY <2>2
      <4>4. Taken(d) = {ops[m[1]].folder : m \in d.members} \cup d.todo \cup {ops[n].folder}
        BY <1>1, <2>1 DEF Taken
      <4>5. Taken(c)' = Taken(d)
        BY <4>2, <4>3, <4>4
      <4>. QED
        BY <1>2, <1>4, <2>2, <4>1, <4>5 DEF Batched
    <3>. QED
      BY <3>1, <3>5, <3>6 DEF Sound
  <2>. QED
    BY <1>1, <1>2, <2>2, <2>5, <2>6, RowStep
<1>. QED
  BY <1>3, <1>4

LEMMA RecordFailsStep == ASSUME AuditInv, NEW s \in Slot, RecordFails(s) PROVE AuditInv'
<1>. DEFINE d == cmd[s]
<1>1. /\ d \in Command /\ Sound(d) /\ d.pc \in Auditing
      /\ UNCHANGED <<ops, batches>> /\ faults' \in 0 .. MaxFaults
  BY AdminAssumption DEF AuditInv, AllSound, DataTyped, RecordFails
<1>2. \E c \in Command : Moves(s, c) /\ Sound(c) /\ (c.pc \in Auditing => c.n = cmd[s].n)
  <2>1. CASE d.pc = "audit"
    <3>. DEFINE c == [d EXCEPT !.pc = "audit_last", !.claim = "failed"]
    <3>1. /\ c.pc = "audit_last" /\ c.claim = "failed" /\ c.todo = d.todo /\ c.n = d.n
          /\ c.op = d.op /\ c.members = d.members /\ c.b = d.b /\ c \in Command
      BY <1>1 DEF Command, Outcome
    <3>2. Moves(s, c)
      BY <1>1, <2>1 DEF Moves, RecordFails, AuditInv, Command
    <3>. HIDE DEF c
    <3>3. Claims(c) /\ Remembers(c)
      BY <1>1, <3>1 DEF Sound, Claims, Remembers, Auditing
    <3>4. Taken(c) = Taken(d)
      BY <1>1, <3>1 DEF Taken, Auditing
    <3>5. Batched(c)
      BY <1>1, <3>1, <3>4 DEF Sound, Batched, Auditing
    <3>. QED
      BY <3>1, <3>2, <3>3, <3>5 DEF Sound
  <2>2. CASE d.pc # "audit"
    <3>1. Moves(s, Free) /\ Free.pc \notin Auditing
      BY <2>2 DEF RecordFails, End, Moves, Free, Auditing
    <3>. QED
      BY <3>1, FreeIsSound
  <2>. QED
    BY <2>1, <2>2
<1>3. PICK c \in Command : Moves(s, c) /\ Sound(c) /\ (c.pc \in Auditing => c.n = cmd[s].n)
  BY <1>2
<1>4. cmd[s].pc \in Auditing /\ (Row(s) \/ UNCHANGED log)
  BY DEF RecordFails
<1>5. CASE Row(s)
  <2>1. Keeps => Sound(c)'
    BY <1>3, SoundKept
  <2>. QED
    BY <1>1, <1>3, <1>4, <1>5, <2>1, RowStep
<1>6. CASE UNCHANGED log
  BY <1>1, <1>3, <1>4, <1>6, QuietStep
<1>. QED
  BY <1>4, <1>5, <1>6

LEMMA AcceptStep == ASSUME AuditInv, NEW s \in Slot, NEW o \in Commands, Accept(s, o) PROVE AuditInv'
<1>0. PICK asked \in IF o = "resume" THEN {{f} : f \in Folder} ELSE {{}} :
        cmd' = [cmd EXCEPT ![s] = [Free EXCEPT !.pc = "call", !.op = o, !.todo = asked]]
  BY DEF Accept
<1>1. asked \subseteq Folder /\ (o = "resume_all" => asked = {})
  <2>1. CASE o = "resume"
    BY <2>1
  <2>2. CASE o # "resume"
    BY <2>2
  <2>. QED
    BY <2>1, <2>2
<1>. DEFINE c == [Free EXCEPT !.pc = "call", !.op = o, !.todo = asked]
<1>2. /\ c.pc = "call" /\ c.op = o /\ c.todo = asked /\ c.n = 0 /\ c.claim = "failed"
      /\ c.members = {} /\ c.b = 0
  BY DEF Free
<1>3. c \in Command
  BY <1>1, <1>2, FreeIsSound DEF Command
<1>4. Moves(s, c)
  BY <1>0 DEF Moves
<1>. HIDE DEF c
<1>5. Sound(c) /\ c.pc \notin Auditing
  BY <1>1, <1>2 DEF Sound, Claims, Remembers, Batched, Auditing
<1>6. UNCHANGED <<ops, log, batches>> /\ faults' \in 0 .. MaxFaults
  BY DEF Accept, AuditInv, DataTyped
<1>. QED
  BY <1>3, <1>4, <1>5, <1>6, QuietStep

LEMMA CallFailsStep == ASSUME AuditInv, NEW s \in Slot, CallFails(s) PROVE AuditInv'
<1>1. Moves(s, Free) /\ UNCHANGED <<ops, log, batches>> /\ faults' \in 0 .. MaxFaults
  BY AdminAssumption DEF CallFails, End, Moves, AuditInv, DataTyped
<1>2. Free.pc \notin Auditing
  BY DEF Free, Auditing
<1>. QED
  BY <1>1, <1>2, FreeIsSound, QuietStep

\* A command that resumes every publication begins.
LEMMA ListStep == ASSUME AuditInv, NEW s \in Slot, ListRetryable(s) PROVE AuditInv'
<1>1. PICK partial \in SUBSET Folder :
        /\ batches' = Append(batches, [folders |-> partial, members |-> {}, row |-> "none"])
        /\ cmd' = [cmd EXCEPT ![s].todo = partial, ![s].b = Len(batches) + 1,
                              ![s].pc = IF partial = {} THEN "summary" ELSE "call"]
  BY DEF ListRetryable
<1>2. /\ cmd[s] \in Command /\ Sound(cmd[s])
      /\ cmd[s].pc = "call" /\ cmd[s].op = "resume_all" /\ cmd[s].b = 0
  BY DEF AuditInv, AllSound, ListRetryable, At
<1>. DEFINE b == [folders |-> partial, members |-> {}, row |-> "none"]
<1>3. b \in Batch /\ b.folders = partial /\ b.members = {} /\ b.row = "none"
  BY DEF Batch
<1>4. batches \in Seq(Batch) /\ Len(batches) < MaxBatches
  BY DEF AuditInv, DataTyped, ListRetryable
<1>5. PICK new \in 1 .. MaxBatches : new = Len(batches) + 1
  BY <1>4, AdminAssumption
<1>6. batches' = Append(batches, b)
  BY <1>1
<1>. HIDE DEF b
<1>7. /\ batches' \in Seq(Batch) /\ Len(batches') <= MaxBatches
      /\ DOMAIN batches' = DOMAIN batches \cup {new} /\ batches'[new] = b
      /\ \A i \in DOMAIN batches : batches'[i] = batches[i]
  BY <1>3, <1>4, <1>5, <1>6, AdminAssumption
<1>8. UNCHANGED <<ops, log, faults>>
  BY DEF ListRetryable
<1>9. PICK c \in Command :
        /\ c.pc = IF partial = {} THEN "summary" ELSE "call"
        /\ c.todo = partial /\ c.b = new /\ c.op = "resume_all" /\ c.members = {}
        /\ Moves(s, c)
  <2>. DEFINE e == [cmd[s] EXCEPT !.todo = partial, !.b = new,
                                  !.pc = IF partial = {} THEN "summary" ELSE "call"]
  <2>1. cmd[s].members = {}
    BY <1>2 DEF Sound, Batched
  <2>2. /\ e.pc = IF partial = {} THEN "summary" ELSE "call"
        /\ e.todo = partial /\ e.b = new /\ e.op = "resume_all" /\ e.members = {}
        /\ e \in Command
    <3>. new \in 0 .. MaxBatches
      BY <1>5, AdminAssumption
    <3>. QED
      BY <1>2, <2>1 DEF Command
  <2>3. Moves(s, e)
    BY <1>1, <1>2, <1>5 DEF Moves, AuditInv, Command
  <2>. HIDE DEF e
  <2>. QED
    BY <2>2, <2>3
<1>10. c.pc \notin Auditing
  BY <1>9 DEF Auditing
<1>11. Alone' /\ \A n : Settled(n) => Settled(n)' /\ log'[n] = log[n]
  BY <1>8, <1>9, <1>10, AuditsKept
<1>12. Keeps
  BY <1>7, <1>8, <1>11 DEF Keeps
<1>13. Sound(c)'
  <2>1. Taken(c)' = partial
    BY <1>9, <1>10 DEF Taken
  <2>2. Batched(c)'
    BY <1>3, <1>5, <1>7, <1>9, <2>1 DEF Batched
  <2>. QED
    BY <1>9, <1>10, <2>2 DEF Sound, Claims, Remembers
<1>14. AllWritten'
  <2>1. Written(b)'
    BY <1>3 DEF Written
  <2>2. ASSUME NEW i \in DOMAIN batches', NEW d \in Batch, batches'[i] = d PROVE Written(d)'
    <3>1. CASE i = new
      BY <1>7, <2>1, <2>2, <3>1 DEF b
    <3>2. CASE i \in DOMAIN batches
      BY <1>7, <1>12, <2>2, <3>2, WrittenKept DEF AuditInv, AllWritten
    <3>. QED
      BY <1>7, <3>1, <3>2
  <2>. QED
    BY <2>2 DEF AllWritten
<1>15. DataTyped' /\ RowsKnown' /\ SuccessIsTrue'
  BY <1>7, <1>8 DEF AuditInv, DataTyped, RowsKnown, SuccessIsTrue
<1>. QED
  BY <1>9, <1>11, <1>12, <1>13, <1>14, <1>15, Assembled

\* What the members of a batch come to together.
LEMMA SummaryAgrees ==
    ASSUME NEW members \in SUBSET (OpIndex \X Outcome),
           \A m \in members : Final(m[1]) = m[2] /\ m[2] # "rejected"
    PROVE  LET row == Summary({m[2] : m \in members})
               ns  == {m[1] : m \in members}
           IN  /\ row \in Outcome
               /\ row = "failed" <=> \E n \in ns : Final(n) = "failed"
               /\ row = "skipped" <=> \A n \in ns : Final(n) = "skipped"
<1>. DEFINE ns == {m[1] : m \in members}  claims == {m[2] : m \in members}
<1>1. claims \subseteq {"succeeded", "failed", "skipped"}
  BY DEF Outcome
<1>2. \A o : o \in claims <=> \E n \in ns : Final(n) = o
  OBVIOUS
<1>. HIDE DEF ns, claims
<1>3. Summary(claims) = "failed" <=> "failed" \in claims
  BY DEF Summary
<1>4. Summary(claims) = "skipped" <=> "failed" \notin claims /\ "succeeded" \notin claims
  BY DEF Summary
<1>5. Summary(claims) \in Outcome
  BY DEF Summary, Outcome
<1>6. (\A n \in ns : Final(n) = "skipped") <=> ("failed" \notin claims /\ "succeeded" \notin claims)
  <2>1. \A n \in ns : Final(n) \in claims
    BY <1>2
  <2>. QED
    BY <1>1, <1>2, <2>1
<1>. QED
  BY <1>2, <1>3, <1>4, <1>5, <1>6 DEF ns, claims

LEMMA SummaryStep == ASSUME AuditInv, NEW s \in Slot, RecordSummary(s) PROVE AuditInv'
<1>1. cmd[s] \in Command /\ Sound(cmd[s]) /\ cmd[s].pc = "summary"
  BY DEF AuditInv, AllSound, RecordSummary, At
<1>2. PICK d \in Command : d = cmd[s]
  BY <1>1
<1>3. PICK ns, row :
        /\ ns = {m[1] : m \in d.members} /\ row = Summary({m[2] : m \in d.members})
  OBVIOUS
<1>4. /\ Moves(s, Free) /\ UNCHANGED <<ops, log>> /\ faults' \in 0 .. MaxFaults
      /\ batches' \in {[batches EXCEPT ![d.b].members = ns, ![d.b].row = row], batches}
  BY <1>2, <1>3, AdminAssumption DEF RecordSummary, End, Moves, AuditInv, DataTyped
<1>5. Free.pc \notin Auditing
  BY DEF Free, Auditing
<1>6. CASE batches' = batches
  BY <1>4, <1>5, <1>6, FreeIsSound, QuietStep
<1>7. CASE batches' = [batches EXCEPT ![d.b].members = ns, ![d.b].row = row]
  <2>1. /\ d.b \in DOMAIN batches /\ {ops[m[1]].folder : m \in d.members} = batches[d.b].folders
        /\ \A m \in d.members : Settled(m[1]) /\ Final(m[1]) = m[2] /\ m[2] # "rejected"
    BY <1>1, <1>2 DEF Sound, Batched, Remembers, Taken, Auditing
  <2>2. d.members \in SUBSET (OpIndex \X Outcome)
    BY DEF Command
  <2>3. batches \in Seq(Batch) /\ Len(batches) <= MaxBatches /\ batches[d.b] \in Batch
    BY <2>1, ElementOfSeq DEF AuditInv, DataTyped
  <2>4. /\ row \in Outcome
        /\ row = "failed" <=> \E n \in ns : Final(n) = "failed"
        /\ row = "skipped" <=> \A n \in ns : Final(n) = "skipped"
    BY <1>3, <2>1, <2>2, SummaryAgrees
  <2>5. ns \subseteq OpIndex /\ \A n \in ns : Settled(n)
    BY <1>3, <2>1, <2>2
  <2>6. {ops[n].folder : n \in ns} = batches[d.b].folders
    BY <1>3, <2>1
  <2>7. PICK b \in Batch :
          /\ b.folders = batches[d.b].folders /\ b.members = ns /\ b.row = row
          /\ batches' = [batches EXCEPT ![d.b] = b]
    <3>. DEFINE e == [batches[d.b] EXCEPT !.members = ns, !.row = row]
    <3>1. e.folders = batches[d.b].folders /\ e.members = ns /\ e.row = row /\ e \in Batch
      BY <2>3, <2>4, <2>5 DEF Batch
    <3>2. batches' = [batches EXCEPT ![d.b] = e]
      BY <1>7, <2>1, <2>3 DEF Batch
    <3>. HIDE DEF e
    <3>. QED
      BY <3>1, <3>2
  <2>8. /\ batches' \in Seq(Batch) /\ Len(batches') <= MaxBatches
        /\ DOMAIN batches' = DOMAIN batches /\ batches'[d.b] = b
        /\ \A i \in DOMAIN batches : i # d.b => batches'[i] = batches[i]
    BY <2>1, <2>3, <2>7
  <2>9. Alone' /\ \A n : Settled(n) => Settled(n)' /\ log'[n] = log[n]
    BY <1>4, <1>5, FreeIsSound, AuditsKept
  <2>10. Keeps
    BY <1>4, <2>7, <2>8, <2>9 DEF Keeps
  <2>11. Written(b)
    <3>1. \A n \in ns : log[n] # <<>>
      BY <2>5 DEF Settled
    <3>2. Agrees(b)
      BY <2>4, <2>6, <2>7, <3>1 DEF Agrees
    <3>. QED
      BY <2>5, <2>7, <3>2 DEF Written
  <2>12. AllWritten'
    <3>1. ASSUME NEW i \in DOMAIN batches', NEW x \in Batch, batches'[i] = x PROVE Written(x)'
      <4>1. CASE i = d.b
        BY <2>8, <2>10, <2>11, <3>1, <4>1, WrittenKept
      <4>2. CASE i # d.b
        <5>1. Written(x)
          BY <2>8, <3>1, <4>2 DEF AuditInv, AllWritten
        <5>. QED
          BY <2>10, <5>1, WrittenKept
      <4>. QED
        BY <4>1, <4>2
    <3>. QED
      BY <3>1 DEF AllWritten
  <2>13. Sound(Free)'
    BY <2>10, FreeIsSound, SoundKept
  <2>14. DataTyped' /\ RowsKnown' /\ SuccessIsTrue'
    BY <1>4, <2>8 DEF AuditInv, DataTyped, RowsKnown, SuccessIsTrue
  <2>. QED
    BY <1>4, <2>9, <2>10, <2>12, <2>13, <2>14, FreeIsSound, Assembled
<1>. QED
  BY <1>4, <1>6, <1>7

LEMMA CrashStep == ASSUME AuditInv, Crash PROVE AuditInv'
<1>1. /\ UNCHANGED <<ops, log, batches>> /\ faults' \in 0 .. MaxFaults
      /\ cmd' \in [Slot -> Command] /\ \A s \in Slot : cmd'[s] = Free
  BY AdminAssumption, FreeIsSound DEF Crash, AuditInv, DataTyped
<1>2. \A s \in Slot : cmd'[s].pc \notin Auditing
  BY <1>1 DEF Free, Auditing
<1>3. Alone' /\ Keeps
  BY <1>1, <1>2 DEF Alone, Keeps, Settled, UnderWay
<1>4. AllSound'
  BY <1>1, <1>3, FreeIsSound, SoundKept DEF AllSound
<1>5. AllWritten'
  BY <1>1, <1>3, BatchesKept
<1>6. DataTyped' /\ RowsKnown' /\ SuccessIsTrue'
  BY <1>1 DEF AuditInv, DataTyped, RowsKnown, SuccessIsTrue
<1>. QED
  BY <1>1, <1>3, <1>4, <1>5, <1>6 DEF AuditInv

\* The steps that end an operation, all of them in one form.
LEMMA OperationsEnd ==
    ASSUME AuditInv, NEW s \in Slot,
           \/ RunCycle(s) \/ ForceReanalysis(s)
           \/ \E f \in Folder : ResumePublication(s, f)
    PROVE  /\ cmd[s].pc = "call"
           /\ \E f \in Folder \cup {NoFolder}, came \in Came, claim \in Outcome, pc \in Auditing :
                /\ Ends(s, f, came, claim, pc) /\ Tells(came, claim)
                /\ cmd[s].op = "resume_all" => claim # "rejected" /\ f \in cmd[s].todo
<1>1. CASE RunCycle(s)
  <2>1. cmd[s].pc = "call" /\ cmd[s].op = "cycle"
    BY <1>1 DEF RunCycle, At
  <2>2. PICK r \in CycleResults : Ends(s, NoFolder, r[3], CycleOutcome(r[1], r[2]), "audit_last")
    BY <1>1 DEF RunCycle
  <2>3. /\ r[3] \in Came /\ CycleOutcome(r[1], r[2]) \in Outcome
        /\ Tells(r[3], CycleOutcome(r[1], r[2]))
    BY DEF CycleResults, CycleOutcome, Outcome, Came, Tells
  <2>4. "audit_last" \in Auditing
    BY DEF Auditing
  <2>. QED
    BY <2>1, <2>2, <2>3, <2>4
<1>2. CASE ForceReanalysis(s)
  <2>1. cmd[s].pc = "call" /\ cmd[s].op = "reanalyse"
    BY <1>2 DEF ForceReanalysis, At
  <2>2. \E came \in Came, claim \in Outcome, pc \in Auditing :
          Ends(s, NoFolder, came, claim, pc) /\ Tells(came, claim)
    <3>1. ASSUME NEW r \in {<<"analyzed", "reached">>, <<"reused", "reached">>,
                            <<"skipped", "skipped">>, <<"failed", "failed">>}
          PROVE  /\ r[2] \in Came /\ ReanalysisOutcome(r[1]) \in Outcome
                 /\ Tells(r[2], ReanalysisOutcome(r[1]))
      BY DEF ReanalysisOutcome, Came, Outcome, Tells
    <3>2. /\ "rejected" \in Came \cap Outcome /\ Tells("rejected", "rejected")
          /\ "failed" \in Came \cap Outcome /\ Tells("failed", "failed")
          /\ "audit" \in Auditing /\ "audit_last" \in Auditing
      BY DEF Came, Outcome, Auditing, Tells
    <3>. QED
      BY <1>2, <3>1, <3>2 DEF ForceReanalysis
  <2>. QED
    BY <2>1, <2>2
<1>3. CASE \E f \in Folder : ResumePublication(s, f)
  <2>1. PICK f \in Folder : ResumePublication(s, f)
    BY <1>3
  <2>2. cmd[s].pc = "call" /\ f \in cmd[s].todo
    BY <2>1 DEF ResumePublication, At
  <2>3. \E came \in Came, claim \in Outcome, pc \in Auditing :
          Ends(s, f, came, claim, pc) /\ Tells(came, claim) /\ claim # "rejected"
    <3>1. ASSUME NEW r \in ResumeResults
          PROVE  /\ r[2] \in Came /\ ResumeOutcome(r[1]) \in Outcome
                 /\ ResumeOutcome(r[1]) # "rejected" /\ Tells(r[2], ResumeOutcome(r[1]))
      BY DEF ResumeResults, ResumeOutcome, Came, Outcome, Tells
    <3>2. /\ "failed" \in Came \cap Outcome /\ Tells("failed", "failed")
          /\ "audit" \in Auditing /\ "audit_last" \in Auditing
      BY DEF Came, Outcome, Auditing, Tells
    <3>. QED
      BY <2>1, <3>1, <3>2 DEF ResumePublication
  <2>. QED
    BY <2>2, <2>3
<1>. QED
  BY <1>1, <1>2, <1>3

LEMMA AuditInvNext == AuditInv /\ [AdminNext]_adminVars => AuditInv'
<1>. SUFFICES ASSUME AuditInv, [AdminNext]_adminVars PROVE AuditInv'
  OBVIOUS
<1>1. CASE UNCHANGED adminVars
  <2>1. Keeps /\ Alone'
    BY <1>1 DEF adminVars, Keeps, Settled, UnderWay, AuditInv, Alone
  <2>2. AllSound' /\ AllWritten'
    BY <1>1, <2>1, SoundKept, WrittenKept DEF adminVars, AuditInv, AllSound, AllWritten
  <2>. QED
    BY <1>1, <2>1, <2>2 DEF adminVars, AuditInv, DataTyped, RowsKnown, SuccessIsTrue
<1>2. CASE Crash
  BY <1>2, CrashStep
<1>3. ASSUME NEW s \in Slot,
             \/ RunCycle(s) \/ ForceReanalysis(s)
             \/ \E f \in Folder : ResumePublication(s, f)
      PROVE  AuditInv'
  BY <1>3, OperationsEnd, EndsStep
<1>4. ASSUME NEW s \in Slot,
             \/ \E o \in Commands : Accept(s, o)
             \/ ListRetryable(s) \/ CallFails(s)
             \/ Record(s) \/ RecordFails(s) \/ RecordSummary(s)
      PROVE  AuditInv'
  BY <1>4, AcceptStep, ListStep, CallFailsStep, RecordStep, RecordFailsStep, SummaryStep
<1>. QED
  BY <1>1, <1>2, <1>3, <1>4 DEF AdminNext

(***************************************************************************)
(* A row that claims success is one of an operation that reached its goal  *)
(* or was answered as if it had; a command never audits as a success what  *)
(* failed or was refused.  The row of a batch covers the publications that *)
(* were listed and agrees with the last rows of its members.  For every    *)
(* number of commands, folders, operations and faults                      *)
(* (admin-ops-service.ts).                                                 *)
(***************************************************************************)
THEOREM LogInvHolds == AdminSpec => []LogInv
<1>1. AdminSpec => []AuditInv
  BY AuditInvInit, AuditInvNext, PTL DEF AdminSpec
<1>. QED
  BY <1>1, AuditInvImplies, PTL

-----------------------------------------------------------------------------
(* As long as nothing fails.                                               *)

\* The operation n is under way, or left its row.
Left(n) == \/ UnderWay(n)
           \/ \E claim \in Outcome : log[n] = <<claim>> /\ Tells(ops[n].came, claim)

RowsDue ==
    faults = 0 =>
      /\ \A s \in Slot : cmd[s].pc \in Auditing =>
            Tells(ops[cmd[s].n].came, cmd[s].claim) /\ log[cmd[s].n] = <<>>
      /\ \A n \in DOMAIN ops : Left(n)
      /\ \A i \in DOMAIN batches : BatchUnderWay(i) \/ batches[i].row # "none"

LEMMA RowsDueInit == AdminInit => RowsDue
BY DEF AdminInit, RowsDue, Free, Auditing

LEMMA EndsDue ==
    ASSUME AuditInv, RowsDue, faults = 0, NEW s \in Slot, NEW f, NEW came, NEW claim,
           NEW pc \in Auditing, Ends(s, f, came, claim, pc), cmd[s].pc = "call",
           Tells(came, claim)
    PROVE  RowsDue'
<1>. DEFINE new == Len(ops) + 1
<1>1. /\ cmd[s] \in Command /\ ops \in Seq(Operation) /\ Len(ops) \in Nat /\ Len(ops) < MaxOps
  BY DEF AuditInv, DataTyped, Ends
<1>2. new \in OpIndex /\ new \notin DOMAIN ops
  BY <1>1, AdminAssumption DEF OpIndex
<1>3. /\ DOMAIN ops' = DOMAIN ops \cup {new} /\ ops'[new].came = came
      /\ \A n \in DOMAIN ops : ops'[n] = ops[n]
  BY <1>1 DEF Ends
<1>4. /\ cmd'[s].pc = pc /\ cmd'[s].n = new /\ cmd'[s].claim = claim /\ cmd'[s].b = cmd[s].b
      /\ \A t \in Slot : t # s => cmd'[t] = cmd[t]
  BY <1>1 DEF Ends, AuditInv, Command
<1>5. UNCHANGED <<log, batches, faults>>
  BY DEF Ends
<1>. HIDE DEF new
<1>6. log[new] = <<>>
  BY <1>2 DEF AuditInv, RowsKnown
<1>7. \A t \in Slot : cmd[t].pc \in Auditing => cmd[t].n \in DOMAIN ops
  BY DEF AuditInv, AllSound, Sound, Claims
<1>8. ASSUME NEW t \in Slot, cmd'[t].pc \in Auditing
      PROVE  Tells(ops'[cmd'[t].n].came, cmd'[t].claim) /\ log'[cmd'[t].n] = <<>>
  <2>1. CASE t = s
    BY <1>3, <1>4, <1>5, <1>6, <2>1
  <2>2. CASE t # s
    BY <1>3, <1>4, <1>5, <1>7, <1>8, <2>2 DEF RowsDue
  <2>. QED
    BY <2>1, <2>2
<1>9. ASSUME NEW n \in DOMAIN ops' PROVE Left(n)'
  <2>1. CASE n = new
    BY <1>4, <2>1 DEF Left, UnderWay
  <2>2. ASSUME n \in DOMAIN ops, UnderWay(n) PROVE UnderWay(n)'
    BY <1>4, <2>2 DEF UnderWay, Auditing
  <2>3. CASE n \in DOMAIN ops
    BY <1>3, <1>5, <2>2, <2>3 DEF RowsDue, Left
  <2>. QED
    BY <1>3, <2>1, <2>3
<1>10. ASSUME NEW i \in DOMAIN batches PROVE BatchUnderWay(i)' \/ batches[i].row # "none"
  <2>1. BatchUnderWay(i) => BatchUnderWay(i)'
    BY <1>4 DEF BatchUnderWay
  <2>. QED
    BY <2>1 DEF RowsDue
<1>. QED
  BY <1>5, <1>8, <1>9, <1>10 DEF RowsDue

LEMMA AcceptDue ==
    ASSUME AuditInv, RowsDue, faults = 0, NEW s \in Slot, NEW o \in Commands, Accept(s, o)
    PROVE  RowsDue'
<1>1. cmd[s] \in Command /\ Sound(cmd[s]) /\ cmd[s].pc = "free"
  BY DEF AuditInv, AllSound, Accept
<1>2. cmd[s].b = 0
  BY <1>1 DEF Sound, Batched
<1>3. /\ cmd'[s].pc = "call" /\ \A t \in Slot : t # s => cmd'[t] = cmd[t]
  BY DEF Accept, Free, AuditInv
<1>4. UNCHANGED <<ops, log, batches, faults>>
  BY DEF Accept
<1>5. \A n : UnderWay(n) => UnderWay(n)'
  BY <1>1, <1>3 DEF UnderWay, Auditing
<1>6. \A i \in DOMAIN batches : BatchUnderWay(i) => BatchUnderWay(i)'
  <2>1. 0 \notin DOMAIN batches
    BY DEF AuditInv, DataTyped
  <2>. QED
    BY <1>2, <1>3, <2>1 DEF BatchUnderWay
<1>7. \A t \in Slot : cmd'[t].pc \in Auditing => cmd[t].pc \in Auditing /\ cmd'[t] = cmd[t]
  BY <1>3 DEF Auditing
<1>8. \A n \in DOMAIN ops : Left(n)'
  BY <1>4, <1>5 DEF RowsDue, Left
<1>. QED
  BY <1>4, <1>6, <1>7, <1>8 DEF RowsDue

LEMMA ListDue ==
    ASSUME AuditInv, RowsDue, faults = 0, NEW s \in Slot, ListRetryable(s)
    PROVE  RowsDue'
<1>1. PICK partial \in SUBSET Folder :
        /\ batches' = Append(batches, [folders |-> partial, members |-> {}, row |-> "none"])
        /\ cmd' = [cmd EXCEPT ![s].todo = partial, ![s].b = Len(batches) + 1,
                              ![s].pc = IF partial = {} THEN "summary" ELSE "call"]
  BY DEF ListRetryable
<1>2. /\ cmd[s] \in Command /\ batches \in Seq(Batch)
      /\ cmd[s].pc = "call" /\ cmd[s].b = 0 /\ UNCHANGED <<ops, log, faults>>
  BY DEF AuditInv, DataTyped, ListRetryable, At
<1>3. /\ cmd'[s].pc \notin Auditing /\ cmd'[s].b = Len(batches) + 1
      /\ \A t \in Slot : t # s => cmd'[t] = cmd[t]
  BY <1>1, <1>2 DEF AuditInv, Command, Auditing
<1>4. /\ DOMAIN batches' = DOMAIN batches \cup {Len(batches) + 1} /\ 0 \notin DOMAIN batches
      /\ \A i \in DOMAIN batches : batches'[i] = batches[i]
  BY <1>1, <1>2
<1>5. \A n : UnderWay(n) => UnderWay(n)'
  BY <1>2, <1>3 DEF UnderWay, Auditing
<1>6. \A i \in DOMAIN batches : BatchUnderWay(i) => BatchUnderWay(i)'
  BY <1>2, <1>3, <1>4 DEF BatchUnderWay
<1>7. PICK new : new = Len(batches) + 1
  OBVIOUS
<1>8. BatchUnderWay(new)'
  BY <1>2, <1>3, <1>7 DEF BatchUnderWay
<1>9. \A t \in Slot : cmd'[t].pc \in Auditing => cmd[t].pc \in Auditing /\ cmd'[t] = cmd[t]
  BY <1>3
<1>10. \A n \in DOMAIN ops : Left(n)'
  BY <1>2, <1>5 DEF RowsDue, Left
<1>11. \A i \in DOMAIN batches' : BatchUnderWay(i)' \/ batches'[i].row # "none"
  BY <1>4, <1>6, <1>7, <1>8 DEF RowsDue
<1>. QED
  BY <1>2, <1>9, <1>10, <1>11 DEF RowsDue

LEMMA RecordedDue ==
    ASSUME AuditInv, RowsDue, faults = 0, NEW s \in Slot, Record(s)
    PROVE  RowsDue'
<1>1. /\ cmd[s] \in Command /\ Sound(cmd[s]) /\ cmd[s].pc \in Auditing
      /\ Row(s) /\ UNCHANGED <<ops, batches, faults>>
  BY DEF AuditInv, AllSound, Record
<1>2. PICK n \in OpIndex, claim \in Outcome :
        /\ n = cmd[s].n /\ claim = cmd[s].claim /\ n \in DOMAIN ops
        /\ log'[n] = Append(log[n], claim) /\ log[n] \in Seq(Outcome)
        /\ \A k : k # n => log'[k] = log[k]
  BY <1>1, RowWritten
<1>3. log[n] = <<>> /\ Tells(ops[n].came, claim)
  BY <1>1, <1>2 DEF RowsDue
<1>4. log'[n] = <<claim>>
  BY <1>2, <1>3
<1>5. /\ cmd'[s].pc \notin Auditing /\ cmd'[s].b = cmd[s].b
      /\ \A t \in Slot : t # s => cmd'[t] = cmd[t]
  <2>1. CASE cmd[s].op # "resume_all"
    <3>1. cmd' = [cmd EXCEPT ![s] = Free]
      BY <2>1 DEF Record, Audited, End
    <3>2. cmd[s].b = 0
      BY <1>1, <2>1 DEF Sound, Batched
    <3>. QED
      BY <3>1, <3>2 DEF Free, Auditing, AuditInv
  <2>2. CASE cmd[s].op = "resume_all"
    <3>. DEFINE pc == IF cmd[s].todo = {} THEN "summary" ELSE "call"
                members == cmd[s].members \cup {<<cmd[s].n, cmd[s].claim>>}
    <3>1. cmd' = [cmd EXCEPT ![s] = [cmd[s] EXCEPT !.pc = pc, !.members = members,
                                                   !.n = 0, !.claim = "failed"]]
      BY <2>2 DEF Record, Audited
    <3>2. pc \notin Auditing
      BY DEF Auditing
    <3>. HIDE DEF pc, members
    <3>. QED
      BY <1>1, <3>1, <3>2 DEF AuditInv, Command
  <2>. QED
    BY <2>1, <2>2
<1>6. \A k : UnderWay(k) => UnderWay(k)' \/ k = n
  BY <1>2, <1>5 DEF UnderWay
<1>7. \A k \in DOMAIN ops : Left(k)'
  BY <1>1, <1>2, <1>3, <1>4, <1>6 DEF RowsDue, Left
<1>8. ASSUME NEW t \in Slot, cmd'[t].pc \in Auditing
      PROVE  Tells(ops'[cmd'[t].n].came, cmd'[t].claim) /\ log'[cmd'[t].n] = <<>>
  <2>1. t # s /\ cmd'[t] = cmd[t]
    BY <1>5, <1>8
  <2>2. cmd[t].n # n
    BY <1>1, <1>2, <1>8, <2>1 DEF AuditInv, Alone
  <2>. QED
    BY <1>1, <1>2, <1>8, <2>1, <2>2 DEF RowsDue
<1>9. \A i : BatchUnderWay(i) => BatchUnderWay(i)'
  BY <1>5 DEF BatchUnderWay
<1>. QED
  BY <1>1, <1>7, <1>8, <1>9 DEF RowsDue

LEMMA SummaryDue ==
    ASSUME AuditInv, RowsDue, faults = 0, faults' = 0, NEW s \in Slot, RecordSummary(s)
    PROVE  RowsDue'
<1>1. /\ cmd[s] \in Command /\ Sound(cmd[s]) /\ cmd[s].pc = "summary" /\ UNCHANGED <<ops, log>>
      /\ batches \in Seq(Batch)
  BY DEF AuditInv, AllSound, DataTyped, RecordSummary, At
<1>2. PICK b \in DOMAIN batches : b = cmd[s].b
  BY <1>1 DEF Sound, Batched
<1>3. /\ DOMAIN batches' = DOMAIN batches /\ batches'[b].row # "none"
      /\ \A i \in DOMAIN batches : i # b => batches'[i] = batches[i]
  <2>. DEFINE members == {m[1] : m \in cmd[s].members}
              outcome == Summary({m[2] : m \in cmd[s].members})
  <2>1. batches' = [batches EXCEPT ![cmd[s].b].members = members, ![cmd[s].b].row = outcome]
    BY DEF RecordSummary
  <2>2. outcome # "none"
    BY DEF Summary
  <2>3. batches[b] \in Batch
    BY <1>1, <1>2, ElementOfSeq
  <2>. HIDE DEF members, outcome
  <2>. QED
    BY <1>2, <2>1, <2>2, <2>3 DEF Batch
<1>4. /\ cmd'[s].pc = "free" /\ \A t \in Slot : t # s => cmd'[t] = cmd[t]
  BY DEF RecordSummary, End, Free, AuditInv
<1>5. \A n : UnderWay(n) => UnderWay(n)'
  BY <1>1, <1>4 DEF UnderWay, Auditing
<1>6. \A i : BatchUnderWay(i) => BatchUnderWay(i)' \/ i = b
  BY <1>2, <1>4 DEF BatchUnderWay
<1>7. \A i \in DOMAIN batches' : BatchUnderWay(i)' \/ batches'[i].row # "none"
  BY <1>3, <1>6 DEF RowsDue
<1>8. \A t \in Slot : cmd'[t].pc \in Auditing => cmd[t].pc \in Auditing /\ cmd'[t] = cmd[t]
  BY <1>4 DEF Auditing
<1>9. \A n \in DOMAIN ops : Left(n)'
  BY <1>1, <1>5 DEF RowsDue, Left
<1>. QED
  BY <1>1, <1>7, <1>8, <1>9 DEF RowsDue

LEMMA RowsDueNext == AuditInv /\ RowsDue /\ [AdminNext]_adminVars => RowsDue'
<1>. SUFFICES ASSUME AuditInv, RowsDue, [AdminNext]_adminVars PROVE RowsDue'
  OBVIOUS
<1>. SUFFICES ASSUME faults' = 0 PROVE RowsDue'
  BY DEF RowsDue
<1>1. CASE UNCHANGED adminVars
  BY <1>1 DEF adminVars, RowsDue, Left, UnderWay, BatchUnderWay
<1>2. CASE AdminNext
  <2>0. faults \in Nat
    BY AdminAssumption DEF AuditInv, DataTyped
  <2>1. ASSUME NEW s \in Slot,
               \/ RunCycle(s) \/ ForceReanalysis(s)
               \/ \E f \in Folder : ResumePublication(s, f)
        PROVE  RowsDue'
    <3>1. PICK f \in Folder \cup {NoFolder}, came \in Came, claim \in Outcome, pc \in Auditing :
            Ends(s, f, came, claim, pc) /\ Tells(came, claim)
      BY <2>1, OperationsEnd
    <3>2. cmd[s].pc = "call" /\ faults = 0
      BY <2>1, <3>1, OperationsEnd DEF Ends
    <3>. QED
      BY <3>1, <3>2, EndsDue
  <2>2. ASSUME NEW s \in Slot,
               CallFails(s) \/ RecordFails(s) \/ Crash
        PROVE  FALSE
    BY <2>0, <2>2 DEF CallFails, RecordFails, Crash
  <2>3. ASSUME NEW s \in Slot, NEW o \in Commands, Accept(s, o) PROVE RowsDue'
    BY <2>3, AcceptDue DEF Accept
  <2>4. ASSUME NEW s \in Slot, ListRetryable(s) PROVE RowsDue'
    BY <2>4, ListDue DEF ListRetryable
  <2>5. ASSUME NEW s \in Slot, Record(s) PROVE RowsDue'
    BY <2>5, RecordedDue DEF Record
  <2>6. ASSUME NEW s \in Slot, RecordSummary(s) PROVE RowsDue'
    <3>1. faults = 0
      BY <2>0, <2>6 DEF RecordSummary
    <3>. QED
      BY <2>6, <3>1, SummaryDue
  <2>7. ~Crash
    BY <2>0 DEF Crash
  <2>. QED
    BY <1>2, <2>1, <2>2, <2>3, <2>4, <2>5, <2>6, <2>7 DEF AdminNext
<1>. QED
  BY <1>1, <1>2

(***************************************************************************)
(* When no write of the audit fails and the bot does not die, every        *)
(* operation that ended left one row, rejected ones included, which tells  *)
(* what it came to, and every batch left its row, an empty one included.   *)
(***************************************************************************)
THEOREM OneRowEachHolds == AdminSpec => []OneRowEach
<1>1. AuditInv /\ RowsDue => OneRowEach
  BY DEF RowsDue, OneRowEach, Left
<1>2. AdminSpec => [](AuditInv /\ RowsDue)
  BY AuditInvInit, AuditInvNext, RowsDueInit, RowsDueNext, PTL DEF AdminSpec
<1>. QED
  BY <1>1, <1>2, PTL
=============================================================================
