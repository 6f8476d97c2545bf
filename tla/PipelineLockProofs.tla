------------------------- MODULE PipelineLockProofs -------------------------
(***************************************************************************)
(* Proofs about PipelineLock, for every set of holders, every TTL,         *)
(* heartbeat interval and delay the assumptions allow, and any number of   *)
(* runs and faults.                                                        *)
(***************************************************************************)
EXTENDS PipelineLock, TLAPS

\* The lock row and the run it names agree; no other run is running.
LockInv ==
    /\ lock.run = NoRun <=> lock.holder = NoHolder
    /\ lock.run # NoRun =>
          runs[lock.run].status = "running" /\ runs[lock.run].holder = lock.holder
    /\ \A r \in RunId : runs[r].status = "running" => lock.run = r

\* An active cycle has a run of its own; a heartbeat comes from a run that exists.
CycleInv ==
    /\ \A h \in Holder :
          IF cyc[h].pc \in Active
          THEN /\ cyc[h].run \in RunId
               /\ runs[cyc[h].run].status # "absent"
               /\ runs[cyc[h].run].holder = h
          ELSE cyc[h].run = NoRun /\ ~cyc[h].lost
    /\ \A b \in beats : runs[b.run].status # "absent"

\* The only run its holder may hold the lock for is that of its active cycle.
HolderInv ==
    \A h \in Holder : cyc[h].pc \in Active /\ lock.holder = h => lock.run = cyc[h].run

\* A heartbeat of the current cycle of h is on its way.
Pending(h) == \E b \in beats : b.holder = h /\ b.run = cyc[h].run

\* Why a prompt cycle is never robbed.  The expiry was last renewed at most one
\* delay before the timer fired, plus one interval for a heartbeat on its way
\* and one for a heartbeat refused.
Renewed(h) ==
    LockTtl - lock.left <=
        cyc[h].since + MaxDelay
        + (IF cyc[h].misses = 1 THEN HeartbeatInterval ELSE 0)
        + (IF Pending(h) THEN HeartbeatInterval ELSE 0)

PromptBeats(h) ==
    \A b \in beats : b.holder = h =>
        /\ cyc[h].since <= b.age /\ b.age <= MaxDelay
        /\ b.run = cyc[h].run => b.age = cyc[h].since

IsPrompt(h) == cyc[h].pc \in Active /\ cyc[h].pace = "prompt"

OnTime(h) ==
    IsPrompt(h) =>
        /\ lock.holder = h
        /\ cyc[h].misses <= 1
        /\ PromptBeats(h)
        /\ Renewed(h)

PromptInv == \A h \in Holder : OnTime(h)

-----------------------------------------------------------------------------
USE DEF RunId, NoRun, Terminal, Active

RunKnown == \A h \in Holder : cyc[h].pc \in Active => cyc[h].run \in RunId
TypeInv == TypeOK /\ RunKnown

LEMMA TypeInit == Init => TypeInv
  BY ConfigAssumption, BoundAssumption
     DEF Init, TypeInv, TypeOK, RunKnown, LockRow, RunRow, Cycle, Beat, FreeLock,
         NoCycle, NewCycle

\* What the updates of a row of each kind leave alone.
LEMMA LockUpdate ==
    ASSUME NEW l \in LockRow, NEW n \in 0 .. LockTtl, NEW m, m = [l EXCEPT !.left = n]
    PROVE  m \in LockRow /\ m.run = l.run /\ m.holder = l.holder /\ m.left = n
  BY DEF LockRow

LEMMA BeatUpdate ==
    ASSUME NEW b \in Beat, NEW n \in 0 .. LockTtl, NEW m, m = [b EXCEPT !.age = n]
    PROVE  m \in Beat /\ m.holder = b.holder /\ m.run = b.run /\ m.age = n
  BY DEF Beat

\* The updates the steps make to a cycle, field by field.
LEMMA CyclePc ==
    ASSUME NEW c \in Cycle, NEW d, d = [c EXCEPT !.pc = "releasing"]
    PROVE  /\ d \in Cycle /\ d.pc = "releasing" /\ d.run = c.run /\ d.lost = c.lost
           /\ d.since = c.since /\ d.misses = c.misses /\ d.pace = c.pace
  BY DEF Cycle, Active

LEMMA CycleSince ==
    ASSUME NEW c \in Cycle, NEW n \in 0 .. HeartbeatInterval, NEW d, d = [c EXCEPT !.since = n]
    PROVE  /\ d \in Cycle /\ d.pc = c.pc /\ d.run = c.run /\ d.lost = c.lost
           /\ d.since = n /\ d.misses = c.misses /\ d.pace = c.pace
  BY DEF Cycle

LEMMA CycleMisses ==
    ASSUME NEW c \in Cycle, NEW n \in 0 .. 2, NEW d, d = [c EXCEPT !.misses = n]
    PROVE  /\ d \in Cycle /\ d.pc = c.pc /\ d.run = c.run /\ d.lost = c.lost
           /\ d.since = c.since /\ d.misses = n /\ d.pace = c.pace
  BY DEF Cycle

LEMMA CycleLost ==
    ASSUME NEW c \in Cycle, NEW d, d = [c EXCEPT !.lost = TRUE]
    PROVE  /\ d \in Cycle /\ d.pc = c.pc /\ d.run = c.run /\ d.lost
           /\ d.since = c.since /\ d.misses = c.misses /\ d.pace = c.pace
  BY DEF Cycle

LEMMA CyclePaced ==
    ASSUME NEW c \in Cycle, NEW x
    PROVE  LET d == Paced(c, x) IN
           /\ d \in Cycle /\ d.pc = c.pc /\ d.run = c.run /\ d.lost = c.lost
           /\ d.since = c.since /\ d.misses = c.misses
           /\ d.pace = "prompt" <=> c.pace = "prompt" /\ ~x
  BY DEF Cycle, Paced, Pace

LEMMA CycleMissed ==
    ASSUME NEW c \in Cycle
    PROVE  LET d == Missed(c) IN
           /\ d \in Cycle /\ d.pc = c.pc /\ d.run = c.run /\ d.lost = c.lost
           /\ d.since = c.since /\ d.misses = Capped(c.misses, 2)
           /\ d.pace = "prompt" <=> c.pace = "prompt" /\ c.misses = 0
<1> DEFINE e == [c EXCEPT !.misses = Capped(c.misses, 2)]
<1>1. Capped(c.misses, 2) \in 0 .. 2 /\ c.misses \in 0 .. 2
  BY DEF Cycle, Capped
<1>2. /\ e \in Cycle /\ e.pc = c.pc /\ e.run = c.run /\ e.lost = c.lost
      /\ e.since = c.since /\ e.misses = Capped(c.misses, 2) /\ e.pace = c.pace
  BY <1>1, CycleMisses
<1> DEFINE x == c.misses >= 1
<1> DEFINE d == Paced(e, x)
<1>3. x <=> c.misses # 0
  BY <1>1
<1>4. /\ d \in Cycle /\ d.pc = e.pc /\ d.run = e.run /\ d.lost = e.lost
      /\ d.since = e.since /\ d.misses = e.misses
      /\ d.pace = "prompt" <=> e.pace = "prompt" /\ ~x
  <2> HIDE DEF e, x
  <2> QED
    BY <1>2, CyclePaced
<1>5. Missed(c) = d
  BY DEF Missed
<1> HIDE DEF d, e, x
<1> QED
  BY <1>2, <1>3, <1>4, <1>5

LEMMA CycleNew ==
    ASSUME NEW r \in RunId, NEW x \in {"prompt", "disturbed"}
    PROVE  /\ NewCycle("working", r, x) \in Cycle
           /\ NewCycle("dead", NoRun, "prompt") \in Cycle
           /\ NoCycle \in Cycle
  BY ConfigAssumption DEF NewCycle, NoCycle, Cycle

\* A cycle replaced by one of the right type.
LEMMA CycleSet ==
    ASSUME cyc \in [Holder -> Cycle], RunKnown, NEW h \in Holder, NEW c \in Cycle,
           c.pc \in Active => c.run \in RunId, cyc' = [cyc EXCEPT ![h] = c]
    PROVE  cyc' \in [Holder -> Cycle] /\ RunKnown'
  BY DEF RunKnown

\* One unit of time over the cycle of a holder.
LEMMA Ticked ==
    ASSUME TypeInv, Tick, NEW h \in Holder
    PROVE  /\ cyc'[h] \in Cycle /\ cyc'[h].pc = cyc[h].pc /\ cyc'[h].run = cyc[h].run
           /\ cyc'[h].lost = cyc[h].lost /\ cyc'[h].misses = cyc[h].misses
           /\ cyc[h].pc \in Active => cyc'[h].since = Capped(cyc[h].since, HeartbeatInterval)
           /\ cyc'[h].pace = "prompt" <=> cyc[h].pace = "prompt" /\ ~Overdue(h)
<1> DEFINE n == IF cyc[h].pc \in Active THEN Capped(cyc[h].since, HeartbeatInterval)
                ELSE cyc[h].since
<1> DEFINE e == [cyc[h] EXCEPT !.since = n]
<1>1. cyc[h] \in Cycle /\ n \in 0 .. HeartbeatInterval
  BY ConfigAssumption DEF TypeInv, TypeOK, Cycle, Capped
<1>2. /\ e \in Cycle /\ e.pc = cyc[h].pc /\ e.run = cyc[h].run /\ e.lost = cyc[h].lost
      /\ e.since = n /\ e.misses = cyc[h].misses /\ e.pace = cyc[h].pace
  <2> HIDE DEF n
  <2> QED
    BY <1>1, CycleSince
<1>3. cyc'[h] = Paced(e, Overdue(h))
  BY DEF Tick
<1>4. cyc[h].pc \in Active => n = Capped(cyc[h].since, HeartbeatInterval)
  OBVIOUS
<1> HIDE DEF e, n
<1> QED
  BY <1>2, <1>3, <1>4, CyclePaced

\* Every step preserves the types.
LEMMA TypeStep == TypeInv /\ [Next]_vars => TypeInv'
<1> SUFFICES ASSUME TypeInv, [Next]_vars PROVE TypeInv'
  OBVIOUS
<1>L. lock \in LockRow
  BY DEF TypeInv, TypeOK
<1>R. runs \in [RunId -> RunRow]
  BY DEF TypeInv, TypeOK
<1>C. cyc \in [Holder -> Cycle] /\ RunKnown
  BY DEF TypeInv, TypeOK
<1>B. \A b \in beats : b \in Beat /\ b.holder \in Holder /\ b.age \in 0 .. LockTtl
  BY DEF TypeInv, TypeOK, Beat
<1>F. faults \in 0 .. MaxFaults
  BY DEF TypeInv, TypeOK
<1>S. ASSUME lock' \in LockRow, runs' \in [RunId -> RunRow],
             cyc' \in [Holder -> Cycle], RunKnown',
             \A b \in beats' : b \in Beat, faults' \in 0 .. MaxFaults
      PROVE  TypeInv'
  BY <1>S DEF TypeInv, TypeOK
<1>fault. ASSUME Fault PROVE faults' \in 0 .. MaxFaults
  BY <1>fault, <1>F, BoundAssumption DEF Fault
<1>idle. NoCycle \in Cycle /\ NoCycle.pc = "idle"
  BY ConfigAssumption DEF NoCycle, NewCycle, Cycle
<1>take. ASSUME NEW h \in Holder, NEW r \in RunId, NEW a \in 0 .. LockTtl,
               TryAcquire(h, r, a)
         PROVE  lock' \in LockRow /\ runs' \in [RunId -> RunRow]
  <2>1. lock' \in LockRow
    BY <1>take, ConfigAssumption DEF TryAcquire, LockRow
  <2>2. runs' \in [RunId -> RunRow]
    BY <1>take, <1>R DEF TryAcquire, RunRow
  <2> QED
    BY <2>1, <2>2
<1>1. ASSUME NEW h \in Holder, NEW r \in RunId, NEW a \in 0 .. LockTtl, Acquire(h, r, a)
      PROVE  TypeInv'
  <2> DEFINE c == NewCycle("working", r, Pace(a > MaxDelay \/ SlowBeat(h)))
  <2>1. c \in Cycle /\ (c.pc \in Active => c.run \in RunId)
    BY ConfigAssumption DEF NewCycle, Cycle, Pace
  <2>2. cyc' = [cyc EXCEPT ![h] = c]
    BY <1>1 DEF Acquire
  <2>3. cyc' \in [Holder -> Cycle] /\ RunKnown'
    <3> HIDE DEF c
    <3> QED
      BY <1>C, <2>1, <2>2, CycleSet
  <2>4. lock' \in LockRow /\ runs' \in [RunId -> RunRow]
    BY <1>1, <1>take DEF Acquire
  <2>5. beats' = beats /\ faults' \in 0 .. MaxFaults
    BY <1>1, <1>F, <1>fault DEF Acquire
  <2> QED
    BY <1>S, <1>B, <2>3, <2>4, <2>5
<1>2. ASSUME NEW h \in Holder, NEW r \in RunId, AcquireUnanswered(h, r)
      PROVE  TypeInv'
  <2>1. lock' \in LockRow /\ runs' \in [RunId -> RunRow]
    BY <1>2, <1>take, ConfigAssumption DEF AcquireUnanswered
  <2>2. cyc' = cyc /\ beats' = beats /\ faults' \in 0 .. MaxFaults
    BY <1>2, <1>fault DEF AcquireUnanswered
  <2> QED
    BY <1>S, <1>B, <1>C, <2>1, <2>2 DEF RunKnown
<1>3. ASSUME NEW h \in Holder, SendBeat(h) PROVE TypeInv'
  <2> DEFINE c == [cyc[h] EXCEPT !.since = 0]
  <2>1. c \in Cycle /\ c.pc = cyc[h].pc /\ c.run = cyc[h].run
    BY <1>C, CycleSince, ConfigAssumption
  <2>2. cyc' = [cyc EXCEPT ![h] = c] /\ cyc[h].run \in RunId
    BY <1>3, <1>C DEF SendBeat, RunKnown
  <2>3. cyc' \in [Holder -> Cycle] /\ RunKnown'
    <3> HIDE DEF c
    <3> QED
      BY <1>C, <2>1, <2>2, CycleSet
  <2>4. [holder |-> h, run |-> cyc[h].run, age |-> 0] \in Beat
    BY <2>2, ConfigAssumption DEF Beat
  <2>5. \A b \in beats' : b \in Beat
    BY <1>3, <1>B, <2>4 DEF SendBeat
  <2>6. lock' = lock /\ runs' = runs /\ faults' = faults
    BY <1>3 DEF SendBeat
  <2> QED
    BY <1>S, <1>L, <1>R, <1>F, <2>3, <2>5, <2>6
<1>4. ASSUME NEW h \in Holder, Finish(h) PROVE TypeInv'
  <2> DEFINE c == [cyc[h] EXCEPT !.pc = "releasing"]
  <2>1. c \in Cycle /\ c.run = cyc[h].run
    BY <1>C, CyclePc
  <2>2. cyc' = [cyc EXCEPT ![h] = c] /\ cyc[h].run \in RunId
    BY <1>4, <1>C DEF Finish, RunKnown
  <2>3. cyc' \in [Holder -> Cycle] /\ RunKnown'
    <3> HIDE DEF c
    <3> QED
      BY <1>C, <2>1, <2>2, CycleSet
  <2>4. lock' = lock /\ runs' = runs /\ beats' = beats /\ faults' = faults
    BY <1>4 DEF Finish
  <2> QED
    BY <1>S, <1>L, <1>R, <1>B, <1>F, <2>3, <2>4
<1>5. ASSUME NEW h \in Holder, Release(h) PROVE TypeInv'
  <2>1. cyc' \in [Holder -> Cycle] /\ RunKnown'
    BY <1>C, <1>5, <1>idle, CycleSet DEF Release
  <2>2. lock' \in LockRow
    BY <1>L, <1>5, ConfigAssumption DEF Release, FreeLock, LockRow
  <2>3. runs' \in [RunId -> RunRow]
    BY <1>R, <1>5 DEF Release, RunRow
  <2>4. beats' = beats /\ faults' = faults
    BY <1>5 DEF Release
  <2> QED
    BY <1>S, <1>B, <1>F, <2>1, <2>2, <2>3, <2>4
<1>6. ASSUME NEW h \in Holder, ReleaseError(h) PROVE TypeInv'
  <2>1. cyc' \in [Holder -> Cycle] /\ RunKnown'
    BY <1>C, <1>6, <1>idle, CycleSet DEF ReleaseError
  <2>2. lock' = lock /\ runs' = runs /\ beats' = beats /\ faults' \in 0 .. MaxFaults
    BY <1>6, <1>fault DEF ReleaseError
  <2> QED
    BY <1>S, <1>L, <1>R, <1>B, <2>1, <2>2
<1>7. ASSUME NEW h \in Holder, Crash(h) PROVE TypeInv'
  <2> DEFINE c == NewCycle("dead", NoRun, "prompt")
  <2>1. c \in Cycle /\ c.pc = "dead"
    BY ConfigAssumption DEF NewCycle, Cycle
  <2>2. cyc' = [cyc EXCEPT ![h] = c]
    BY <1>7 DEF Crash
  <2>3. cyc' \in [Holder -> Cycle] /\ RunKnown'
    <3> HIDE DEF c
    <3> QED
      BY <1>C, <2>1, <2>2, CycleSet
  <2>4. lock' = lock /\ runs' = runs /\ beats' = beats /\ faults' \in 0 .. MaxFaults
    BY <1>7, <1>fault DEF Crash
  <2> QED
    BY <1>S, <1>L, <1>R, <1>B, <2>3, <2>4
<1>beat. ASSUME NEW h \in Holder, NEW c \in Cycle, c.pc = cyc[h].pc, c.run = cyc[h].run,
                cyc' = [cyc EXCEPT ![h] = c] \/ cyc' = cyc
         PROVE  cyc' \in [Holder -> Cycle] /\ RunKnown'
  <2>1. c.pc \in Active => c.run \in RunId
    BY <1>beat, <1>C DEF RunKnown
  <2>2. CASE cyc' = cyc
    BY <2>2, <1>C DEF RunKnown
  <2> QED
    BY <1>C, <1>beat, <2>1, <2>2, CycleSet
<1>8. ASSUME NEW b \in beats, Heartbeat(b) PROVE TypeInv'
  <2> DEFINE c == [cyc[b.holder] EXCEPT !.misses = 0]
  <2>1. c \in Cycle /\ c.pc = cyc[b.holder].pc /\ c.run = cyc[b.holder].run
    BY <1>B, <1>C, CycleMisses
  <2>2. cyc' = [cyc EXCEPT ![b.holder] = c] \/ cyc' = cyc
    BY <1>8 DEF Heartbeat
  <2>3. cyc' \in [Holder -> Cycle] /\ RunKnown'
    <3> HIDE DEF c
    <3> QED
      BY <1>B, <1>beat, <2>1, <2>2
  <2>4. LockTtl - b.age \in 0 .. LockTtl
    BY <1>B, ConfigAssumption
  <2>5. lock' \in LockRow
    BY <1>8, <1>L, <2>4, LockUpdate DEF Heartbeat
  <2>6. runs' = runs /\ beats' \subseteq beats /\ faults' = faults
    BY <1>8 DEF Heartbeat
  <2> QED
    BY <1>S, <1>R, <1>B, <1>F, <2>3, <2>5, <2>6
<1>9. ASSUME NEW b \in beats, HeartbeatRefused(b) PROVE TypeInv'
  <2> DEFINE c == [cyc[b.holder] EXCEPT !.lost = TRUE]
  <2>1. c \in Cycle /\ c.pc = cyc[b.holder].pc /\ c.run = cyc[b.holder].run
    BY <1>B, <1>C, CycleLost
  <2>2. cyc' = [cyc EXCEPT ![b.holder] = c] \/ cyc' = cyc
    BY <1>9 DEF HeartbeatRefused
  <2>3. cyc' \in [Holder -> Cycle] /\ RunKnown'
    <3> HIDE DEF c
    <3> QED
      BY <1>B, <1>beat, <2>1, <2>2
  <2>4. lock' = lock /\ runs' = runs /\ beats' \subseteq beats /\ faults' = faults
    BY <1>9 DEF HeartbeatRefused
  <2> QED
    BY <1>S, <1>L, <1>R, <1>B, <1>F, <2>3, <2>4
<1>10. ASSUME NEW b \in beats, HeartbeatError(b) PROVE TypeInv'
  <2> DEFINE c == Missed(cyc[b.holder])
  <2>2. c \in Cycle /\ c.pc = cyc[b.holder].pc /\ c.run = cyc[b.holder].run
    BY <1>B, <1>C, CycleMissed
  <2>3. cyc' = [cyc EXCEPT ![b.holder] = c] \/ cyc' = cyc
    BY <1>10 DEF HeartbeatError
  <2>4. cyc' \in [Holder -> Cycle] /\ RunKnown'
    <3> HIDE DEF c
    <3> QED
      BY <1>B, <1>beat, <2>2, <2>3
  <2>5. lock' = lock /\ runs' = runs /\ beats' \subseteq beats /\ faults' \in 0 .. MaxFaults
    BY <1>10, <1>fault DEF HeartbeatError
  <2> QED
    BY <1>S, <1>L, <1>R, <1>B, <2>4, <2>5
<1>11. CASE Tick
  <2>1. lock' \in LockRow
    <3>1. (IF lock.left = 0 THEN 0 ELSE lock.left - 1) \in 0 .. LockTtl
      BY <1>L, ConfigAssumption DEF LockRow
    <3> QED
      BY <1>11, <1>L, <3>1, LockUpdate DEF Tick
  <2>2. \A b \in beats' : b \in Beat
    <3> TAKE b \in beats'
    <3>1. PICK o \in beats : b = [o EXCEPT !.age = Capped(o.age, LockTtl)]
      BY <1>11 DEF Tick
    <3>2. Capped(o.age, LockTtl) \in 0 .. LockTtl
      BY <1>B, ConfigAssumption DEF Capped
    <3> QED
      BY <1>B, <3>1, <3>2, BeatUpdate
  <2>3. faults' \in 0 .. MaxFaults /\ runs' = runs
    BY <1>11, <1>F, <1>fault DEF Tick
  <2>4. ASSUME NEW h \in Holder
        PROVE  cyc'[h] \in Cycle /\ cyc'[h].pc = cyc[h].pc /\ cyc'[h].run = cyc[h].run
    BY <1>11, Ticked
  <2>5. cyc' = [h \in Holder |-> cyc'[h]]
    BY <1>11 DEF Tick
  <2>6. cyc' \in [Holder -> Cycle] /\ RunKnown'
    BY <1>C, <2>4, <2>5 DEF RunKnown
  <2> QED
    BY <1>S, <1>R, <2>1, <2>2, <2>3, <2>6
<1>12. CASE UNCHANGED vars
  BY <1>12, <1>S, <1>L, <1>R, <1>B, <1>C, <1>F DEF vars, RunKnown
<1> QED
  BY <1>1, <1>2, <1>3, <1>4, <1>5, <1>6, <1>7, <1>8, <1>9, <1>10, <1>11, <1>12 DEF Next

\* TypeOK holds in every state, with any number of holders, runs and faults.
THEOREM TypeCorrect == Spec => []TypeOK
<1>1. TypeInv => TypeOK
  BY DEF TypeInv
<1> QED
  BY <1>1, TypeInit, TypeStep, PTL DEF Spec

-----------------------------------------------------------------------------
\* What a step does to the lock and the runs: the rows stay but for the expiry, a
\* fresh run takes the lock, or the run that has it ends.
SameRows ==
    lock'.run = lock.run /\ lock'.holder = lock.holder /\ runs' = runs

EndsRun ==
    /\ lock.run # NoRun
    /\ lock' = FreeLock
    /\ \E s \in Terminal : runs' = [runs EXCEPT ![lock.run].status = s]

LEMMA RowStep ==
    ASSUME TypeInv, [Next]_vars
    PROVE  \/ SameRows
           \/ EndsRun
           \/ \E h \in Holder, r \in RunId, a \in 0 .. LockTtl :
                 TryAcquire(h, r, a) /\ cyc[h].pc = "idle"
<1>L. lock \in LockRow
  BY DEF TypeInv, TypeOK
<1>B. \A b \in beats : b.age \in 0 .. LockTtl
  BY DEF TypeInv, TypeOK, Beat
<1>1. ASSUME NEW h \in Holder, NEW r \in RunId, NEW a \in 0 .. LockTtl, Acquire(h, r, a)
      PROVE  TryAcquire(h, r, a) /\ cyc[h].pc = "idle"
  BY <1>1 DEF Acquire
<1>2. ASSUME NEW h \in Holder, NEW r \in RunId, AcquireUnanswered(h, r)
      PROVE  TryAcquire(h, r, 0) /\ 0 \in 0 .. LockTtl /\ cyc[h].pc = "idle"
  BY <1>2, ConfigAssumption DEF AcquireUnanswered
<1>3. ASSUME NEW h \in Holder, SendBeat(h) \/ Finish(h) \/ ReleaseError(h) \/ Crash(h)
      PROVE  SameRows
  BY <1>3 DEF SendBeat, Finish, ReleaseError, Crash, SameRows
<1>4. ASSUME NEW h \in Holder, Release(h) PROVE SameRows \/ EndsRun
  BY <1>4 DEF Release, SameRows, EndsRun, Held
<1>5. ASSUME NEW b \in beats, Heartbeat(b) PROVE SameRows
  <2>1. LockTtl - b.age \in 0 .. LockTtl
    BY <1>B, ConfigAssumption
  <2> QED
    BY <1>5, <1>L, <2>1, LockUpdate DEF Heartbeat, SameRows
<1>6. ASSUME NEW b \in beats, HeartbeatRefused(b) \/ HeartbeatError(b) PROVE SameRows
  BY <1>6 DEF HeartbeatRefused, HeartbeatError, SameRows
<1>7. CASE Tick
  <2>1. (IF lock.left = 0 THEN 0 ELSE lock.left - 1) \in 0 .. LockTtl
    BY <1>L, ConfigAssumption DEF LockRow
  <2> QED
    BY <1>7, <1>L, <2>1, LockUpdate DEF Tick, SameRows
<1>8. CASE UNCHANGED vars
  BY <1>8 DEF vars, SameRows
<1> QED
  BY <1>1, <1>2, <1>3, <1>4, <1>5, <1>6, <1>7, <1>8 DEF Next

LEMMA LockInit == Init => LockInv
  BY DEF Init, LockInv, FreeLock

\* The effect of tryAcquire, row by row.
LEMMA Taken ==
    ASSUME TypeInv, LockInv, NEW h \in Holder, NEW r \in RunId, NEW a \in 0 .. LockTtl,
           TryAcquire(h, r, a)
    PROVE  /\ lock'.run = r /\ lock'.holder = h /\ lock'.left = LockTtl - a
           /\ runs[r].status = "absent" /\ lock.run # r
           /\ runs'[r].status = "running" /\ runs'[r].holder = h
           /\ \A q \in RunId \ {r} :
                 /\ runs'[q].holder = runs[q].holder
                 /\ runs'[q].status \in {runs[q].status, "failed"}
                 /\ runs'[q].status # "running"
                 /\ runs[q].status # "absent" => runs'[q].status # "absent"
<1>R. runs \in [RunId -> RunRow] /\ lock \in LockRow
  BY DEF TypeInv, TypeOK
<1>1. lock'.run = r /\ lock'.holder = h /\ lock'.left = LockTtl - a
  BY DEF TryAcquire
<1>2. runs[r].status = "absent" /\ lock.run # r
  BY DEF TryAcquire, Fresh, LockInv
<1>3. runs'[r].status = "running" /\ runs'[r].holder = h
  BY DEF TryAcquire
<1>4. ASSUME NEW q \in RunId \ {r}
      PROVE  /\ runs'[q].holder = runs[q].holder
             /\ runs'[q].status \in {runs[q].status, "failed"}
             /\ runs'[q].status # "running"
             /\ runs[q].status # "absent" => runs'[q].status # "absent"
  <2>1. CASE q = lock.run /\ runs[q].status = "running"
    <3>1. runs'[q] = [runs[q] EXCEPT !.status = "failed"]
      BY <2>1 DEF TryAcquire
    <3> QED
      BY <1>R, <3>1 DEF RunRow
  <2>2. CASE ~(q = lock.run /\ runs[q].status = "running")
    <3>1. runs'[q] = runs[q]
      BY <2>2 DEF TryAcquire
    <3> QED
      BY <2>2, <3>1 DEF LockInv
  <2> QED
    BY <2>1, <2>2
<1> QED
  BY <1>1, <1>2, <1>3, <1>4

LEMMA LockStep ==
    ASSUME TypeInv, LockInv, [Next]_vars
    PROVE  LockInv'
<1>R. runs \in [RunId -> RunRow] /\ lock \in LockRow
  BY DEF TypeInv, TypeOK
<1>1. CASE SameRows
  BY <1>1 DEF SameRows, LockInv
<1>2. CASE EndsRun
  <2>1. \A r \in RunId : runs'[r].status # "running"
    BY <1>2, <1>R DEF EndsRun, LockInv, RunRow
  <2> QED
    BY <1>2, <2>1 DEF EndsRun, LockInv, FreeLock
<1>3. ASSUME NEW h \in Holder, NEW r \in RunId, NEW a \in 0 .. LockTtl, TryAcquire(h, r, a)
      PROVE  LockInv'
  <2>1. h # NoHolder /\ r # NoRun
    BY HolderAssumption
  <2> QED
    BY <1>3, <2>1, Taken DEF LockInv
<1> QED
  BY <1>1, <1>2, <1>3, RowStep

LEMMA LockInvImpliesSingleFlight == TypeInv /\ LockInv => SingleFlight
  BY DEF LockInv, SingleFlight, TypeInv, TypeOK

\* Single flight, with any number of holders: a crash, a theft, a lost answer or a
\* late heartbeat never leaves two runs running, nor a running run that does not
\* have the lock.
THEOREM SingleFlightHolds == Spec => []SingleFlight
<1>1. Init => TypeInv /\ LockInv
  BY TypeInit, LockInit
<1>2. TypeInv /\ LockInv /\ [Next]_vars => (TypeInv /\ LockInv)'
  BY TypeStep, LockStep
<1> QED
  BY <1>1, <1>2, LockInvImpliesSingleFlight, PTL DEF Spec

\* The rows of the lock and of the runs agree in every state: both theorems, as the
\* runs check them.
THEOREM RowsAgreeAlways == Spec => []RowsAgree
<1>1. TypeOK /\ SingleFlight => RowsAgree
  BY DEF RowsAgree
<1> QED
  BY <1>1, TypeCorrect, SingleFlightHolds, PTL

-----------------------------------------------------------------------------
\* A run keeps its holder and never becomes absent again.
LEMMA RunsKept ==
    ASSUME TypeInv, LockInv, [Next]_vars, NEW q \in RunId, runs[q].status # "absent"
    PROVE  runs'[q].status # "absent" /\ runs'[q].holder = runs[q].holder
<1>R. runs \in [RunId -> RunRow] /\ lock \in LockRow
  BY DEF TypeInv, TypeOK
<1>1. CASE SameRows
  BY <1>1 DEF SameRows
<1>2. CASE EndsRun
  <2>1. PICK s \in Terminal : runs' = [runs EXCEPT ![lock.run].status = s]
    BY <1>2 DEF EndsRun
  <2>2. CASE q = lock.run
    <3>1. runs'[q] = [runs[q] EXCEPT !.status = s]
      BY <1>R, <2>1, <2>2
    <3> QED
      BY <1>R, <3>1 DEF RunRow
  <2>3. CASE q # lock.run
    BY <1>R, <2>1, <2>3
  <2> QED
    BY <2>2, <2>3
<1>3. ASSUME NEW h \in Holder, NEW r \in RunId, NEW a \in 0 .. LockTtl, TryAcquire(h, r, a)
      PROVE  runs'[q].status # "absent" /\ runs'[q].holder = runs[q].holder
  BY <1>3, Taken
<1> QED
  BY <1>1, <1>2, <1>3, RowStep

\* What a step does to the cycle of a holder, heartbeats apart: it goes on, and is
\* told its lock is lost only when another holder or none has it; it ends; or it
\* starts by taking the lock.
GoesOn(h) ==
    /\ cyc'[h].pc \in Active <=> cyc[h].pc \in Active
    /\ cyc'[h].run = cyc[h].run
    /\ cyc'[h].lost => cyc[h].lost \/ (cyc[h].pc \in Active /\ lock.holder # h)

Ends(h) ==
    /\ Release(h) \/ ReleaseError(h) \/ Crash(h)
    /\ cyc'[h].pc \notin Active /\ cyc'[h].run = NoRun /\ ~cyc'[h].lost

Starts(h) ==
    \E r \in RunId, a \in 0 .. LockTtl :
        TryAcquire(h, r, a) /\ cyc'[h].pc \in Active /\ cyc'[h].run = r /\ ~cyc'[h].lost

LEMMA CycleStep ==
    ASSUME TypeInv, LockInv, [Next]_vars, NEW g \in Holder
    PROVE  GoesOn(g) \/ Ends(g) \/ Starts(g)
<1>C. cyc \in [Holder -> Cycle]
  BY DEF TypeInv, TypeOK
<1>B. \A b \in beats : b.holder \in Holder
  BY DEF TypeInv, TypeOK, Beat
<1>idle. ~NoCycle.lost /\ NoCycle.run = NoRun /\ NoCycle.pc \notin Active
  BY DEF NoCycle, NewCycle
<1>same. cyc'[g] = cyc[g] => GoesOn(g)
  BY DEF GoesOn
<1>1. ASSUME NEW h \in Holder, NEW r \in RunId, NEW a \in 0 .. LockTtl, Acquire(h, r, a)
      PROVE  GoesOn(g) \/ Starts(g)
  <2>1. CASE g = h
    <3>1. /\ cyc'[g].pc = "working" /\ cyc'[g].run = r /\ ~cyc'[g].lost
      BY <1>C, <1>1, <2>1 DEF Acquire, NewCycle
    <3> QED
      BY <1>1, <2>1, <3>1 DEF Acquire, Starts
  <2>2. CASE g # h
    BY <1>C, <1>1, <2>2, <1>same DEF Acquire
  <2> QED
    BY <2>1, <2>2
<1>2. ASSUME NEW h \in Holder, NEW r \in RunId, AcquireUnanswered(h, r) PROVE GoesOn(g)
  BY <1>2, <1>same DEF AcquireUnanswered
<1>3. ASSUME NEW h \in Holder, SendBeat(h) PROVE GoesOn(g)
  <2>1. CASE g = h
    <3>1. cyc'[g] = [cyc[g] EXCEPT !.since = 0] /\ cyc[g] \in Cycle
      BY <1>C, <1>3, <2>1 DEF SendBeat
    <3>2. /\ cyc'[g].pc = cyc[g].pc /\ cyc'[g].run = cyc[g].run
          /\ cyc'[g].lost = cyc[g].lost
      BY <3>1, CycleSince, ConfigAssumption
    <3> QED
      BY <3>2 DEF GoesOn
  <2>2. CASE g # h
    BY <1>C, <1>3, <2>2, <1>same DEF SendBeat
  <2> QED
    BY <2>1, <2>2
<1>4. ASSUME NEW h \in Holder, Finish(h) PROVE GoesOn(g)
  <2>1. CASE g = h
    <3>1. cyc'[g] = [cyc[g] EXCEPT !.pc = "releasing"] /\ cyc[g] \in Cycle
      BY <1>C, <1>4, <2>1 DEF Finish
    <3>2. /\ cyc'[g].pc = "releasing" /\ cyc'[g].run = cyc[g].run
          /\ cyc'[g].lost = cyc[g].lost
      BY <3>1, CyclePc
    <3>3. cyc[g].pc = "working"
      BY <1>4, <2>1 DEF Finish
    <3> QED
      BY <3>2, <3>3 DEF GoesOn
  <2>2. CASE g # h
    BY <1>C, <1>4, <2>2, <1>same DEF Finish
  <2> QED
    BY <2>1, <2>2
<1>5. ASSUME NEW h \in Holder, Release(h) \/ ReleaseError(h) \/ Crash(h)
      PROVE  GoesOn(g) \/ Ends(g)
  <2>1. CASE g = h
    <3>1. /\ cyc'[g].pc \notin Active /\ cyc'[g].run = NoRun /\ ~cyc'[g].lost
      BY <1>C, <1>5, <1>idle, <2>1 DEF Release, ReleaseError, Crash, NewCycle
    <3> QED
      BY <1>5, <2>1, <3>1 DEF Ends
  <2>2. CASE g # h
    BY <1>C, <1>5, <2>2, <1>same DEF Release, ReleaseError, Crash
  <2> QED
    BY <2>1, <2>2
<1>6. ASSUME NEW b \in beats, Heartbeat(b) PROVE GoesOn(g)
  <2>1. CASE g = b.holder /\ FromCurrentCycle(b)
    <3>1. cyc'[g] = [cyc[g] EXCEPT !.misses = 0] /\ cyc[g] \in Cycle
      BY <1>C, <1>6, <2>1 DEF Heartbeat
    <3>2. /\ cyc'[g].pc = cyc[g].pc /\ cyc'[g].run = cyc[g].run
          /\ cyc'[g].lost = cyc[g].lost
      BY <3>1, CycleMisses
    <3> QED
      BY <3>2 DEF GoesOn
  <2>2. CASE ~(g = b.holder /\ FromCurrentCycle(b))
    BY <1>B, <1>C, <1>6, <2>2, <1>same DEF Heartbeat
  <2> QED
    BY <2>1, <2>2
<1>7. ASSUME NEW b \in beats, HeartbeatRefused(b) PROVE GoesOn(g)
  <2>1. CASE g = b.holder /\ FromCurrentCycle(b)
    <3>1. cyc'[g] = [cyc[g] EXCEPT !.lost = TRUE] /\ cyc[g] \in Cycle
      BY <1>C, <1>7, <2>1 DEF HeartbeatRefused
    <3>2. cyc'[g].pc = cyc[g].pc /\ cyc'[g].run = cyc[g].run
      BY <3>1, CycleLost
    <3>3. lock.holder # g
      BY <1>7, <2>1, HolderAssumption DEF HeartbeatRefused, Held, LockInv
    <3>4. cyc[g].pc \in Active
      BY <2>1 DEF FromCurrentCycle
    <3> QED
      BY <3>2, <3>3, <3>4 DEF GoesOn
  <2>2. CASE ~(g = b.holder /\ FromCurrentCycle(b))
    BY <1>B, <1>C, <1>7, <2>2, <1>same DEF HeartbeatRefused
  <2> QED
    BY <2>1, <2>2
<1>8. ASSUME NEW b \in beats, HeartbeatError(b) PROVE GoesOn(g)
  <2>1. CASE g = b.holder /\ FromCurrentCycle(b)
    <3>1. cyc'[g] = Missed(cyc[g]) /\ cyc[g] \in Cycle
      BY <1>C, <1>8, <2>1 DEF HeartbeatError
    <3>2. /\ cyc'[g].pc = cyc[g].pc /\ cyc'[g].run = cyc[g].run
          /\ cyc'[g].lost = cyc[g].lost
      BY <3>1, CycleMissed
    <3> QED
      BY <3>2 DEF GoesOn
  <2>2. CASE ~(g = b.holder /\ FromCurrentCycle(b))
    BY <1>B, <1>C, <1>8, <2>2, <1>same DEF HeartbeatError
  <2> QED
    BY <2>1, <2>2
<1>9. CASE Tick
  BY <1>9, Ticked DEF GoesOn
<1>10. CASE UNCHANGED vars
  BY <1>10, <1>same DEF vars
<1> QED
  BY <1>1, <1>2, <1>3, <1>4, <1>5, <1>6, <1>7, <1>8, <1>9, <1>10 DEF Next

\* A heartbeat was already on its way, or the current cycle of its holder sends it.
LEMMA BeatOrigin ==
    ASSUME TypeInv, [Next]_vars, NEW b \in beats'
    PROVE  \/ \E o \in beats : o.run = b.run /\ o.holder = b.holder
           \/ \E h \in Holder : cyc[h].pc \in Active /\ b.holder = h /\ b.run = cyc[h].run
<1>1. CASE \E h \in Holder : SendBeat(h)
  BY <1>1 DEF SendBeat
<1>2. CASE Tick
  <2>1. PICK o \in beats : b = [o EXCEPT !.age = Capped(o.age, LockTtl)]
    BY <1>2 DEF Tick
  <2>2. o \in Beat /\ Capped(o.age, LockTtl) \in 0 .. LockTtl
    BY ConfigAssumption DEF TypeInv, TypeOK, Beat, Capped
  <2> QED
    BY <2>1, <2>2, BeatUpdate
<1>3. CASE beats' \subseteq beats
  BY <1>3
<1>4. beats' \subseteq beats \/ (\E h \in Holder : SendBeat(h)) \/ Tick
  BY DEF Next, vars, Acquire, AcquireUnanswered, Finish, Release, ReleaseError, Crash,
         Heartbeat, HeartbeatRefused, HeartbeatError
<1> QED
  BY <1>1, <1>2, <1>3, <1>4

LEMMA CycleInit == Init => CycleInv /\ HolderInv /\ LostIsFinal
  BY DEF Init, NoCycle, NewCycle, CycleInv, HolderInv, LostIsFinal

LEMMA CycleInvStep ==
    ASSUME TypeInv, LockInv, CycleInv, [Next]_vars
    PROVE  CycleInv'
<1>1. ASSUME NEW h \in Holder
      PROVE  IF cyc'[h].pc \in Active
             THEN /\ cyc'[h].run \in RunId
                  /\ runs'[cyc'[h].run].status # "absent"
                  /\ runs'[cyc'[h].run].holder = h
             ELSE cyc'[h].run = NoRun /\ ~cyc'[h].lost
  <2>1. CASE GoesOn(h)
    <3>1. CASE cyc[h].pc \in Active
      BY <2>1, <3>1, RunsKept DEF GoesOn, CycleInv
    <3>2. CASE cyc[h].pc \notin Active
      BY <2>1, <3>2 DEF GoesOn, CycleInv
    <3> QED
      BY <3>1, <3>2
  <2>2. CASE Ends(h)
    BY <2>2 DEF Ends
  <2>3. CASE Starts(h)
    BY <2>3, Taken DEF Starts
  <2> QED
    BY <2>1, <2>2, <2>3, CycleStep
<1>2. ASSUME NEW b \in beats' PROVE runs'[b.run].status # "absent"
  <2>1. ASSUME NEW o \in beats, o.run = b.run PROVE runs'[b.run].status # "absent"
    <3>1. o.run \in RunId
      BY DEF TypeInv, TypeOK, Beat
    <3> QED
      BY <2>1, <3>1, RunsKept DEF CycleInv
  <2>2. ASSUME NEW h \in Holder, cyc[h].pc \in Active, b.run = cyc[h].run
        PROVE  runs'[b.run].status # "absent"
    BY <2>2, RunsKept DEF CycleInv
  <2> QED
    BY <2>1, <2>2, BeatOrigin
<1> QED
  BY <1>1, <1>2 DEF CycleInv

LEMMA HolderStep ==
    ASSUME TypeInv, LockInv, CycleInv, HolderInv, [Next]_vars
    PROVE  HolderInv'
<1> SUFFICES ASSUME NEW h \in Holder, cyc'[h].pc \in Active, lock'.holder = h
             PROVE  lock'.run = cyc'[h].run
  BY DEF HolderInv
<1>1. CASE Starts(h)
  BY <1>1, Taken DEF Starts
<1>2. CASE Ends(h)
  BY <1>2 DEF Ends
<1>3. CASE GoesOn(h)
  <2>0. cyc[h].pc \in Active /\ cyc'[h].run = cyc[h].run
    BY <1>3 DEF GoesOn
  <2>1. CASE SameRows
    BY <2>0, <2>1 DEF SameRows, HolderInv
  <2>2. CASE EndsRun
    BY <2>2, HolderAssumption DEF EndsRun, FreeLock
  <2>3. ASSUME NEW g \in Holder, NEW r \in RunId, NEW a \in 0 .. LockTtl,
               TryAcquire(g, r, a), cyc[g].pc = "idle"
        PROVE  FALSE
    <3>1. g = h
      BY <2>3, Taken
    <3> QED
      BY <2>0, <2>3, <3>1
  <2> QED
    BY <2>1, <2>2, <2>3, RowStep
<1> QED
  BY <1>1, <1>2, <1>3, CycleStep

LEMMA LostStep ==
    ASSUME TypeInv, LockInv, CycleInv, LostIsFinal, [Next]_vars
    PROVE  LostIsFinal'
<1> SUFFICES ASSUME NEW h \in Holder, cyc'[h].lost PROVE lock'.run # cyc'[h].run
  BY DEF LostIsFinal
<1>1. CASE Starts(h) \/ Ends(h)
  BY <1>1 DEF Starts, Ends
<1>2. CASE GoesOn(h)
  <2>1. CASE cyc[h].pc \notin Active
    BY <1>2, <2>1 DEF GoesOn, CycleInv
  <2>2. CASE cyc[h].pc \in Active
    <3>0. /\ cyc'[h].run = cyc[h].run
          /\ cyc[h].run \in RunId /\ runs[cyc[h].run].status # "absent"
          /\ runs[cyc[h].run].holder = h
      BY <1>2, <2>2 DEF GoesOn, CycleInv
    <3>1. lock.run # cyc[h].run
      <4>1. CASE cyc[h].lost
        BY <4>1 DEF LostIsFinal
      <4>2. CASE lock.holder # h
        BY <3>0, <4>2 DEF LockInv
      <4> QED
        BY <1>2, <4>1, <4>2 DEF GoesOn
    <3>2. CASE SameRows
      BY <3>0, <3>1, <3>2 DEF SameRows
    <3>3. CASE EndsRun
      BY <3>0, <3>3 DEF EndsRun, FreeLock
    <3>4. ASSUME NEW g \in Holder, NEW r \in RunId, NEW a \in 0 .. LockTtl, TryAcquire(g, r, a)
          PROVE  lock'.run # cyc'[h].run
      BY <3>0, <3>4, Taken
    <3> QED
      BY <3>2, <3>3, <3>4, RowStep
  <2> QED
    BY <2>1, <2>2
<1> QED
  BY <1>1, <1>2, CycleStep

\* Everything but the promptness of the heartbeats.
FlightInv == TypeInv /\ LockInv /\ CycleInv /\ HolderInv /\ LostIsFinal

LEMMA FlightInit == Init => FlightInv
  BY TypeInit, LockInit, CycleInit DEF FlightInv

LEMMA FlightStep == FlightInv /\ [Next]_vars => FlightInv'
  BY TypeStep, LockStep, CycleInvStep, HolderStep, LostStep DEF FlightInv

\* A cycle told that its lock is lost never has it again.
THEOREM LostHolds == Spec => []LostIsFinal
<1>1. FlightInv => LostIsFinal
  BY DEF FlightInv
<1> QED
  BY <1>1, FlightInit, FlightStep, PTL DEF Spec

\* The run a cycle ends by releasing is the one it started, although release()
\* compares the holder only and a holder may have had several runs.
THEOREM ReleasesOwnRunHolds == Spec => ReleasesOwnRun
<1>1. ASSUME FlightInv, [Next]_vars PROVE EndsOwnRun
  <2> SUFFICES ASSUME NEW h \in Holder, NEW r \in RunId,
                      cyc[h].pc = "releasing", cyc'[h].pc = "idle",
                      runs[r].status = "running", runs'[r].status \in Terminal
               PROVE  r = cyc[h].run
    BY DEF EndsOwnRun
  <2>1. Release(h) \/ ReleaseError(h) \/ Crash(h)
    BY <1>1, CycleStep DEF FlightInv, GoesOn, Ends, Starts
  <2>2. ~Crash(h)
    BY <1>1 DEF Crash, NewCycle, FlightInv, TypeInv, TypeOK
  <2>3. ~ReleaseError(h)
    BY DEF ReleaseError
  <2>4. CASE Release(h)
    <3>1. lock.holder = h /\ r = lock.run
      BY <1>1, <2>4 DEF Release, FlightInv, TypeInv, TypeOK
    <3> QED
      BY <1>1, <3>1 DEF FlightInv, HolderInv
  <2> QED
    BY <2>1, <2>2, <2>3, <2>4
<1> QED
  BY <1>1, FlightInit, FlightStep, PTL DEF Spec, ReleasesOwnRun

-----------------------------------------------------------------------------
LEMMA DelayBound == MaxDelay \in Nat /\ MaxDelay < HeartbeatInterval /\ HeartbeatInterval \in Nat
  BY ConfigAssumption, DelayAssumption

\* The fields of the rows that the bounds are about are numbers.
LEMMA Numbers ==
    ASSUME TypeInv, NEW h \in Holder
    PROVE  /\ lock.left \in 0 .. LockTtl
           /\ cyc[h].since \in 0 .. HeartbeatInterval /\ cyc[h].misses \in 0 .. 2
           /\ \A b \in beats : b.age \in 0 .. LockTtl
  BY DEF TypeInv, TypeOK, LockRow, Cycle, Beat

\* A cycle that is on time has its lock, with time left.
LEMMA OnTimeKeepsLock ==
    ASSUME FlightInv, NEW h \in Holder, IsPrompt(h), OnTime(h)
    PROVE  lock.holder = h /\ lock.run = cyc[h].run /\ lock.left > 0 /\ Held /\ ~Expired
<1>0. TypeInv
  BY DEF FlightInv
<1>1. lock.holder = h /\ lock.run = cyc[h].run
  BY DEF OnTime, IsPrompt, FlightInv, HolderInv
<1>2. Held
  BY <1>1, HolderAssumption DEF FlightInv, LockInv, Held
<1>3. PromptBeats(h) /\ Renewed(h)
  BY DEF OnTime
<1>4. CASE Pending(h)
  <2>1. PICK b \in beats : b.holder = h /\ b.run = cyc[h].run
    BY <1>4 DEF Pending
  <2>2. cyc[h].since <= MaxDelay
    BY <1>0, <1>3, <2>1, Numbers, DelayBound DEF PromptBeats
  <2>3. lock.left > 0
    BY <1>0, <1>3, <2>2, Numbers, DelayAssumption, ConfigAssumption DEF Renewed
  <2> QED
    BY <1>1, <1>2, <2>3 DEF Expired
<1>5. CASE ~Pending(h)
  <2>1. lock.left > 0
    BY <1>0, <1>3, <1>5, Numbers, DelayAssumption, ConfigAssumption DEF Renewed
  <2> QED
    BY <1>1, <1>2, <2>1 DEF Expired
<1> QED
  BY <1>4, <1>5

\* A step that leaves the cycle, the lock and the heartbeats of h alone.
LEMMA Untouched ==
    ASSUME NEW h \in Holder, OnTime(h), cyc'[h].pc \in Active => cyc[h].pc \in Active,
           cyc'[h].run = cyc[h].run, cyc'[h].since = cyc[h].since,
           cyc'[h].misses = cyc[h].misses, cyc'[h].pace = cyc[h].pace,
           IsPrompt(h) => lock'.holder = lock.holder /\ lock'.left = lock.left,
           \A b \in beats' : b.holder = h => b \in beats,
           \A b \in beats : b.holder = h /\ b.run = cyc[h].run => b \in beats'
    PROVE  OnTime(h)'
<1> SUFFICES ASSUME IsPrompt(h)'
             PROVE  (lock.holder = h /\ cyc[h].misses <= 1 /\ PromptBeats(h) /\ Renewed(h))'
  BY DEF OnTime
<1>1. IsPrompt(h)
  BY DEF IsPrompt
<1>2. lock'.holder = h /\ cyc'[h].misses <= 1
  BY <1>1 DEF OnTime
<1>3. PromptBeats(h)'
  BY <1>1 DEF OnTime, PromptBeats
<1>4. Pending(h)' <=> Pending(h)
  BY DEF Pending
<1>5. Renewed(h)'
  BY <1>1, <1>4 DEF OnTime, Renewed
<1> QED
  BY <1>2, <1>3, <1>5

LEMMA OnTimeAcquire ==
    ASSUME FlightInv, NEW h \in Holder, OnTime(h),
           NEW g \in Holder, NEW r \in RunId, NEW a \in 0 .. LockTtl, Acquire(g, r, a)
    PROVE  OnTime(h)'
<1>0. TypeInv /\ LockInv /\ TryAcquire(g, r, a) /\ cyc \in [Holder -> Cycle]
  BY DEF FlightInv, TypeInv, TypeOK, Acquire
<1>1. CASE h = g
  <2>1. /\ cyc'[h].run = r /\ cyc'[h].since = 0 /\ cyc'[h].misses = 0
        /\ cyc'[h].pace = Pace(a > MaxDelay \/ SlowBeat(h))
    BY <1>0, <1>1 DEF Acquire, NewCycle
  <2>2. SUFFICES ASSUME IsPrompt(h)'
                 PROVE  (lock.holder = h /\ cyc[h].misses <= 1 /\ PromptBeats(h) /\ Renewed(h))'
    BY DEF OnTime
  <2>3. a <= MaxDelay /\ ~SlowBeat(h)
    BY <2>1, <2>2, DelayBound DEF IsPrompt, Pace
  <2>4. lock'.holder = h /\ lock'.left = LockTtl - a /\ runs[r].status = "absent"
    BY <1>0, <1>1, Taken
  <2>5. \A b \in beats : b.run # r
    BY <2>4 DEF FlightInv, CycleInv
  <2>6. PromptBeats(h)'
    BY <1>0, <2>1, <2>3, <2>5, Numbers, DelayBound DEF PromptBeats, SlowBeat, Acquire
  <2>7. Renewed(h)'
    BY <2>1, <2>3, <2>4, DelayBound, ConfigAssumption DEF Renewed
  <2> QED
    BY <2>1, <2>4, <2>6, <2>7
<1>2. CASE h # g
  <2>1. cyc'[h] = cyc[h] /\ beats' = beats
    BY <1>0, <1>2 DEF Acquire
  <2>2. ~IsPrompt(h)
    BY <1>0, OnTimeKeepsLock DEF TryAcquire
  <2> QED
    BY <2>1, <2>2 DEF OnTime, IsPrompt
<1> QED
  BY <1>1, <1>2

LEMMA OnTimeSend ==
    ASSUME FlightInv, NEW h \in Holder, OnTime(h), NEW g \in Holder, SendBeat(g)
    PROVE  OnTime(h)'
<1>0. TypeInv /\ cyc \in [Holder -> Cycle]
  BY DEF FlightInv, TypeInv, TypeOK
<1>1. CASE h = g
  <2>1. /\ cyc'[h].pc = cyc[h].pc /\ cyc'[h].run = cyc[h].run /\ cyc'[h].since = 0
        /\ cyc'[h].misses = cyc[h].misses /\ cyc'[h].pace = cyc[h].pace
    <3>1. cyc'[h] = [cyc[h] EXCEPT !.since = 0] /\ cyc[h] \in Cycle
      BY <1>0, <1>1 DEF SendBeat
    <3> QED
      BY <3>1, CycleSince, ConfigAssumption
  <2>2. SUFFICES ASSUME IsPrompt(h)'
                 PROVE  (lock.holder = h /\ cyc[h].misses <= 1 /\ PromptBeats(h) /\ Renewed(h))'
    BY DEF OnTime
  <2>3. IsPrompt(h)
    BY <2>1, <2>2 DEF IsPrompt
  <2>4. cyc[h].since = HeartbeatInterval /\ lock' = lock
    BY <1>1 DEF SendBeat
  <2>5. \A b \in beats : b.holder # h
    BY <1>0, <2>3, <2>4, Numbers, DelayBound DEF OnTime, PromptBeats
  <2>6. ASSUME NEW b \in beats', b.holder = h PROVE b.run = cyc[h].run /\ b.age = 0
    BY <1>1, <2>5, <2>6 DEF SendBeat
  <2>7. PromptBeats(h)'
    BY <2>1, <2>6, DelayBound DEF PromptBeats
  <2>8. ~Pending(h) /\ Pending(h)'
    <3> DEFINE n == [holder |-> h, run |-> cyc[h].run, age |-> 0]
    <3>1. n \in beats'
      BY <1>1 DEF SendBeat
    <3>2. n.holder = h /\ n.run = cyc[h].run
      OBVIOUS
    <3> HIDE DEF n
    <3>3. Pending(h)'
      BY <2>1, <3>1, <3>2 DEF Pending
    <3>4. ~Pending(h)
      BY <2>5 DEF Pending
    <3> QED
      BY <3>3, <3>4
  <2>9. Renewed(h)'
    BY <1>0, <2>1, <2>3, <2>4, <2>8, Numbers, DelayBound, ConfigAssumption DEF OnTime, Renewed
  <2> QED
    BY <2>1, <2>3, <2>4, <2>7, <2>9 DEF OnTime
<1>2. CASE h # g
  BY <1>0, <1>2, Untouched DEF SendBeat
<1> QED
  BY <1>1, <1>2

LEMMA OnTimeEnd ==
    ASSUME FlightInv, NEW h \in Holder, OnTime(h), NEW g \in Holder,
           Finish(g) \/ Release(g) \/ ReleaseError(g) \/ Crash(g)
    PROVE  OnTime(h)'
<1>0. cyc \in [Holder -> Cycle] /\ beats' = beats
  BY DEF FlightInv, TypeInv, TypeOK, Finish, Release, ReleaseError, Crash
<1>1. CASE Finish(g) /\ h = g
  <2>1. cyc'[h] = [cyc[h] EXCEPT !.pc = "releasing"] /\ cyc[h] \in Cycle
    BY <1>0, <1>1 DEF Finish
  <2>2. /\ cyc'[h].run = cyc[h].run /\ cyc'[h].since = cyc[h].since
        /\ cyc'[h].misses = cyc[h].misses /\ cyc'[h].pace = cyc[h].pace
    BY <2>1, CyclePc
  <2>3. cyc[h].pc \in Active /\ lock' = lock
    BY <1>1 DEF Finish
  <2> QED
    BY <1>0, <2>2, <2>3, Untouched
<1>2. CASE ~Finish(g) /\ h = g
  <2>1. cyc'[h].pc \notin Active
    BY <1>0, <1>2 DEF Release, ReleaseError, Crash, NoCycle, NewCycle
  <2> QED
    BY <2>1 DEF OnTime, IsPrompt
<1>3. CASE h # g
  <2>1. cyc'[h] = cyc[h]
    BY <1>0, <1>3 DEF Finish, Release, ReleaseError, Crash
  <2>2. ASSUME IsPrompt(h) PROVE lock' = lock
    BY <1>3, <2>2, OnTimeKeepsLock DEF Finish, Release, ReleaseError, Crash
  <2> QED
    BY <1>0, <2>1, <2>2, Untouched
<1> QED
  BY <1>1, <1>2, <1>3

\* A heartbeat that renews the lock: whoever sent it, the expiry is then at most
\* one delay old, as the heartbeats of a cycle on time are.
LEMMA OnTimeHeartbeat ==
    ASSUME FlightInv, NEW h \in Holder, OnTime(h), NEW b \in beats, Heartbeat(b)
    PROVE  OnTime(h)'
<1>0. /\ TypeInv /\ cyc \in [Holder -> Cycle] /\ b.holder \in Holder
      /\ beats' = beats \ {b} /\ lock.holder = b.holder
  BY DEF FlightInv, TypeInv, TypeOK, Beat, Heartbeat
<1>1. CASE b.holder = h /\ cyc[h].pc \in Active
  <2>1. lock'.holder = h /\ lock'.left = LockTtl - b.age
    <3>1. LockTtl - b.age \in 0 .. LockTtl
      BY <1>0, Numbers, ConfigAssumption
    <3> QED
      BY <1>0, <1>1, <3>1, LockUpdate DEF Heartbeat, TypeInv, TypeOK
  <2>2. /\ cyc'[h].run = cyc[h].run /\ cyc'[h].since = cyc[h].since
        /\ cyc'[h].misses \in {0, cyc[h].misses} /\ cyc'[h].pace = cyc[h].pace
    <3>1. CASE FromCurrentCycle(b)
      <4>1. cyc'[h] = [cyc[h] EXCEPT !.misses = 0] /\ cyc[h] \in Cycle
        BY <1>0, <1>1, <3>1 DEF Heartbeat
      <4> QED
        BY <4>1, CycleMisses
    <3>2. CASE ~FromCurrentCycle(b)
      BY <1>1, <3>2 DEF Heartbeat
    <3> QED
      BY <3>1, <3>2
  <2>3. SUFFICES ASSUME IsPrompt(h)'
                 PROVE  (lock.holder = h /\ cyc[h].misses <= 1 /\ PromptBeats(h) /\ Renewed(h))'
    BY DEF OnTime
  <2>4. IsPrompt(h)
    BY <1>1, <2>2, <2>3 DEF IsPrompt
  <2>5. PromptBeats(h) /\ cyc[h].misses <= 1
    BY <2>4 DEF OnTime
  <2>6. PromptBeats(h)'
    BY <1>0, <2>2, <2>5 DEF PromptBeats
  <2>7. b.age <= MaxDelay
    BY <1>1, <2>5 DEF PromptBeats
  <2>8. Renewed(h)'
    BY <1>0, <2>1, <2>2, <2>7, Numbers, DelayBound, ConfigAssumption DEF Renewed
  <2> QED
    BY <2>1, <2>2, <2>5, <2>6, <2>8
<1>2. CASE b.holder = h /\ cyc[h].pc \notin Active
  <2>1. cyc'[h].pc \notin Active
    BY <1>0, <1>2 DEF Heartbeat, FromCurrentCycle
  <2> QED
    BY <2>1 DEF OnTime, IsPrompt
<1>3. CASE b.holder # h
  <2>1. cyc'[h] = cyc[h]
    BY <1>0, <1>3 DEF Heartbeat
  <2>2. ~IsPrompt(h)
    BY <1>0, <1>3 DEF OnTime
  <2> QED
    BY <2>1, <2>2 DEF OnTime, IsPrompt
<1> QED
  BY <1>1, <1>2, <1>3

\* A refused heartbeat is not from a cycle on time, which has the lock.
LEMMA OnTimeRefused ==
    ASSUME FlightInv, NEW h \in Holder, OnTime(h), NEW b \in beats, HeartbeatRefused(b)
    PROVE  OnTime(h)'
<1>0. /\ cyc \in [Holder -> Cycle] /\ b.holder \in Holder
      /\ beats' = beats \ {b} /\ lock' = lock
  BY DEF FlightInv, TypeInv, TypeOK, Beat, HeartbeatRefused
<1>1. CASE b.holder = h
  <2>1. ~IsPrompt(h)
    BY <1>1, OnTimeKeepsLock DEF HeartbeatRefused
  <2>2. cyc'[h].pc = cyc[h].pc /\ cyc'[h].pace = cyc[h].pace
    <3>1. CASE FromCurrentCycle(b)
      <4>1. cyc'[h] = [cyc[h] EXCEPT !.lost = TRUE] /\ cyc[h] \in Cycle
        BY <1>0, <1>1, <3>1 DEF HeartbeatRefused
      <4> QED
        BY <4>1, CycleLost
    <3>2. CASE ~FromCurrentCycle(b)
      BY <3>2 DEF HeartbeatRefused
    <3> QED
      BY <3>1, <3>2
  <2> QED
    BY <2>1, <2>2 DEF OnTime, IsPrompt
<1>2. CASE b.holder # h
  <2>1. cyc'[h] = cyc[h]
    BY <1>0, <1>2 DEF HeartbeatRefused
  <2> QED
    BY <1>0, <1>2, <2>1, Untouched
<1> QED
  BY <1>1, <1>2

\* A heartbeat refused by the database costs one interval, at the first miss; at
\* the second the cycle is disturbed.
LEMMA OnTimeError ==
    ASSUME FlightInv, NEW h \in Holder, OnTime(h), NEW b \in beats, HeartbeatError(b)
    PROVE  OnTime(h)'
<1>0. /\ TypeInv /\ cyc \in [Holder -> Cycle] /\ b.holder \in Holder
      /\ beats' = beats \ {b} /\ lock' = lock
  BY DEF FlightInv, TypeInv, TypeOK, Beat, HeartbeatError
<1>1. CASE b.holder = h /\ FromCurrentCycle(b)
  <2>1. cyc'[h] = Missed(cyc[h]) /\ cyc[h] \in Cycle
    BY <1>0, <1>1 DEF HeartbeatError
  <2>2. /\ cyc'[h].pc = cyc[h].pc /\ cyc'[h].run = cyc[h].run /\ cyc'[h].since = cyc[h].since
        /\ cyc'[h].misses = Capped(cyc[h].misses, 2)
        /\ cyc'[h].pace = "prompt" <=> cyc[h].pace = "prompt" /\ cyc[h].misses = 0
    BY <2>1, CycleMissed
  <2>3. SUFFICES ASSUME IsPrompt(h)'
                 PROVE  (lock.holder = h /\ cyc[h].misses <= 1 /\ PromptBeats(h) /\ Renewed(h))'
    BY DEF OnTime
  <2>4. IsPrompt(h) /\ cyc[h].misses = 0 /\ cyc'[h].misses = 1
    BY <2>2, <2>3 DEF IsPrompt, Capped
  <2>5. PromptBeats(h) /\ Renewed(h) /\ lock.holder = h
    BY <2>4 DEF OnTime
  <2>6. PromptBeats(h)'
    BY <1>0, <2>2, <2>5 DEF PromptBeats
  <2>7. Pending(h)
    BY <1>1 DEF Pending, FromCurrentCycle
  <2>8. Renewed(h)'
    BY <1>0, <2>2, <2>4, <2>5, <2>7, Numbers, DelayBound, ConfigAssumption DEF Renewed
  <2> QED
    BY <1>0, <2>4, <2>5, <2>6, <2>8
<1>2. CASE ~(b.holder = h /\ FromCurrentCycle(b))
  <2>1. cyc'[h] = cyc[h]
    BY <1>0, <1>2 DEF HeartbeatError
  <2>2. CASE cyc[h].pc \in Active
    BY <1>0, <1>2, <2>1, <2>2, Untouched DEF FromCurrentCycle
  <2>3. CASE cyc[h].pc \notin Active
    BY <2>1, <2>3 DEF OnTime, IsPrompt
  <2> QED
    BY <2>2, <2>3
<1> QED
  BY <1>1, <1>2

\* Time passes over a cycle on time only while no deadline of its own is due.
LEMMA OnTimeTick ==
    ASSUME FlightInv, NEW h \in Holder, OnTime(h), Tick
    PROVE  OnTime(h)'
<1>0. TypeInv
  BY DEF FlightInv
<1>1. /\ cyc'[h].pc = cyc[h].pc /\ cyc'[h].run = cyc[h].run
      /\ cyc'[h].misses = cyc[h].misses
      /\ cyc[h].pc \in Active => cyc'[h].since = Capped(cyc[h].since, HeartbeatInterval)
      /\ cyc'[h].pace = "prompt" <=> cyc[h].pace = "prompt" /\ ~Overdue(h)
  BY <1>0, Ticked
<1>2. SUFFICES ASSUME IsPrompt(h)'
               PROVE  (lock.holder = h /\ cyc[h].misses <= 1 /\ PromptBeats(h) /\ Renewed(h))'
  BY DEF OnTime
<1>3. IsPrompt(h) /\ ~Overdue(h)
  BY <1>1, <1>2 DEF IsPrompt
<1>4. lock.holder = h /\ cyc[h].misses <= 1 /\ PromptBeats(h) /\ Renewed(h)
  BY <1>3 DEF OnTime
<1>5. lock.left > 0
  BY <1>3, OnTimeKeepsLock
<1>6. lock'.holder = h /\ lock'.left = lock.left - 1
  <2>1. lock \in LockRow /\ lock.left - 1 \in 0 .. LockTtl
    BY <1>0, <1>5, Numbers, ConfigAssumption DEF TypeInv, TypeOK
  <2>2. lock' = [lock EXCEPT !.left = lock.left - 1]
    BY <1>0, <1>5, Numbers DEF Tick
  <2> QED
    BY <1>4, <2>1, <2>2, LockUpdate
<1>7. cyc[h].since < HeartbeatInterval /\ cyc'[h].since = cyc[h].since + 1
  BY <1>0, <1>1, <1>3, Numbers, DelayBound DEF IsPrompt, Overdue, Capped
<1>8. ASSUME NEW b \in beats
      PROVE  LET n == [b EXCEPT !.age = Capped(b.age, LockTtl)]
             IN  /\ n \in beats' /\ n.holder = b.holder /\ n.run = b.run
                 /\ b.holder = h => b.age < MaxDelay /\ n.age = b.age + 1
  <2> DEFINE n == [b EXCEPT !.age = Capped(b.age, LockTtl)]
  <2>1. n \in beats'
    BY DEF Tick
  <2>2. b \in Beat /\ b.age \in 0 .. LockTtl /\ Capped(b.age, LockTtl) \in 0 .. LockTtl
    BY <1>0, ConfigAssumption DEF TypeInv, TypeOK, Beat, Capped
  <2>3. n.holder = b.holder /\ n.run = b.run /\ n.age = Capped(b.age, LockTtl)
    BY <2>2, BeatUpdate
  <2>4. b.holder = h => b.age < MaxDelay
    BY <1>3, <2>2, DelayBound DEF Overdue
  <2>5. b.holder = h => Capped(b.age, LockTtl) = b.age + 1
    BY <2>2, <2>4, DelayBound, ConfigAssumption DEF Capped
  <2> HIDE DEF n
  <2>6. /\ n \in beats' /\ n.holder = b.holder /\ n.run = b.run
        /\ b.holder = h => b.age < MaxDelay /\ n.age = b.age + 1
    BY <2>1, <2>3, <2>4, <2>5
  <2> QED
    BY <2>6 DEF n
<1>9. ASSUME NEW n \in beats', n.holder = h
      PROVE  \E b \in beats : /\ b.holder = h /\ n.run = b.run
                              /\ b.age < MaxDelay /\ n.age = b.age + 1
  <2>1. PICK b \in beats : n = [b EXCEPT !.age = Capped(b.age, LockTtl)]
    BY DEF Tick
  <2> QED
    BY <1>8, <1>9, <2>1
<1>10. PromptBeats(h)'
  <2> SUFFICES ASSUME NEW n \in beats', n.holder = h
               PROVE  /\ cyc'[h].since <= n.age /\ n.age <= MaxDelay
                      /\ n.run = cyc'[h].run => n.age = cyc'[h].since
    BY DEF PromptBeats
  <2>1. PICK b \in beats : /\ b.holder = h /\ n.run = b.run
                            /\ b.age < MaxDelay /\ n.age = b.age + 1
    BY <1>9
  <2> QED
    BY <1>0, <1>1, <1>4, <1>7, <2>1, Numbers, DelayBound DEF PromptBeats
<1>11. Pending(h) => Pending(h)'
  <2> SUFFICES ASSUME NEW b \in beats, b.holder = h, b.run = cyc[h].run
               PROVE  Pending(h)'
    BY DEF Pending
  <2> DEFINE n == [b EXCEPT !.age = Capped(b.age, LockTtl)]
  <2>1. n \in beats' /\ n.holder = h /\ n.run = cyc'[h].run
    BY <1>1, <1>8
  <2> HIDE DEF n
  <2> QED
    BY <2>1 DEF Pending
<1>12. Renewed(h)'
  BY <1>0, <1>1, <1>4, <1>6, <1>7, <1>11, Numbers, DelayBound, ConfigAssumption DEF Renewed
<1> QED
  BY <1>1, <1>4, <1>6, <1>10, <1>12

LEMMA OnTimeStep ==
    ASSUME FlightInv, PromptInv, [Next]_vars
    PROVE  PromptInv'
<1> SUFFICES ASSUME NEW h \in Holder PROVE OnTime(h)'
  BY DEF PromptInv
<1>0. OnTime(h)
  BY DEF PromptInv
<1>1. ASSUME NEW g \in Holder, NEW r \in RunId, AcquireUnanswered(g, r) PROVE OnTime(h)'
  <2>1. ~IsPrompt(h)
    BY <1>0, <1>1, OnTimeKeepsLock DEF AcquireUnanswered, TryAcquire
  <2> QED
    BY <1>1, <2>1 DEF AcquireUnanswered, OnTime, IsPrompt
<1>2. CASE UNCHANGED vars
  BY <1>0, <1>2, Untouched DEF vars
<1> QED
  BY <1>0, <1>1, <1>2, OnTimeAcquire, OnTimeSend, OnTimeEnd, OnTimeHeartbeat,
     OnTimeRefused, OnTimeError, OnTimeTick DEF Next

\* A cycle that is never stalled and never misses two heartbeats in a row is never
\* robbed of its lock: it holds it, for its own run and with time left, until it
\* releases it.  The margin is HeartbeatInterval < LockTtl / 3.
THEOREM PromptCycleHolds == Spec => []PromptCycleKeepsLock
<1>1. Init => PromptInv
  BY DEF Init, NoCycle, NewCycle, PromptInv, OnTime, IsPrompt
<1>2. FlightInv /\ PromptInv /\ [Next]_vars => (FlightInv /\ PromptInv)'
  BY FlightStep, OnTimeStep
<1>3. FlightInv /\ PromptInv => PromptCycleKeepsLock
  BY OnTimeKeepsLock DEF PromptInv, PromptCycleKeepsLock, IsPrompt
<1> QED
  BY <1>1, <1>2, <1>3, FlightInit, PTL DEF Spec
=============================================================================
