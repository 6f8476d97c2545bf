------------------------ MODULE InferenceLeaseProofs ------------------------
(***************************************************************************)
(* Why one inference runs at a time, for any number of processes and       *)
(* calls, when every call takes the lease and the lease outlasts an        *)
(* inference.                                                              *)
(*                                                                         *)
(* The invariant: a call on its way from the lease to its release is the   *)
(* one the lease was granted to last, and the lease has at least as long   *)
(* to run as the inference may still take.  So the lease is not free while *)
(* such a call exists, and no second one can arise; the slots are then     *)
(* never contended, and a forced reanalysis never gets past the lease it   *)
(* holds itself.                                                           *)
(*                                                                         *)
(* The second part needs neither hypothesis: it shows what the slot of a   *)
(* client and its line (Kept) are worth when leases expire under running   *)
(* inferences, or are not taken.                                           *)
(***************************************************************************)
EXTENDS InferenceLease, SequenceTheorems, TLAPS

Hypothesis == \A t \in Task : Leased(t)
Hypotheses == Outlasts /\ Hypothesis

Place == {"idle", "leasing", "slot", "waiting", "running", "unlease", "done"}

Typed ==
    /\ lockTtl \in Nat
    /\ left \in Nat
    /\ slot \in [Process -> Task \cup {Free}]
    /\ pc \in [Task -> Place]
    /\ ran \in [Task -> 0 .. MaxInference]

\* The calls that count on the lease, and for how long at least it must last.
Holding(t) ==
    \/ pc[t] \in {"slot", "running", "unlease"}
    \/ KindOf[t] = "reanalyse" /\ pc[t] \in {"leasing", "done"}

Due(t) == IF pc[t] \in {"running", "unlease"} THEN lockTtl - ran[t] ELSE lockTtl

LeaseInv ==
    \A t \in Task : Holding(t) =>
        holder = ProcessOf[t] /\ owner = t /\ left >= Due(t)

SlotInv ==
    \A p \in Process : slot[p] # Free =>
        pc[slot[p]] = "running" /\ ProcessOf[slot[p]] = p

QueueInv ==
    /\ queue = [p \in Process |-> <<>>]
    /\ \A t \in Task : pc[t] # "waiting"

\* A forced reanalysis never gets past its own lease.
ReanalysisInv ==
    \A t \in Task : KindOf[t] = "reanalyse" => pc[t] \in {"idle", "leasing", "done"}

Inv == Typed /\ LeaseInv /\ SlotInv /\ QueueInv /\ ReanalysisInv

-----------------------------------------------------------------------------
(* While a call counts on the lease, the lease is held and not expired, and  *)
(* no other call counts on it.                                               *)
LEMMA HoldingBlocks ==
    ASSUME Inv, Hypotheses, NEW t \in Task, Holding(t)
    PROVE  /\ Blocked
           /\ left >= 1
           /\ \A u \in Task : Holding(u) => u = t
<1>1. ran[t] \in 0 .. MaxInference
  BY DEF Inv, Typed
<1>2. holder = ProcessOf[t] /\ owner = t /\ left >= Due(t)
  BY DEF Inv, LeaseInv
<1>3. Due(t) >= 1
  BY <1>1, InferenceAssumption DEF Due, Hypotheses, Outlasts, Inv, Typed
<1>4. left >= 1
  BY <1>2, <1>3, <1>1, InferenceAssumption DEF Due, Inv, Typed
<1>5. holder # Free
  BY <1>2, InferenceAssumption
<1>6. \A u \in Task : Holding(u) => u = t
  BY <1>2 DEF Inv, LeaseInv
<1>. QED
  BY <1>4, <1>5, <1>6 DEF Blocked, Inv, Typed

-----------------------------------------------------------------------------
(* One lemma for each step.                                                  *)

LEMMA InitInv == Init => Inv
<1>. SUFFICES ASSUME Init PROVE Inv
  OBVIOUS
<1>1. Typed
  BY InferenceAssumption DEF Init, Typed, Place
<1>2. LeaseInv /\ ReanalysisInv
  BY DEF Init, LeaseInv, ReanalysisInv, Holding
<1>3. SlotInv /\ QueueInv
  BY DEF Init, SlotInv, QueueInv
<1>. QED
  BY <1>1, <1>2, <1>3 DEF Inv

(* A call that goes from one place to another that is neither waiting nor    *)
(* running, or the other way round, leaves the other calls where they are.   *)
LEMMA GotoPlace ==
    ASSUME Typed, NEW t \in Task, NEW place \in Place, Goto(t, place)
    PROVE  /\ pc' \in [Task -> Place]
           /\ pc'[t] = place
           /\ \A u \in Task : u # t => pc'[u] = pc[u]
BY DEF Typed, Goto

(* The lease is granted: no call counted on it, and now only t does.         *)
LEMMA GrantInv ==
    ASSUME Inv, Hypotheses, UNCHANGED lockTtl, NEW t \in Task, NEW place \in {"slot", "leasing"},
           place = "leasing" => KindOf[t] = "reanalyse",
           place = "slot" => KindOf[t] # "reanalyse",
           pc[t] \in {"idle", "leasing"},
           TryAcquire(t), Goto(t, place), UNCHANGED <<slots, timers>>
    PROVE  Inv'
<1>1. /\ holder' = ProcessOf[t] /\ owner' = t /\ left' = lockTtl /\ ~Blocked
      /\ slot' = slot /\ queue' = queue /\ ran' = ran
  BY DEF TryAcquire, slots, timers
<1>2. \A u \in Task : ~Holding(u)
  BY <1>1, HoldingBlocks
<1>3. /\ pc' \in [Task -> Place] /\ pc'[t] = place
      /\ \A u \in Task : u # t => pc'[u] = pc[u]
  BY GotoPlace DEF Inv, Place
<1>4. Typed'
  BY <1>1, <1>3, InferenceAssumption DEF Inv, Typed
<1>5. LeaseInv'
  <2>. SUFFICES ASSUME NEW u \in Task, Holding(u)'
                PROVE  (holder = ProcessOf[u] /\ owner = u /\ left >= Due(u))'
    BY DEF LeaseInv
  <2>1. u = t
    BY <1>2, <1>3 DEF Holding
  <2>2. Due(t)' = lockTtl
    BY <1>3 DEF Due
  <2>. QED
    BY <2>1, <2>2, <1>1 DEF Inv, Typed
<1>6. SlotInv'
  BY <1>1, <1>3 DEF Inv, SlotInv, Typed
<1>7. QueueInv'
  BY <1>1, <1>3 DEF Inv, QueueInv
<1>8. ReanalysisInv'
  BY <1>3 DEF Inv, ReanalysisInv
<1>. QED
  BY <1>4, <1>5, <1>6, <1>7, <1>8 DEF Inv

(* A call stops counting on the lease, and gives it up or not.               *)
LEMMA GiveUpInv ==
    ASSUME Inv, Hypotheses, UNCHANGED lockTtl, NEW t \in Task, NEW place \in {"idle", "done"},
           place = "done" => KindOf[t] # "reanalyse",
           pc[t] \in {"unlease", "done"}, Holding(t),
           ReleaseOrNot(t), Goto(t, place), UNCHANGED <<slots, timers>>
    PROVE  Inv'
<1>1. /\ slot' = slot /\ queue' = queue /\ ran' = ran /\ left' \in Nat
  BY DEF ReleaseOrNot, Release, slots, timers, lease, Inv, Typed
<1>2. \A u \in Task : u # t => ~Holding(u)
  BY HoldingBlocks
<1>3. /\ pc' \in [Task -> Place] /\ pc'[t] = place
      /\ \A u \in Task : u # t => pc'[u] = pc[u]
  BY GotoPlace DEF Inv, Place
<1>4. Typed'
  BY <1>1, <1>3 DEF Inv, Typed
<1>5. LeaseInv'
  BY <1>2, <1>3 DEF LeaseInv, Holding
<1>6. SlotInv'
  BY <1>1, <1>3 DEF Inv, SlotInv, Typed
<1>7. QueueInv'
  BY <1>1, <1>3 DEF Inv, QueueInv
<1>8. ReanalysisInv'
  BY <1>3 DEF Inv, ReanalysisInv
<1>. QED
  BY <1>4, <1>5, <1>6, <1>7, <1>8 DEF Inv

(* A call moves and leaves the lease alone, and does not come to count on it.*)
LEMMA MoveInv ==
    ASSUME Inv, Hypotheses, UNCHANGED lockTtl, NEW t \in Task, NEW place \in {"leasing", "done", "idle"},
           pc[t] \in {"idle", "leasing", "done"},
           place = "leasing" => KindOf[t] # "reanalyse",
           place = "done" => pc[t] = "leasing",
           UNCHANGED lease, Goto(t, place), UNCHANGED <<slots, timers>>
    PROVE  Inv'
<1>1. /\ slot' = slot /\ queue' = queue /\ ran' = ran
      /\ left' = left /\ holder' = holder /\ owner' = owner
  BY DEF slots, timers, lease
<1>3. /\ pc' \in [Task -> Place] /\ pc'[t] = place
      /\ \A u \in Task : u # t => pc'[u] = pc[u]
  BY GotoPlace DEF Inv, Place
<1>4. Typed'
  BY <1>1, <1>3 DEF Inv, Typed
<1>5. LeaseInv'
  <2>. SUFFICES ASSUME NEW u \in Task, Holding(u)'
                PROVE  (holder = ProcessOf[u] /\ owner = u /\ left >= Due(u))'
    BY DEF LeaseInv
  <2>1. Holding(u)
    BY <1>3 DEF Holding
  <2>2. Due(u)' = Due(u)
    BY <1>1, <1>3 DEF Due
  <2>. QED
    BY <2>1, <2>2, <1>1 DEF Inv, LeaseInv
<1>6. SlotInv'
  BY <1>1, <1>3 DEF Inv, SlotInv, Typed
<1>7. QueueInv'
  BY <1>1, <1>3 DEF Inv, QueueInv
<1>8. ReanalysisInv'
  BY <1>3 DEF Inv, ReanalysisInv
<1>. QED
  BY <1>4, <1>5, <1>6, <1>7, <1>8 DEF Inv

LEMMA AcquireSlotInv ==
    ASSUME Inv, Hypotheses, UNCHANGED lockTtl, NEW t \in Task, AcquireSlot(t)
    PROVE  Inv'
<1>0. PICK p \in Process : p = ProcessOf[t]
  BY InferenceAssumption
<1>1. /\ pc[t] = "slot" /\ slot' = [slot EXCEPT ![p] = t] /\ queue' = queue
      /\ ran' = [ran EXCEPT ![t] = 0]
      /\ left' = left /\ holder' = holder /\ owner' = owner /\ Goto(t, "running")
  BY <1>0 DEF AcquireSlot, lease
<1>2. Holding(t)
  BY <1>1 DEF Holding
<1>3. /\ pc' \in [Task -> Place] /\ pc'[t] = "running"
      /\ \A u \in Task : u # t => pc'[u] = pc[u]
  BY <1>1, GotoPlace DEF Inv, Place
<1>4. /\ ran' \in [Task -> 0 .. MaxInference] /\ ran'[t] = 0
      /\ \A u \in Task : u # t => ran'[u] = ran[u]
  BY <1>1, InferenceAssumption DEF Inv, Typed
<1>5. Typed'
  BY <1>1, <1>3, <1>4 DEF Inv, Typed
<1>6. LeaseInv'
  <2>. SUFFICES ASSUME NEW u \in Task, Holding(u)'
                PROVE  (holder = ProcessOf[u] /\ owner = u /\ left >= Due(u))'
    BY DEF LeaseInv
  <2>1. Holding(u)
    BY <1>2, <1>3 DEF Holding
  <2>2. u = t
    BY <1>2, <2>1, HoldingBlocks
  <2>3. Due(t) = lockTtl /\ Due(t)' = lockTtl
    BY <1>1, <1>3, <1>4 DEF Due, Inv, Typed
  <2>. QED
    BY <2>1, <2>2, <2>3, <1>1 DEF Inv, Typed, LeaseInv
<1>7. SlotInv'
  <2>. SUFFICES ASSUME NEW q \in Process, slot'[q] # Free
                PROVE  pc'[slot'[q]] = "running" /\ ProcessOf[slot'[q]] = q
    BY DEF SlotInv
  <2>1. CASE q = p
    BY <2>1, <1>0, <1>1, <1>3 DEF Inv, Typed
  <2>2. CASE q # p
    <3>1. slot'[q] = slot[q] /\ slot[q] \in Task
      BY <2>2, <1>1 DEF Inv, Typed
    <3>2. pc[slot[q]] = "running" /\ ProcessOf[slot[q]] = q
      BY <3>1 DEF Inv, SlotInv
    <3>. QED
      BY <3>1, <3>2, <1>1, <1>3
  <2>. QED
    BY <2>1, <2>2
<1>8. QueueInv'
  BY <1>1, <1>3 DEF Inv, QueueInv
<1>9. ReanalysisInv'
  BY <1>1, <1>3 DEF Inv, ReanalysisInv
<1>. QED
  BY <1>5, <1>6, <1>7, <1>8, <1>9 DEF Inv

(* A slot that is taken is that of a running call: the one that asks for it  *)
(* would share the lease with it.                                            *)
LEMMA NobodyWaits ==
    ASSUME Inv, Hypotheses, UNCHANGED lockTtl, NEW t \in Task
    PROVE  ~WaitForSlot(t)
<1>. SUFFICES ASSUME WaitForSlot(t) PROVE FALSE
  OBVIOUS
<1>. DEFINE u == slot[ProcessOf[t]]
<1>1. pc[t] = "slot" /\ u # Free /\ ProcessOf[t] \in Process
  BY InferenceAssumption DEF WaitForSlot
<1>2. u \in Task /\ pc[u] = "running"
  BY <1>1 DEF Inv, Typed, SlotInv
<1>3. Holding(t) /\ Holding(u)
  BY <1>1, <1>2 DEF Holding
<1>4. u = t
  BY <1>2, <1>3, HoldingBlocks
<1>. QED
  BY <1>1, <1>2, <1>4

LEMMA EndInferenceInv ==
    ASSUME Inv, Hypotheses, UNCHANGED lockTtl, NEW t \in Task, EndInference(t)
    PROVE  Inv'
<1>0. PICK p \in Process : p = ProcessOf[t]
  BY InferenceAssumption
<1>1. queue[p] = <<>>
  BY DEF Inv, QueueInv
<1>2. /\ pc[t] = "running" /\ slot' = [slot EXCEPT ![p] = Free]
      /\ left' = left /\ holder' = holder /\ owner' = owner
  BY <1>0, <1>1 DEF EndInference, lease
<1>3. queue' = queue
  <2>1. queue' = [queue EXCEPT ![p] = <<>>]
    BY <1>0, <1>1 DEF EndInference
  <2>. QED
    BY <2>1, <1>1 DEF Inv, QueueInv
<1>4. /\ pc' = [v \in Task |-> IF v = t THEN "unlease" ELSE IF v = Free THEN "running" ELSE pc[v]]
      /\ ran' = [v \in Task |-> IF v = Free THEN 0 ELSE ran[v]]
  BY <1>0, <1>1 DEF EndInference
<1>5. /\ pc' \in [Task -> Place] /\ pc'[t] = "unlease"
      /\ \A v \in Task : v # t => pc'[v] = pc[v]
      /\ ran' = ran
  BY <1>4, InferenceAssumption DEF Inv, Typed, Place
<1>6. Typed'
  BY <1>2, <1>5 DEF Inv, Typed
<1>7. Holding(t)
  BY <1>2 DEF Holding
<1>8. LeaseInv'
  <2>. SUFFICES ASSUME NEW u \in Task, Holding(u)'
                PROVE  (holder = ProcessOf[u] /\ owner = u /\ left >= Due(u))'
    BY DEF LeaseInv
  <2>1. Holding(u)
    BY <1>7, <1>5 DEF Holding
  <2>2. Due(u)' = Due(u)
    BY <1>2, <1>5 DEF Due
  <2>. QED
    BY <2>1, <2>2, <1>2 DEF Inv, LeaseInv
<1>9. SlotInv'
  <2>. SUFFICES ASSUME NEW q \in Process, slot'[q] # Free
                PROVE  pc'[slot'[q]] = "running" /\ ProcessOf[slot'[q]] = q
    BY DEF SlotInv
  <2>1. q # p /\ slot'[q] = slot[q] /\ slot[q] \in Task
    BY <1>2 DEF Inv, Typed
  <2>2. pc[slot[q]] = "running" /\ ProcessOf[slot[q]] = q
    BY <2>1 DEF Inv, SlotInv
  <2>. QED
    BY <2>1, <2>2, <1>0, <1>5
<1>10. QueueInv'
  BY <1>3, <1>5 DEF Inv, QueueInv
<1>11. ReanalysisInv'
  BY <1>2, <1>5 DEF Inv, ReanalysisInv
<1>. QED
  BY <1>6, <1>8, <1>9, <1>10, <1>11 DEF Inv

LEMMA CrashInv ==
    ASSUME Inv, UNCHANGED lockTtl, NEW p \in Process, Crash(p)
    PROVE  Inv'
<1>1. /\ slot' = [slot EXCEPT ![p] = Free] /\ queue' = [queue EXCEPT ![p] = <<>>]
      /\ pc' = [t \in Task |-> IF ProcessOf[t] = p THEN "idle" ELSE pc[t]]
      /\ left' = left /\ holder' = holder /\ owner' = owner /\ ran' = ran
  BY DEF Crash, lease, timers
<1>2. Typed'
  BY <1>1 DEF Inv, Typed, Place
<1>3. \A t \in Task : pc'[t] = "idle" \/ pc'[t] = pc[t]
  BY <1>1
<1>4. LeaseInv'
  <2>. SUFFICES ASSUME NEW u \in Task, Holding(u)'
                PROVE  (holder = ProcessOf[u] /\ owner = u /\ left >= Due(u))'
    BY DEF LeaseInv
  <2>1. pc'[u] = pc[u]
    BY <1>3 DEF Holding
  <2>2. Holding(u) /\ Due(u)' = Due(u)
    BY <2>1, <1>1 DEF Holding, Due
  <2>. QED
    BY <2>2, <1>1 DEF Inv, LeaseInv
<1>5. SlotInv'
  <2>. SUFFICES ASSUME NEW q \in Process, slot'[q] # Free
                PROVE  pc'[slot'[q]] = "running" /\ ProcessOf[slot'[q]] = q
    BY DEF SlotInv
  <2>1. q # p /\ slot'[q] = slot[q] /\ slot[q] \in Task
    BY <1>1 DEF Inv, Typed
  <2>2. pc[slot[q]] = "running" /\ ProcessOf[slot[q]] = q
    BY <2>1 DEF Inv, SlotInv
  <2>. QED
    BY <2>1, <2>2, <1>1
<1>6. QueueInv'
  BY <1>1, <1>3 DEF Inv, QueueInv
<1>7. ReanalysisInv'
  BY <1>3 DEF Inv, ReanalysisInv
<1>. QED
  BY <1>2, <1>4, <1>5, <1>6, <1>7 DEF Inv

(* Time passes only while the calls under way run, and the lease of such a   *)
(* call loses what its inference has still to run.                           *)
LEMMA TickInv ==
    ASSUME Inv, Hypotheses, UNCHANGED lockTtl, Tick
    PROVE  Inv'
<1>1. /\ slot' = slot /\ queue' = queue /\ pc' = pc
      /\ holder' = holder /\ owner' = owner
      /\ left' = IF left > 0 THEN left - 1 ELSE 0
      /\ ran' = [t \in Task |-> IF pc[t] = "running" THEN ran[t] + 1 ELSE ran[t]]
  BY DEF Tick, slots
<1>2. \A t \in Task : \/ pc[t] = "idle"
                      \/ pc[t] = "running" /\ ran[t] < MaxInference
  BY DEF Tick, Inv, QueueInv
<1>3. ran' \in [Task -> 0 .. MaxInference]
  <2>1. \A t \in Task : (IF pc[t] = "running" THEN ran[t] + 1 ELSE ran[t]) \in 0 .. MaxInference
    BY <1>2, InferenceAssumption DEF Inv, Typed
  <2>. QED
    BY <2>1, <1>1
<1>4. Typed'
  BY <1>1, <1>3 DEF Inv, Typed
<1>5. LeaseInv'
  <2>. SUFFICES ASSUME NEW u \in Task, Holding(u)'
                PROVE  (holder = ProcessOf[u] /\ owner = u /\ left >= Due(u))'
    BY DEF LeaseInv
  <2>1. Holding(u) /\ pc[u] = "running"
    BY <1>1, <1>2 DEF Holding
  <2>2. holder = ProcessOf[u] /\ owner = u /\ left >= lockTtl - ran[u]
    BY <2>1 DEF Inv, LeaseInv, Due
  <2>3. left >= 1
    BY <2>1, HoldingBlocks
  <2>4. ran'[u] = ran[u] + 1 /\ left' = left - 1 /\ ran[u] \in Nat /\ left \in Nat
    BY <2>1, <2>3, <1>1 DEF Inv, Typed
  <2>5. Due(u)' = lockTtl - ran'[u]
    BY <2>1, <1>1 DEF Due
  <2>. QED
    BY <2>2, <2>4, <2>5, <1>1 DEF Inv, Typed
<1>6. SlotInv' /\ QueueInv' /\ ReanalysisInv'
  BY <1>1 DEF Inv, SlotInv, QueueInv, ReanalysisInv
<1>. QED
  BY <1>4, <1>5, <1>6 DEF Inv

-----------------------------------------------------------------------------
LEMMA TaskStepInv ==
    ASSUME Inv, Hypotheses, UNCHANGED lockTtl, NEW t \in Task,
           \/ Begin(t) \/ AcquireLease(t) \/ LeaseBusy(t)
           \/ AcquireSlot(t) \/ WaitForSlot(t) \/ QueueTimedOut(t)
           \/ EndInference(t) \/ ReleaseLease(t) \/ End(t)
    PROVE  Inv'
<1>0. KindOf[t] \in {"cycle", "reanalyse"} /\ Leased(t)
  BY InferenceAssumption DEF Hypotheses, Hypothesis, Leased
<1>1. CASE Begin(t)
  <2>1. CASE KindOf[t] = "reanalyse"
    BY <1>1, <2>1, GrantInv DEF Begin
  <2>2. CASE KindOf[t] = "cycle"
    BY <1>1, <2>2, MoveInv DEF Begin
  <2>. QED
    BY <1>0, <2>1, <2>2
<1>2. CASE AcquireLease(t)
  <2>1. KindOf[t] # "reanalyse"
    <3>. SUFFICES ASSUME KindOf[t] = "reanalyse" PROVE FALSE
      OBVIOUS
    <3>1. Holding(t)
      BY <1>2 DEF AcquireLease, Holding
    <3>. QED
      BY <3>1, <1>2, HoldingBlocks DEF AcquireLease, TryAcquire
  <2>. QED
    BY <1>2, <2>1, GrantInv DEF AcquireLease
<1>3. CASE LeaseBusy(t)
  BY <1>3, MoveInv DEF LeaseBusy
<1>4. CASE AcquireSlot(t)
  BY <1>4, AcquireSlotInv
<1>5. CASE WaitForSlot(t)
  BY <1>5, NobodyWaits
<1>6. CASE QueueTimedOut(t)
  BY <1>6 DEF QueueTimedOut, Inv, QueueInv
<1>7. CASE EndInference(t)
  BY <1>7, EndInferenceInv
<1>8. CASE ReleaseLease(t)
  <2>1. pc[t] = "unlease" /\ Holding(t)
    BY <1>8 DEF ReleaseLease, Holding
  <2>2. KindOf[t] # "reanalyse"
    BY <2>1 DEF Inv, ReanalysisInv
  <2>. QED
    BY <1>0, <1>8, <2>1, <2>2, GiveUpInv DEF ReleaseLease
<1>9. CASE End(t)
  <2>1. CASE KindOf[t] = "reanalyse"
    <3>1. pc[t] = "done" /\ Holding(t)
      BY <1>9, <2>1 DEF End, Holding
    <3>. QED
      BY <1>9, <2>1, <3>1, GiveUpInv DEF End
  <2>2. CASE KindOf[t] # "reanalyse"
    BY <1>9, <2>2, MoveInv DEF End
  <2>. QED
    BY <2>1, <2>2
<1>. QED
  BY <1>1, <1>2, <1>3, <1>4, <1>5, <1>6, <1>7, <1>8, <1>9

LEMMA StepInv ==
    ASSUME Inv, Hypotheses, [Next]_vars
    PROVE  Inv'
<1>0. UNCHANGED lockTtl
  BY DEF Next, vars
<1>1. CASE \E t \in Task : \/ Begin(t) \/ AcquireLease(t) \/ LeaseBusy(t)
                           \/ AcquireSlot(t) \/ WaitForSlot(t) \/ QueueTimedOut(t)
                           \/ EndInference(t) \/ ReleaseLease(t) \/ End(t)
  BY <1>0, <1>1, TaskStepInv
<1>2. CASE \E p \in Process : Crash(p)
  BY <1>0, <1>2, CrashInv
<1>3. CASE Tick
  BY <1>0, <1>3, TickInv
<1>4. CASE UNCHANGED vars
  BY <1>4 DEF vars, Inv, Typed, LeaseInv, Holding, Due, SlotInv, QueueInv, ReanalysisInv
<1>. QED
  BY <1>1, <1>2, <1>3, <1>4 DEF Next

(* The length of the lease never changes, hence the invariant is conditional *)
(* on it as a whole.                                                         *)
LEMMA Invariant == ASSUME Hypothesis PROVE Spec => [](Outlasts => Inv)
<1>1. Init => (Outlasts => Inv)
  BY InitInv
<1>2. (Outlasts => Inv) /\ [Next]_vars => (Outlasts => Inv)'
  <2>. SUFFICES ASSUME Outlasts => Inv, [Next]_vars, Outlasts'
                PROVE  Inv'
    OBVIOUS
  <2>1. Outlasts
    BY DEF Next, vars, Outlasts
  <2>. QED
    BY <2>1, StepInv DEF Hypotheses
<1>. QED
  BY <1>1, <1>2, PTL DEF Spec

-----------------------------------------------------------------------------
(***************************************************************************)
(* "Une seule inférence tourne à la fois" (README.md:51): over any number  *)
(* of processes, provided that each call takes the lease and that the      *)
(* lease outlasts an inference with its retries.                           *)
(***************************************************************************)
THEOREM OneInferenceHolds == ASSUME Hypothesis PROVE Spec => []OneInference
<1>1. ASSUME Outlasts => Inv PROVE OneInference
  BY <1>1, HoldingBlocks DEF OneInference, Holding, Hypotheses
<1>. QED
  BY <1>1, Invariant, PTL

(***************************************************************************)
(* Under the same hypotheses no call ever waits for the slot of its        *)
(* client, so that the queue of ollama-client.ts and its five minutes      *)
(* serve nobody.                                                           *)
(***************************************************************************)
THEOREM NobodyQueuesHolds == ASSUME Hypothesis PROVE Spec => []NobodyQueues
<1>1. ASSUME Outlasts => Inv PROVE NobodyQueues
  BY <1>1 DEF NobodyQueues, Inv, QueueInv
<1>. QED
  BY <1>1, Invariant, PTL

(***************************************************************************)
(* The lease is given up only by the call it was granted to, though it     *)
(* names no more than the process: inference-lock-repository.ts, release.  *)
(***************************************************************************)
THEOREM ReleasesOwnLeaseHolds == ASSUME Hypothesis PROVE Spec => ReleasesOwnLease
<1>. DEFINE Own == Outlasts /\ holder # Free /\ holder' = Free =>
                     pc[owner] \in {"unlease", "done"} /\ pc'[owner] # pc[owner]
<1>1. ASSUME Outlasts => Inv, [Next]_vars PROVE Own
  <2>. SUFFICES ASSUME Outlasts, holder # Free, holder' = Free
                PROVE  pc[owner] \in {"unlease", "done"} /\ pc'[owner] # pc[owner]
    OBVIOUS
  <2>1. \A t \in Task : ProcessOf[t] # Free
    BY InferenceAssumption
  <2>2. PICK t \in Task : ReleaseLease(t) \/ (End(t) /\ KindOf[t] = "reanalyse")
    BY <1>1, <2>1, InferenceAssumption DEF Next, vars, lease, Begin, AcquireLease, LeaseBusy,
       AcquireSlot, WaitForSlot, QueueTimedOut, EndInference, End, Crash, Tick, TryAcquire
  <2>3. /\ Holding(t) /\ pc[t] \in {"unlease", "done"}
        /\ \E place \in {"done", "idle"} : Goto(t, place) /\ place # pc[t]
    BY <2>2 DEF ReleaseLease, End, Holding
  <2>4. owner = t
    BY <1>1, <2>3 DEF Inv, LeaseInv
  <2>. QED
    BY <1>1, <2>3, <2>4 DEF Goto, Inv, Typed
<1>2. Spec => [][Own]_vars
  BY <1>1, Invariant, PTL DEF Spec
<1>. QED
  BY <1>2 DEF ReleasesOwnLease

(***************************************************************************)
(* What the run inference_reanalyse shows once holds always: a forced      *)
(* reanalysis never gets to infer, even alone.                             *)
(***************************************************************************)
THEOREM ReanalysisNeverInfers ==
    ASSUME Hypothesis
    PROVE  Spec => [](Outlasts =>
                          \A t \in Task : KindOf[t] = "reanalyse" => pc[t] # "running")
<1>1. ASSUME Outlasts => Inv, Outlasts
      PROVE  \A t \in Task : KindOf[t] = "reanalyse" => pc[t] # "running"
  BY <1>1 DEF Inv, ReanalysisInv
<1>. QED
  BY <1>1, Invariant, PTL
-----------------------------------------------------------------------------
(***************************************************************************)
(* The slots, whatever the leases do: a lease may expire under a running   *)
(* inference, a call may take none.                                        *)
(***************************************************************************)

(* The sequence s without its i-th element.                                  *)
LEMMA RemoveAtOf ==
    ASSUME NEW S, NEW s \in Seq(S), NEW i \in 1 .. Len(s)
    PROVE  /\ RemoveAt(s, i) \in Seq(S)
           /\ Len(RemoveAt(s, i)) = Len(s) - 1
           /\ \A j \in 1 .. Len(s) - 1 :
                 RemoveAt(s, i)[j] = IF j < i THEN s[j] ELSE s[j + 1]
<1>. DEFINE a == SubSeq(s, 1, i - 1)
            b == SubSeq(s, i + 1, Len(s))
<1>0. Len(s) \in Nat
  BY LenProperties
<1>1. /\ a \in Seq(S) /\ Len(a) = i - 1
      /\ \A j \in 1 .. i - 1 : a[j] = s[j]
  <2>1. \A j \in 1 .. i - 1 : s[j] \in S
    BY <1>0, ElementOfSeq
  <2>. HIDE DEF a
  <2>2. /\ a \in Seq(S) /\ Len(a) = (IF 1 <= i - 1 THEN i - 1 - 1 + 1 ELSE 0)
        /\ \A j \in 1 .. i - 1 - 1 + 1 : a[j] = s[1 + j - 1]
    BY <1>0, <2>1, SubSeqProperties DEF a
  <2>. QED
    BY <1>0, <2>2
<1>2. /\ b \in Seq(S) /\ Len(b) = Len(s) - i
      /\ \A j \in 1 .. Len(s) - i : b[j] = s[i + j]
  <2>1. \A j \in i + 1 .. Len(s) : s[j] \in S
    BY <1>0, ElementOfSeq
  <2>. HIDE DEF b
  <2>2. /\ b \in Seq(S) /\ Len(b) = (IF i + 1 <= Len(s) THEN Len(s) - (i + 1) + 1 ELSE 0)
        /\ \A j \in 1 .. Len(s) - (i + 1) + 1 : b[j] = s[i + 1 + j - 1]
    BY <1>0, <2>1, SubSeqProperties DEF b
  <2>3. Len(b) = Len(s) - i
    BY <1>0, <2>2
  <2>4. ASSUME NEW j \in 1 .. Len(s) - i PROVE b[j] = s[i + j]
    <3>1. j \in 1 .. Len(s) - (i + 1) + 1 /\ i + 1 + j - 1 = i + j
      BY <1>0
    <3>. QED
      BY <3>1, <2>2
  <2>. QED
    BY <2>2, <2>3, <2>4
<1>3. RemoveAt(s, i) = a \o b
  BY DEF RemoveAt
<1>. HIDE DEF a, b
<1>4. /\ a \o b \in Seq(S) /\ Len(a \o b) = Len(a) + Len(b)
      /\ \A j \in 1 .. Len(a) + Len(b) :
            (a \o b)[j] = IF j <= Len(a) THEN a[j] ELSE b[j - Len(a)]
  BY <1>1, <1>2, ConcatProperties
<1>5. ASSUME NEW j \in 1 .. Len(s) - 1
      PROVE  (a \o b)[j] = IF j < i THEN s[j] ELSE s[j + 1]
  <2>1. CASE j < i
    BY <2>1, <1>0, <1>1, <1>2, <1>4
  <2>2. CASE i <= j
    <3>1. (a \o b)[j] = b[j - (i - 1)] /\ j - (i - 1) \in 1 .. Len(s) - i
      BY <2>2, <1>0, <1>1, <1>2, <1>4
    <3>2. b[j - (i - 1)] = s[i + (j - (i - 1))]
      BY <3>1, <1>2
    <3>3. i + (j - (i - 1)) = j + 1
      BY <1>0
    <3>. QED
      BY <2>2, <3>1, <3>2, <3>3
  <2>3. j < i \/ i <= j
    BY <1>0
  <2>. QED
    BY <2>1, <2>2, <2>3
<1>. QED
  BY <1>0, <1>1, <1>2, <1>3, <1>4, <1>5

(* An element that occurs once is removed from where it is.                  *)
LEMMA RemoveFirstOf ==
    ASSUME NEW S, NEW s \in Seq(S), NEW i \in 1 .. Len(s),
           \A j \in 1 .. Len(s) : s[j] = s[i] => j = i
    PROVE  RemoveFirst(s, s[i]) = RemoveAt(s, i)
<1>0. Len(s) \in Nat
  BY LenProperties
<1>1. SelectInSeq(s, LAMBDA v : v = s[i]) = Min({j \in 1 .. Len(s) : s[j] = s[i]})
  BY DEF SelectInSeq
<1>2. {j \in 1 .. Len(s) : s[j] = s[i]} = {i}
  OBVIOUS
<1>3. Min({i}) = i
  BY <1>0 DEF Min
<1>. QED
  BY <1>1, <1>2, <1>3 DEF RemoveFirst

\* The slot of p is in the hands of the call of p that infers; the calls of p
\* that wait are in line behind it, each once.
Kept(p) ==
    /\ slot[p] # Free => pc[slot[p]] = "running" /\ ProcessOf[slot[p]] = p
    /\ \A t \in Task : ProcessOf[t] = p /\ pc[t] = "running" => slot[p] = t
    /\ \A i \in 1 .. Len(queue[p]) :
          /\ ProcessOf[queue[p][i]] = p /\ pc[queue[p][i]] = "waiting"
          /\ \A j \in 1 .. Len(queue[p]) : queue[p][j] = queue[p][i] => j = i
    /\ \A t \in Task : ProcessOf[t] = p /\ pc[t] = "waiting" =>
          \E i \in 1 .. Len(queue[p]) : queue[p][i] = t
    /\ queue[p] # <<>> => slot[p] # Free

KeptInv == TypeOK /\ \A p \in Process : Kept(p)

LEMMA KeptTypes ==
    ASSUME TypeOK, NEW p \in Process
    PROVE  /\ slot[p] \in Task \cup {Free}
           /\ queue[p] \in Seq(Task)
           /\ Len(queue[p]) \in Nat
           /\ \A i \in 1 .. Len(queue[p]) : queue[p][i] \in Task
<1>1. queue[p] \in Seq(Task) /\ slot[p] \in Task \cup {Free}
  BY DEF TypeOK
<1>. QED
  BY <1>1, LenProperties, ElementOfSeq

(* A step that neither touches the slot and the line of p, nor lets a call   *)
(* of p begin or cease to infer or to wait, leaves p as it was.              *)
LEMMA KeptElsewhere ==
    ASSUME TypeOK, NEW p \in Process, Kept(p),
           slot'[p] = slot[p], queue'[p] = queue[p],
           \A u \in Task : ProcessOf[u] = p =>
              \/ pc'[u] = pc[u]
              \/ pc[u] \notin {"running", "waiting"} /\ pc'[u] \notin {"running", "waiting"}
    PROVE  Kept(p)'
<1>. slot[p] \in Task \cup {Free} /\ \A i \in 1 .. Len(queue[p]) : queue[p][i] \in Task
  BY KeptTypes
<1>. DEFINE places == {"running", "waiting"}
<1>1. slot'[p] # Free => pc'[slot'[p]] = "running" /\ ProcessOf[slot'[p]] = p
  <2>. SUFFICES ASSUME slot[p] # Free PROVE pc'[slot[p]] = "running" /\ ProcessOf[slot[p]] = p
    OBVIOUS
  <2>1. slot[p] \in Task /\ pc[slot[p]] = "running" /\ ProcessOf[slot[p]] = p
    BY DEF Kept
  <2>. QED
    BY <2>1
<1>2. ASSUME NEW t \in Task, ProcessOf[t] = p, pc'[t] = "running" PROVE slot'[p] = t
  <2>1. pc[t] = "running"
    BY <1>2
  <2>. QED
    BY <1>2, <2>1 DEF Kept
<1>3. ASSUME NEW i \in 1 .. Len(queue'[p])
      PROVE  /\ ProcessOf[queue'[p][i]] = p /\ pc'[queue'[p][i]] = "waiting"
             /\ \A j \in 1 .. Len(queue'[p]) : queue'[p][j] = queue'[p][i] => j = i
  <2>1. /\ queue[p][i] \in Task /\ ProcessOf[queue[p][i]] = p /\ pc[queue[p][i]] = "waiting"
        /\ \A j \in 1 .. Len(queue[p]) : queue[p][j] = queue[p][i] => j = i
    BY DEF Kept
  <2>. QED
    BY <2>1
<1>4. ASSUME NEW t \in Task, ProcessOf[t] = p, pc'[t] = "waiting"
      PROVE  \E i \in 1 .. Len(queue'[p]) : queue'[p][i] = t
  <2>1. pc[t] = "waiting"
    BY <1>4
  <2>. QED
    BY <1>4, <2>1 DEF Kept
<1>5. queue'[p] # <<>> => slot'[p] # Free
  BY DEF Kept
<1>. QED
  BY <1>1, <1>2, <1>3, <1>4, <1>5 DEF Kept

-----------------------------------------------------------------------------
(* The types: one lemma for the steps of the lease, one for each other.      *)
LEMMA LeaseTypes ==
    ASSUME TypeOK, UNCHANGED lockTtl, NEW t \in Task,
           TryAcquire(t) \/ ReleaseOrNot(t) \/ UNCHANGED lease
    PROVE  (/\ holder \in Process \cup {Free} /\ left \in 0 .. lockTtl
            /\ owner \in Task \cup {Free})'
<1>1. lockTtl \in Nat \ {0}
  BY InferenceAssumption DEF TypeOK
<1>2. CASE TryAcquire(t)
  BY <1>1, <1>2, InferenceAssumption DEF TryAcquire, TypeOK
<1>3. CASE ReleaseOrNot(t)
  BY <1>1, <1>3 DEF ReleaseOrNot, Release, lease, TypeOK
<1>4. CASE UNCHANGED lease
  BY <1>4 DEF lease, TypeOK
<1>. QED
  BY <1>2, <1>3, <1>4

LEMMA GotoTypes ==
    ASSUME TypeOK, NEW t \in Task, NEW place \in Place, Goto(t, place)
    PROVE  /\ pc' \in [Task -> Place] /\ pc'[t] = place
           /\ \A u \in Task : u # t => pc'[u] = pc[u]
BY DEF TypeOK, Goto, Place

(* A call that leaves the slots alone moves between places where it neither  *)
(* infers nor waits.                                                         *)
LEMMA AsideKept ==
    ASSUME KeptInv, UNCHANGED lockTtl, NEW t \in Task,
           TryAcquire(t) \/ ReleaseOrNot(t) \/ UNCHANGED lease,
           pc[t] \in {"idle", "leasing", "unlease", "done"},
           NEW place \in {"idle", "leasing", "slot", "unlease", "done"}, Goto(t, place),
           UNCHANGED <<slots, timers>>
    PROVE  KeptInv'
<1>1. slot' = slot /\ queue' = queue /\ ran' = ran /\ waited' = waited
  BY DEF slots, timers
<1>2. /\ pc' \in [Task -> Place] /\ pc'[t] = place
      /\ \A u \in Task : u # t => pc'[u] = pc[u]
  BY GotoTypes DEF KeptInv, Place
<1>3. TypeOK'
  BY <1>1, <1>2, LeaseTypes DEF KeptInv, TypeOK, Place
<1>4. ASSUME NEW p \in Process PROVE Kept(p)'
  BY <1>1, <1>2, KeptElsewhere DEF KeptInv
<1>. QED
  BY <1>3, <1>4 DEF KeptInv

LEMMA AcquireSlotKept ==
    ASSUME KeptInv, UNCHANGED lockTtl, NEW t \in Task, AcquireSlot(t)
    PROVE  KeptInv'
<1>0. PICK p \in Process : p = ProcessOf[t]
  BY InferenceAssumption
<1>1. /\ pc[t] = "slot" /\ slot[p] = Free /\ slot' = [slot EXCEPT ![p] = t]
      /\ queue' = queue /\ ran' = [ran EXCEPT ![t] = 0] /\ waited' = waited
      /\ UNCHANGED lease /\ Goto(t, "running")
  BY <1>0 DEF AcquireSlot
<1>2. /\ pc' \in [Task -> Place] /\ pc'[t] = "running"
      /\ \A u \in Task : u # t => pc'[u] = pc[u]
  BY <1>1, GotoTypes DEF KeptInv, Place
<1>3. slot' \in [Process -> Task \cup {Free}] /\ ran' \in [Task -> 0 .. MaxInference]
  BY <1>1, InferenceAssumption DEF KeptInv, TypeOK
<1>4. TypeOK'
  BY <1>1, <1>2, <1>3, LeaseTypes DEF KeptInv, TypeOK, Place
<1>5. Kept(p)'
  <2>1. Kept(p) /\ slot'[p] = t /\ t # Free
    BY <1>1, InferenceAssumption DEF KeptInv, TypeOK
  <2>2. queue[p] = <<>> /\ queue'[p] = <<>>
    BY <2>1, <1>1 DEF Kept
  <2>3. ASSUME NEW u \in Task, ProcessOf[u] = p, pc'[u] = "running" PROVE u = t
    BY <2>1, <2>3, <1>1, <1>2, InferenceAssumption DEF Kept
  <2>4. ASSUME NEW u \in Task, ProcessOf[u] = p PROVE pc'[u] # "waiting"
    <3>. SUFFICES ASSUME pc'[u] = "waiting" PROVE FALSE
      OBVIOUS
    <3>1. pc[u] = "waiting"
      BY <1>2
    <3>. QED
      BY <3>1, <2>1, <2>2, <2>4 DEF Kept
  <2>. QED
    BY <1>0, <1>2, <2>1, <2>2, <2>3, <2>4 DEF Kept
<1>6. ASSUME NEW q \in Process, q # p PROVE Kept(q)'
  BY <1>0, <1>1, <1>2, <1>6, KeptElsewhere DEF KeptInv, TypeOK
<1>. QED
  BY <1>4, <1>5, <1>6 DEF KeptInv

LEMMA WaitForSlotKept ==
    ASSUME KeptInv, UNCHANGED lockTtl, NEW t \in Task, WaitForSlot(t)
    PROVE  KeptInv'
<1>0. PICK p \in Process : p = ProcessOf[t]
  BY InferenceAssumption
<1>1. /\ pc[t] = "slot" /\ slot[p] # Free /\ slot' = slot
      /\ queue' = [queue EXCEPT ![p] = Append(queue[p], t)]
      /\ waited' = [waited EXCEPT ![t] = 0] /\ ran' = ran
      /\ UNCHANGED lease /\ Goto(t, "waiting")
  BY <1>0 DEF WaitForSlot
<1>2. /\ pc' \in [Task -> Place] /\ pc'[t] = "waiting"
      /\ \A u \in Task : u # t => pc'[u] = pc[u]
  BY <1>1, GotoTypes DEF KeptInv, Place
<1>. DEFINE s == queue[p]
            r == Append(s, t)
<1>3. /\ s \in Seq(Task) /\ Len(s) \in Nat /\ r \in Seq(Task) /\ Len(r) = Len(s) + 1
      /\ \A i \in 1 .. Len(s) : r[i] = s[i] /\ s[i] \in Task
      /\ r[Len(s) + 1] = t /\ r # <<>>
  BY KeptTypes, AppendProperties DEF KeptInv
<1>4. queue' \in [Process -> Seq(Task)] /\ queue'[p] = r
  BY <1>1, <1>3 DEF KeptInv, TypeOK
<1>5. waited' \in [Task -> 0 .. QueueTimeout]
  BY <1>1, InferenceAssumption DEF KeptInv, TypeOK
<1>6. TypeOK'
  BY <1>1, <1>2, <1>4, <1>5, LeaseTypes DEF KeptInv, TypeOK, Place
<1>7. Kept(p)'
  <2>1. Kept(p) /\ slot[p] \in Task
    BY <1>1 DEF KeptInv, TypeOK
  <2>2. \A i \in 1 .. Len(s) : s[i] # t
    BY <2>1, <1>1 DEF Kept
  <2>3. slot'[p] # Free => pc'[slot'[p]] = "running" /\ ProcessOf[slot'[p]] = p
    BY <2>1, <1>1, <1>2 DEF Kept
  <2>4. ASSUME NEW u \in Task, ProcessOf[u] = p, pc'[u] = "running" PROVE slot'[p] = u
    BY <2>1, <2>4, <1>1, <1>2 DEF Kept
  <2>5. ASSUME NEW i \in 1 .. Len(r)
        PROVE  /\ ProcessOf[r[i]] = p /\ pc'[r[i]] = "waiting"
               /\ \A j \in 1 .. Len(r) : r[j] = r[i] => j = i
    <3>. HIDE DEF s, r
    <3>1. ASSUME NEW j \in 1 .. Len(r)
          PROVE  (j \in 1 .. Len(s) /\ r[j] = s[j]) \/ (j = Len(s) + 1 /\ r[j] = t)
      BY <1>3
    <3>2. CASE i = Len(s) + 1
      <4>1. r[i] = t
        BY <3>2, <1>3
      <4>. QED
        BY <4>1, <3>1, <3>2, <2>2, <1>0, <1>2
    <3>3. CASE i \in 1 .. Len(s) /\ r[i] = s[i]
      <4>1. /\ ProcessOf[s[i]] = p /\ pc[s[i]] = "waiting" /\ s[i] \in Task /\ s[i] # t
            /\ \A j \in 1 .. Len(s) : s[j] = s[i] => j = i
        BY <3>3, <2>1, <2>2, <1>3 DEF Kept, s
      <4>. QED
        BY <4>1, <3>1, <3>3, <1>2
    <3>. QED
      BY <3>1, <3>2, <3>3
  <2>6. ASSUME NEW u \in Task, ProcessOf[u] = p, pc'[u] = "waiting"
        PROVE  \E i \in 1 .. Len(r) : r[i] = u
    <3>. HIDE DEF s, r
    <3>1. CASE u = t
      BY <3>1, <1>3
    <3>2. CASE u # t
      <4>1. PICK i \in 1 .. Len(s) : s[i] = u
        BY <3>2, <2>1, <2>6, <1>2 DEF Kept, s
      <4>. QED
        BY <4>1, <1>3
    <3>. QED
      BY <3>1, <3>2
  <2>. HIDE DEF r
  <2>. QED
    BY <1>1, <1>4, <2>3, <2>4, <2>5, <2>6 DEF Kept
<1>8. ASSUME NEW q \in Process, q # p PROVE Kept(q)'
  BY <1>0, <1>1, <1>2, <1>8, KeptElsewhere DEF KeptInv, TypeOK
<1>. QED
  BY <1>6, <1>7, <1>8 DEF KeptInv

LEMMA QueueTimedOutKept ==
    ASSUME KeptInv, UNCHANGED lockTtl, NEW t \in Task, QueueTimedOut(t)
    PROVE  KeptInv'
<1>0. PICK p \in Process : p = ProcessOf[t]
  BY InferenceAssumption
<1>. DEFINE s == queue[p]
            r == RemoveFirst(s, t)
<1>1. /\ pc[t] = "waiting" /\ slot' = slot /\ queue' = [queue EXCEPT ![p] = r]
      /\ ran' = ran /\ waited' = waited /\ UNCHANGED lease /\ Goto(t, "unlease")
  BY <1>0 DEF QueueTimedOut, timers
<1>2. /\ pc' \in [Task -> Place] /\ pc'[t] = "unlease"
      /\ \A u \in Task : u # t => pc'[u] = pc[u]
  BY <1>1, GotoTypes DEF KeptInv, Place
<1>3. Kept(p) /\ s \in Seq(Task) /\ Len(s) \in Nat /\ \A i \in 1 .. Len(s) : s[i] \in Task
  BY KeptTypes DEF KeptInv
<1>4. PICK k \in 1 .. Len(s) : s[k] = t
  BY <1>0, <1>1, <1>3 DEF Kept
<1>5. \A i \in 1 .. Len(s) : /\ ProcessOf[s[i]] = p /\ pc[s[i]] = "waiting"
                             /\ \A j \in 1 .. Len(s) : s[j] = s[i] => j = i
  BY <1>3 DEF Kept
<1>6. /\ r \in Seq(Task) /\ Len(r) = Len(s) - 1
      /\ \A j \in 1 .. Len(s) - 1 : r[j] = IF j < k THEN s[j] ELSE s[j + 1]
  <2>1. r = RemoveAt(s, k)
    BY <1>3, <1>4, <1>5, RemoveFirstOf
  <2>. HIDE DEF s, r
  <2>. QED
    BY <2>1, <1>3, RemoveAtOf
<1>7. queue' \in [Process -> Seq(Task)] /\ queue'[p] = r
  BY <1>1, <1>6 DEF KeptInv, TypeOK
<1>8. TypeOK'
  BY <1>1, <1>2, <1>7, LeaseTypes DEF KeptInv, TypeOK, Place
<1>9. Kept(p)'
  \* Where the j-th of the new line stood in the old one.
  <2>. DEFINE from(j) == IF j < k THEN j ELSE j + 1
  <2>1. slot'[p] # Free => pc'[slot'[p]] = "running" /\ ProcessOf[slot'[p]] = p
    <3>. SUFFICES ASSUME slot[p] # Free
                  PROVE  pc'[slot[p]] = "running" /\ ProcessOf[slot[p]] = p
      BY <1>1
    <3>1. slot[p] \in Task /\ pc[slot[p]] = "running" /\ ProcessOf[slot[p]] = p
      BY <1>3, KeptTypes DEF Kept, KeptInv
    <3>. QED
      BY <3>1, <1>1, <1>2
  <2>2. ASSUME NEW u \in Task, ProcessOf[u] = p, pc'[u] = "running" PROVE slot'[p] = u
    BY <2>2, <1>1, <1>2, <1>3 DEF Kept
  <2>. HIDE DEF s, r
  <2>3. ASSUME NEW j \in 1 .. Len(r)
        PROVE  from(j) \in 1 .. Len(s) /\ from(j) # k /\ r[j] = s[from(j)]
    BY <1>3, <1>6
  <2>4. ASSUME NEW i \in 1 .. Len(r)
        PROVE  /\ ProcessOf[r[i]] = p /\ pc'[r[i]] = "waiting"
               /\ \A j \in 1 .. Len(r) : r[j] = r[i] => j = i
    <3>1. from(i) \in 1 .. Len(s) /\ from(i) # k /\ r[i] = s[from(i)]
      BY <2>3
    <3>2. ProcessOf[r[i]] = p /\ pc[r[i]] = "waiting" /\ r[i] \in Task /\ r[i] # t
      <4>. HIDE DEF from
      <4>. QED
        BY <3>1, <1>3, <1>4, <1>5
    <3>3. ASSUME NEW j \in 1 .. Len(r), r[j] = r[i] PROVE j = i
      <4>1. from(j) \in 1 .. Len(s) /\ r[j] = s[from(j)]
        BY <2>3
      <4>2. from(j) = from(i)
        <5>. HIDE DEF from
        <5>. QED
          BY <4>1, <3>1, <3>3, <1>5
      <4>3. i \in Int /\ j \in Int /\ k \in Int
        BY <1>3, <1>6
      <4>. QED
        BY <4>2, <4>3
    <3>. QED
      BY <3>2, <3>3, <1>2
  <2>5. ASSUME NEW u \in Task, ProcessOf[u] = p, pc'[u] = "waiting"
        PROVE  \E i \in 1 .. Len(r) : r[i] = u
    <3>1. u # t /\ pc[u] = "waiting"
      BY <2>5, <1>2
    <3>2. PICK i \in 1 .. Len(s) : s[i] = u
      BY <3>1, <2>5, <1>3 DEF Kept, s
    <3>3. i # k
      BY <3>1, <3>2, <1>4
    <3>4. CASE i < k
      <4>1. i \in 1 .. Len(r) /\ r[i] = s[i]
        BY <3>4, <1>3, <1>6
      <4>. QED
        BY <4>1, <3>2
    <3>5. CASE i > k
      <4>1. i - 1 \in 1 .. Len(r) /\ ~(i - 1 < k) /\ (i - 1) + 1 = i
        BY <3>5, <1>3, <1>6
      <4>2. r[i - 1] = s[i]
        BY <4>1, <1>6
      <4>. QED
        BY <4>1, <4>2, <3>2
    <3>6. i < k \/ i > k
      BY <3>3, <1>3
    <3>. QED
      BY <3>4, <3>5, <3>6
  <2>6. r # <<>> => slot'[p] # Free
    <3>1. s # <<>>
      BY <1>3, <1>4, EmptySeq
    <3>. QED
      BY <3>1, <1>1, <1>3 DEF Kept, s
  <2>. QED
    BY <1>7, <2>1, <2>2, <2>4, <2>5, <2>6 DEF Kept
<1>10. ASSUME NEW q \in Process, q # p PROVE Kept(q)'
  BY <1>0, <1>1, <1>2, <1>10, KeptElsewhere DEF KeptInv, TypeOK
<1>. QED
  BY <1>8, <1>9, <1>10 DEF KeptInv

(* The slot is handed to the first in line, which was waiting still.         *)
LEMMA EndInferenceKept ==
    ASSUME KeptInv, UNCHANGED lockTtl, NEW t \in Task, EndInference(t)
    PROVE  KeptInv'
<1>0. PICK p \in Process : p = ProcessOf[t]
  BY InferenceAssumption
<1>. DEFINE s == queue[p]
            next == IF s = <<>> THEN Free ELSE Head(s)
            r == IF s = <<>> THEN s ELSE Tail(s)
<1>1. /\ pc[t] = "running" /\ slot' = [slot EXCEPT ![p] = next]
      /\ queue' = [queue EXCEPT ![p] = r] /\ UNCHANGED lease /\ waited' = waited
      /\ pc' = [u \in Task |-> IF u = t THEN "unlease" ELSE IF u = next THEN "running" ELSE pc[u]]
      /\ ran' = [u \in Task |-> IF u = next THEN 0 ELSE ran[u]]
  BY <1>0 DEF EndInference
<1>2. Kept(p) /\ s \in Seq(Task) /\ Len(s) \in Nat /\ \A i \in 1 .. Len(s) : s[i] \in Task
  BY KeptTypes DEF KeptInv
<1>3. \A i \in 1 .. Len(s) : /\ ProcessOf[s[i]] = p /\ pc[s[i]] = "waiting"
                             /\ \A j \in 1 .. Len(s) : s[j] = s[i] => j = i
  BY <1>2 DEF Kept
<1>4. CASE s = <<>>
  <2>1. /\ next = Free /\ r = s
    BY <1>4
  <2>. HIDE DEF next, r
  <2>2. /\ pc' \in [Task -> Place] /\ pc'[t] = "unlease"
        /\ \A u \in Task : u # t => pc'[u] = pc[u]
        /\ ran' = ran
    BY <1>1, <2>1, InferenceAssumption DEF KeptInv, TypeOK, Place
  <2>3. slot' \in [Process -> Task \cup {Free}] /\ slot'[p] = Free
    BY <1>1, <2>1 DEF KeptInv, TypeOK
  <2>4. queue' \in [Process -> Seq(Task)] /\ queue'[p] = s
    BY <1>1, <1>2, <2>1 DEF KeptInv, TypeOK
  <2>5. TypeOK'
    BY <1>1, <2>2, <2>3, <2>4, LeaseTypes DEF KeptInv, TypeOK, Place
  <2>6. Kept(p)'
    <3>1. Len(s) = 0
      BY <1>4
    <3>2. ASSUME NEW u \in Task, ProcessOf[u] = p PROVE pc'[u] # "running" /\ pc'[u] # "waiting"
      <4>1. pc[u] # "waiting"
        BY <1>2, <3>1, <3>2 DEF Kept
      <4>2. pc[u] = "running" => u = t
        BY <1>0, <1>1, <1>2, <3>2 DEF Kept
      <4>. QED
        BY <4>1, <4>2, <2>2
    <3>. QED
      BY <2>3, <2>4, <1>4, <3>1, <3>2 DEF Kept
  <2>7. ASSUME NEW q \in Process, q # p PROVE Kept(q)'
    BY <1>0, <1>1, <2>2, <2>7, KeptElsewhere DEF KeptInv, TypeOK
  <2>. QED
    BY <2>5, <2>6, <2>7 DEF KeptInv
<1>5. CASE s # <<>>
  <2>1. /\ next = Head(s) /\ next = s[1] /\ 1 \in 1 .. Len(s) /\ r = Tail(s)
        /\ r \in Seq(Task) /\ Len(r) = Len(s) - 1
        /\ \A i \in 1 .. Len(s) - 1 : r[i] = s[i + 1]
    BY <1>2, <1>5, HeadTailProperties, EmptySeq
  <2>. HIDE DEF next, r, s
  <2>2. /\ next \in Task /\ ProcessOf[next] = p /\ pc[next] = "waiting"
        /\ next # t /\ next # Free
    BY <2>1, <1>1, <1>2, <1>3, InferenceAssumption
  <2>3. /\ pc' \in [Task -> Place] /\ pc'[t] = "unlease" /\ pc'[next] = "running"
        /\ \A u \in Task : u # t /\ u # next => pc'[u] = pc[u]
    BY <1>1, <2>2 DEF KeptInv, TypeOK, Place
  <2>4. ran' \in [Task -> 0 .. MaxInference]
    BY <1>1, InferenceAssumption DEF KeptInv, TypeOK
  <2>5. slot' \in [Process -> Task \cup {Free}] /\ slot'[p] = next
    BY <1>1, <2>2 DEF KeptInv, TypeOK
  <2>6. queue' \in [Process -> Seq(Task)] /\ queue'[p] = r
    BY <1>1, <2>1 DEF KeptInv, TypeOK
  <2>7. TypeOK'
    BY <1>1, <2>3, <2>4, <2>5, <2>6, LeaseTypes DEF KeptInv, TypeOK, Place
  <2>8. Kept(p)'
    <3>1. ASSUME NEW u \in Task, ProcessOf[u] = p, pc'[u] = "running" PROVE u = next
      <4>1. pc[u] = "running" => u = t
        BY <1>0, <1>1, <1>2, <3>1 DEF Kept
      <4>. QED
        BY <4>1, <3>1, <2>3
    <3>2. ASSUME NEW i \in 1 .. Len(r)
          PROVE  /\ ProcessOf[r[i]] = p /\ pc'[r[i]] = "waiting"
                 /\ \A j \in 1 .. Len(r) : r[j] = r[i] => j = i
      <4>1. ASSUME NEW j \in 1 .. Len(r)
            PROVE  j + 1 \in 1 .. Len(s) /\ r[j] = s[j + 1] /\ j + 1 # 1
        BY <1>2, <2>1
      <4>2. r[i] \in Task /\ r[i] # t /\ r[i] # next /\ pc[r[i]] = "waiting" /\ ProcessOf[r[i]] = p
        BY <4>1, <1>1, <1>2, <1>3, <2>1
      <4>3. ASSUME NEW j \in 1 .. Len(r), r[j] = r[i] PROVE j = i
        <5>1. j + 1 = i + 1
          BY <4>1, <4>3, <1>3
        <5>. QED
          BY <5>1, <1>2, <2>1
      <4>. QED
        BY <4>2, <4>3, <2>3
    <3>3. ASSUME NEW u \in Task, ProcessOf[u] = p, pc'[u] = "waiting"
          PROVE  \E i \in 1 .. Len(r) : r[i] = u
      <4>1. u # t /\ u # next /\ pc[u] = "waiting"
        BY <3>3, <2>3
      <4>2. PICK i \in 1 .. Len(s) : s[i] = u
        BY <4>1, <3>3, <1>2 DEF Kept, s
      <4>3. i - 1 \in 1 .. Len(s) - 1 /\ (i - 1) + 1 = i
        BY <4>1, <4>2, <1>2, <2>1
      <4>4. r[i - 1] = s[i]
        BY <4>3, <2>1
      <4>. QED
        BY <4>2, <4>3, <4>4, <2>1
    <3>. QED
      BY <2>2, <2>3, <2>5, <2>6, <3>1, <3>2, <3>3 DEF Kept
  <2>9. ASSUME NEW q \in Process, q # p PROVE Kept(q)'
    <3>1. \A u \in Task : ProcessOf[u] = q => pc'[u] = pc[u]
      BY <1>0, <2>2, <2>3, <2>9
    <3>2. slot'[q] = slot[q] /\ queue'[q] = queue[q]
      BY <1>1, <2>9 DEF KeptInv, TypeOK
    <3>. QED
      BY <3>1, <3>2, KeptElsewhere DEF KeptInv
  <2>. QED
    BY <2>7, <2>8, <2>9 DEF KeptInv
<1>. QED
  BY <1>4, <1>5

LEMMA CrashKept ==
    ASSUME KeptInv, UNCHANGED lockTtl, NEW p \in Process, Crash(p)
    PROVE  KeptInv'
<1>1. /\ slot' = [slot EXCEPT ![p] = Free] /\ queue' = [queue EXCEPT ![p] = <<>>]
      /\ pc' = [t \in Task |-> IF ProcessOf[t] = p THEN "idle" ELSE pc[t]]
      /\ left' = left /\ holder' = holder /\ owner' = owner /\ ran' = ran /\ waited' = waited
  BY DEF Crash, lease, timers
<1>2. pc' \in [Task -> Place]
  BY <1>1 DEF KeptInv, TypeOK, Place
<1>3. queue' \in [Process -> Seq(Task)]
  BY <1>1, EmptySeq DEF KeptInv, TypeOK
<1>4. TypeOK'
  BY <1>1, <1>2, <1>3 DEF KeptInv, TypeOK, Place
<1>5. Kept(p)'
  <2>1. slot'[p] = Free /\ queue'[p] = <<>> /\ Len(queue'[p]) = 0
    BY <1>1 DEF KeptInv, TypeOK
  <2>2. \A t \in Task : ProcessOf[t] = p => pc'[t] = "idle"
    BY <1>1
  <2>. QED
    BY <2>1, <2>2 DEF Kept
<1>6. ASSUME NEW q \in Process, q # p PROVE Kept(q)'
  BY <1>1, <1>6, KeptElsewhere DEF KeptInv, TypeOK
<1>. QED
  BY <1>4, <1>5, <1>6 DEF KeptInv

LEMMA TickKept ==
    ASSUME KeptInv, UNCHANGED lockTtl, Tick
    PROVE  KeptInv'
<1>1. /\ slot' = slot /\ queue' = queue /\ pc' = pc /\ holder' = holder /\ owner' = owner
      /\ left' = IF left > 0 THEN left - 1 ELSE 0
      /\ ran' = [t \in Task |-> IF pc[t] = "running" THEN ran[t] + 1 ELSE ran[t]]
      /\ waited' = [t \in Task |-> IF pc[t] = "waiting" THEN waited[t] + 1 ELSE waited[t]]
      /\ \A t \in Task : \/ pc[t] = "idle"
                         \/ pc[t] = "running" /\ ran[t] < MaxInference
                         \/ pc[t] = "waiting" /\ waited[t] < QueueTimeout
  BY DEF Tick, slots
<1>2. ran' \in [Task -> 0 .. MaxInference]
  <2>1. ASSUME NEW t \in Task
        PROVE  (IF pc[t] = "running" THEN ran[t] + 1 ELSE ran[t]) \in 0 .. MaxInference
    <3>1. ran[t] \in 0 .. MaxInference /\ MaxInference \in Nat
      BY InferenceAssumption DEF KeptInv, TypeOK
    <3>2. pc[t] = "running" => ran[t] < MaxInference
      BY <1>1
    <3>. QED
      BY <3>1, <3>2
  <2>. QED
    BY <2>1, <1>1
<1>3. waited' \in [Task -> 0 .. QueueTimeout]
  <2>1. ASSUME NEW t \in Task
        PROVE  (IF pc[t] = "waiting" THEN waited[t] + 1 ELSE waited[t]) \in 0 .. QueueTimeout
    <3>1. waited[t] \in 0 .. QueueTimeout /\ QueueTimeout \in Nat
      BY InferenceAssumption DEF KeptInv, TypeOK
    <3>2. pc[t] = "waiting" => waited[t] < QueueTimeout
      BY <1>1
    <3>. QED
      BY <3>1, <3>2
  <2>. QED
    BY <2>1, <1>1
<1>4. left' \in 0 .. lockTtl'
  BY <1>1, InferenceAssumption DEF KeptInv, TypeOK
<1>5. TypeOK'
  BY <1>1, <1>2, <1>3, <1>4 DEF KeptInv, TypeOK
<1>6. ASSUME NEW p \in Process PROVE Kept(p)'
  BY <1>1, KeptElsewhere DEF KeptInv
<1>. QED
  BY <1>5, <1>6 DEF KeptInv

LEMMA TaskStepKept ==
    ASSUME KeptInv, UNCHANGED lockTtl, NEW t \in Task,
           \/ Begin(t) \/ AcquireLease(t) \/ LeaseBusy(t)
           \/ AcquireSlot(t) \/ WaitForSlot(t) \/ QueueTimedOut(t)
           \/ EndInference(t) \/ ReleaseLease(t) \/ End(t)
    PROVE  KeptInv'
<1>1. CASE Begin(t)
  <2>0. KindOf[t] \in {"cycle", "reanalyse", "catch_up"}
    BY InferenceAssumption
  <2>1. CASE KindOf[t] = "reanalyse"
    BY <1>1, <2>1, AsideKept DEF Begin
  <2>2. CASE KindOf[t] = "cycle"
    BY <1>1, <2>2, AsideKept DEF Begin
  <2>3. CASE KindOf[t] = "catch_up"
    BY <1>1, <2>3, AsideKept DEF Begin
  <2>. QED
    BY <2>0, <2>1, <2>2, <2>3
<1>2. CASE AcquireLease(t)
  BY <1>2, AsideKept DEF AcquireLease
<1>3. CASE LeaseBusy(t)
  BY <1>3, AsideKept DEF LeaseBusy
<1>4. CASE AcquireSlot(t)
  BY <1>4, AcquireSlotKept
<1>5. CASE WaitForSlot(t)
  BY <1>5, WaitForSlotKept
<1>6. CASE QueueTimedOut(t)
  BY <1>6, QueueTimedOutKept
<1>7. CASE EndInference(t)
  BY <1>7, EndInferenceKept
<1>8. CASE ReleaseLease(t)
  <2>1. CASE Leased(t)
    BY <1>8, <2>1, AsideKept DEF ReleaseLease
  <2>2. CASE ~Leased(t)
    BY <1>8, <2>2, AsideKept DEF ReleaseLease
  <2>. QED
    BY <2>1, <2>2
<1>9. CASE End(t)
  <2>1. CASE KindOf[t] = "reanalyse"
    BY <1>9, <2>1, AsideKept DEF End
  <2>2. CASE KindOf[t] # "reanalyse"
    BY <1>9, <2>2, AsideKept DEF End
  <2>. QED
    BY <2>1, <2>2
<1>. QED
  BY <1>1, <1>2, <1>3, <1>4, <1>5, <1>6, <1>7, <1>8, <1>9

LEMMA InitKept == Init => KeptInv
<1>. SUFFICES ASSUME Init PROVE KeptInv
  OBVIOUS
<1>1. TypeOK
  <2>1. queue \in [Process -> Seq(Task)]
    BY EmptySeq DEF Init
  <2>2. left \in 0 .. lockTtl /\ ran \in [Task -> 0 .. MaxInference]
        /\ waited \in [Task -> 0 .. QueueTimeout]
    BY InferenceAssumption DEF Init
  <2>. QED
    BY <2>1, <2>2 DEF Init, TypeOK
<1>2. ASSUME NEW p \in Process PROVE Kept(p)
  <2>1. slot[p] = Free /\ queue[p] = <<>> /\ Len(queue[p]) = 0
    BY DEF Init
  <2>. QED
    BY <2>1 DEF Init, Kept
<1>. QED
  BY <1>1, <1>2 DEF KeptInv

LEMMA StepKept == KeptInv /\ [Next]_vars => KeptInv'
<1>. SUFFICES ASSUME KeptInv, [Next]_vars PROVE KeptInv'
  OBVIOUS
<1>0. UNCHANGED lockTtl
  BY DEF Next, vars
<1>1. CASE \E t \in Task : \/ Begin(t) \/ AcquireLease(t) \/ LeaseBusy(t)
                           \/ AcquireSlot(t) \/ WaitForSlot(t) \/ QueueTimedOut(t)
                           \/ EndInference(t) \/ ReleaseLease(t) \/ End(t)
  BY <1>0, <1>1, TaskStepKept
<1>2. CASE \E p \in Process : Crash(p)
  BY <1>0, <1>2, CrashKept
<1>3. CASE Tick
  BY <1>0, <1>3, TickKept
<1>4. CASE UNCHANGED vars
  <2>1. TypeOK'
    BY <1>4 DEF vars, KeptInv, TypeOK
  <2>2. ASSUME NEW p \in Process PROVE Kept(p)'
    BY <1>4, KeptElsewhere DEF vars, KeptInv
  <2>. QED
    BY <2>1, <2>2 DEF KeptInv
<1>. QED
  BY <1>1, <1>2, <1>3, <1>4 DEF Next

(***************************************************************************)
(* Whatever the leases do (they may expire under an inference, or not be   *)
(* taken at all), the client of a process runs one call at a time and      *)
(* hands its slot to one that still waits; nobody waits for a free slot,   *)
(* and nobody who left stays in line: ollama-client.ts, InferenceSlot.     *)
(***************************************************************************)
THEOREM SlotsInvHolds == Spec => []SlotsInv
<1>1. KeptInv => SlotsInv
  <2>. SUFFICES ASSUME KeptInv, NEW t \in Task
                PROVE  LET p == ProcessOf[t] IN
                          /\ pc[t] = "running" <=> slot[p] = t
                          /\ pc[t] = "waiting" <=> t \in {queue[p][i] : i \in DOMAIN queue[p]}
                          /\ queue[p] # <<>> => slot[p] # Free
    BY DEF SlotsInv, OnePerProcess, KeptInv
  <2>0. PICK p \in Process : p = ProcessOf[t]
    BY InferenceAssumption
  <2>1. Kept(p) /\ queue[p] \in Seq(Task) /\ DOMAIN queue[p] = 1 .. Len(queue[p])
    BY KeptTypes, LenProperties DEF KeptInv
  <2>2. pc[t] = "running" <=> slot[p] = t
    BY <2>0, <2>1, InferenceAssumption DEF Kept
  <2>3. pc[t] = "waiting" <=> t \in {queue[p][i] : i \in DOMAIN queue[p]}
    BY <2>0, <2>1 DEF Kept
  <2>. QED
    BY <2>0, <2>1, <2>2, <2>3 DEF Kept
<1>. QED
  BY <1>1, InitKept, StepKept, PTL DEF Spec
=============================================================================
