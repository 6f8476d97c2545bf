--------------------------- MODULE InferenceLease ---------------------------
(***************************************************************************)
(* One inference at a time: the lease all processes share                  *)
(* (packages/database/src/inference-lock-repository.ts) and the slot each  *)
(* Ollama client has (packages/analysis/src/ollama-client.ts), with who    *)
(* takes them: the analyses of a cycle in the worker or the bot, the       *)
(* forced reanalysis of the bot, and the catch-up script.                  *)
(*                                                                         *)
(* Time passes in ticks, while an inference runs, waits or none is under   *)
(* way: the other steps take none.                                         *)
(***************************************************************************)
EXTENDS Integers, Sequences, FiniteSets, SequencesExt

CONSTANTS
    Task,          \* the calls that may be under way
    Process,
    ProcessOf,     \* ProcessOf[t]: the process of t, whose pid is in the holder
                   \* id of its leases
    KindOf,        \* KindOf[t]: "cycle", "reanalyse" or "catch_up"
    Free,          \* no holder, no task
    LockTtls,      \* the lockTtlMs looked at, in ticks
    MaxInference,  \* how long an inference may last, retries included
    QueueTimeout   \* how long a call waits for the slot

ASSUME InferenceAssumption ==
    /\ ProcessOf \in [Task -> Process]
    /\ KindOf \in [Task -> {"cycle", "reanalyse", "catch_up"}]
    /\ Free \notin Process /\ Free \notin Task
    /\ LockTtls \subseteq Nat \ {0}
    /\ MaxInference \in Nat \ {0} /\ QueueTimeout \in Nat \ {0}

VARIABLES
    lockTtl,  \* the lockTtlMs of this behaviour
    holder,   \* the process that holds the lease, or Free
    left,     \* ticks until the lease expires
    owner,    \* the call the lease was granted to last (for the properties)
    slot,     \* slot[p]: the call in the slot of the client of p, or Free
    queue,    \* queue[p]: the calls that wait for it, first come first
    pc,       \* pc[t]: where call t is
    ran,      \* ran[t]: how long its inference has run
    waited    \* waited[t]: how long it has waited for the slot

vars == <<lockTtl, holder, left, owner, slot, queue, pc, ran, waited>>
lease == <<holder, left, owner>>
slots == <<slot, queue>>
timers == <<ran, waited>>

Init ==
    /\ lockTtl \in LockTtls
    /\ holder = Free /\ left = 0 /\ owner = Free
    /\ slot = [p \in Process |-> Free]
    /\ queue = [p \in Process |-> <<>>]
    /\ pc = [t \in Task |-> "idle"]
    /\ ran = [t \in Task |-> 0]
    /\ waited = [t \in Task |-> 0]

Goto(t, place) == pc' = [pc EXCEPT ![t] = place]
Leased(t) == KindOf[t] # "catch_up"

-----------------------------------------------------------------------------
(* The lease.                                                              *)

BlockedEarly == holder # Free /\ left > 1

\* Held by a process, the same one or another, and not expired.
Blocked == holder # Free /\ left > 0

TryAcquire(t) ==
    /\ ~Blocked
    /\ holder' = ProcessOf[t] /\ left' = lockTtl /\ owner' = t

\* Only the holder id is compared.
Release(t) ==
    IF holder = ProcessOf[t]
    THEN holder' = Free /\ left' = 0 /\ UNCHANGED owner
    ELSE UNCHANGED lease

\* The release is refused, or gets no answer: ignored, the lease expires.
ReleaseOrNot(t) == Release(t) \/ UNCHANGED lease

-----------------------------------------------------------------------------
(* A call.                                                                 *)

\* The forced reanalysis takes the lease around the whole analysis; it is
\* rejected, and nothing begins, while the lease is held.
Begin(t) ==
    /\ pc[t] = "idle"
    /\ CASE KindOf[t] = "reanalyse" -> TryAcquire(t) /\ Goto(t, "leasing")
         [] KindOf[t] = "cycle"     -> Goto(t, "leasing") /\ UNCHANGED lease
         [] KindOf[t] = "catch_up"  -> Goto(t, "slot") /\ UNCHANGED lease
    /\ UNCHANGED <<slots, timers>>

AcquireLeaseReentrant(t) ==
    /\ pc[t] = "leasing"
    /\ ~Blocked \/ holder = ProcessOf[t]
    /\ holder' = ProcessOf[t] /\ left' = lockTtl /\ owner' = t
    /\ Goto(t, "slot")
    /\ UNCHANGED <<slots, timers>>

\* infer: the lease, then the slot.
AcquireLease(t) ==
    /\ pc[t] = "leasing"
    /\ TryAcquire(t)
    /\ Goto(t, "slot")
    /\ UNCHANGED <<slots, timers>>

LeaseBusyCleansUp(t) ==
    /\ pc[t] = "leasing"
    /\ Blocked
    /\ Goto(t, "unlease")
    /\ UNCHANGED <<lease, slots, timers>>

\* queue_timeout, at once.
LeaseBusy(t) ==
    /\ pc[t] = "leasing"
    /\ Blocked
    /\ Goto(t, "done")
    /\ UNCHANGED <<lease, slots, timers>>

AcquireSlot(t) ==
    LET p == ProcessOf[t]
    IN  /\ pc[t] = "slot"
        /\ slot[p] = Free
        /\ slot' = [slot EXCEPT ![p] = t]
        /\ Goto(t, "running")
        /\ ran' = [ran EXCEPT ![t] = 0]
        /\ UNCHANGED <<lease, queue, waited>>

WaitForSlot(t) ==
    LET p == ProcessOf[t]
    IN  /\ pc[t] = "slot"
        /\ slot[p] # Free
        /\ queue' = [queue EXCEPT ![p] = Append(@, t)]
        /\ Goto(t, "waiting")
        /\ waited' = [waited EXCEPT ![t] = 0]
        /\ UNCHANGED <<lease, slot, ran>>

QueueTimedOutStays(t) ==
    /\ pc[t] = "waiting"
    /\ waited[t] >= QueueTimeout
    /\ Goto(t, "unlease")
    /\ UNCHANGED <<lease, slots, timers>>

QueueTimedOut(t) ==
    LET p == ProcessOf[t]
    IN  /\ pc[t] = "waiting"
        /\ waited[t] >= QueueTimeout
        /\ queue' = [queue EXCEPT ![p] = RemoveFirst(@, t)]
        /\ Goto(t, "unlease")
        /\ UNCHANGED <<lease, slot, timers>>

\* An answer, or the last of the retries: the slot goes to the first that waits.
EndInference(t) ==
    LET p == ProcessOf[t]
        next == IF queue[p] = <<>> THEN Free ELSE Head(queue[p])
    IN  /\ pc[t] = "running"
        /\ slot' = [slot EXCEPT ![p] = next]
        /\ queue' = [queue EXCEPT ![p] = IF @ = <<>> THEN @ ELSE Tail(@)]
        /\ pc' = [u \in Task |-> IF u = t THEN "unlease"
                                 ELSE IF u = next THEN "running" ELSE pc[u]]
        /\ ran' = [u \in Task |-> IF u = next THEN 0 ELSE ran[u]]
        /\ UNCHANGED <<lease, waited>>

ReleaseLease(t) ==
    /\ pc[t] = "unlease"
    /\ IF Leased(t) THEN ReleaseOrNot(t) ELSE UNCHANGED lease
    /\ Goto(t, "done")
    /\ UNCHANGED <<slots, timers>>

\* The forced reanalysis releases the lease it took.
End(t) ==
    /\ pc[t] = "done"
    /\ IF KindOf[t] = "reanalyse" THEN ReleaseOrNot(t) ELSE UNCHANGED lease
    /\ Goto(t, "idle")
    /\ UNCHANGED <<slots, timers>>

Crash(p) ==
    /\ slot' = [slot EXCEPT ![p] = Free]
    /\ queue' = [queue EXCEPT ![p] = <<>>]
    /\ pc' = [t \in Task |-> IF ProcessOf[t] = p THEN "idle" ELSE pc[t]]
    /\ UNCHANGED <<lease, timers>>

Tick ==
    /\ \A t \in Task :
          \/ pc[t] = "idle"
          \/ pc[t] = "running" /\ ran[t] < MaxInference
          \/ pc[t] = "waiting" /\ waited[t] < QueueTimeout
    /\ left' = IF left > 0 THEN left - 1 ELSE 0
    /\ ran' = [t \in Task |-> IF pc[t] = "running" THEN ran[t] + 1 ELSE ran[t]]
    /\ waited' = [t \in Task |-> IF pc[t] = "waiting" THEN waited[t] + 1 ELSE waited[t]]
    /\ UNCHANGED <<holder, owner, slots, pc>>

Next ==
    /\ \/ \E t \in Task :
            \/ Begin(t) \/ AcquireLease(t) \/ LeaseBusy(t)
            \/ AcquireSlot(t) \/ WaitForSlot(t) \/ QueueTimedOut(t)
            \/ EndInference(t) \/ ReleaseLease(t) \/ End(t)
       \/ \E p \in Process : Crash(p)
       \/ Tick
    /\ UNCHANGED lockTtl

Spec == Init /\ [][Next]_vars

-----------------------------------------------------------------------------
TypeOK ==
    /\ lockTtl \in LockTtls
    /\ holder \in Process \cup {Free}
    /\ left \in 0 .. lockTtl
    /\ owner \in Task \cup {Free}
    /\ slot \in [Process -> Task \cup {Free}]
    /\ queue \in [Process -> Seq(Task)]
    /\ pc \in [Task -> {"idle", "leasing", "slot", "waiting", "running", "unlease", "done"}]
    /\ ran \in [Task -> 0 .. MaxInference]
    /\ waited \in [Task -> 0 .. QueueTimeout]

\* The lease is longer than an inference with its retries.  The configuration
\* (PIPELINE_LOCK_TTL_MS) does not ensure it.
Outlasts == MaxInference < lockTtl

(***************************************************************************)
(* "Une seule inférence tourne à la fois" (README.md:51), over all the     *)
(* processes.                                                              *)
(***************************************************************************)
OneInference ==
    Outlasts => \A t, u \in Task : pc[t] = "running" /\ pc[u] = "running" => t = u

(***************************************************************************)
(* Nobody ever waits for the slot of a client: the lease was refused       *)
(* before.  The five minutes of the queue are never used.                  *)
(***************************************************************************)
NobodyQueues == Outlasts => \A t \in Task : pc[t] # "waiting"

(***************************************************************************)
(* A call gives up its own lease only, though the lease names no more than *)
(* the process.                                                            *)
(***************************************************************************)
ReleasesOwnLease ==
    [][Outlasts /\ holder # Free /\ holder' = Free =>
          pc[owner] \in {"unlease", "done"} /\ pc'[owner] # pc[owner]]_vars

(***************************************************************************)
(* Even when leases expire under running inferences, a process runs one at *)
(* a time: the slot is held by the inference that runs, and handed to one  *)
(* that still waits.                                                       *)
(***************************************************************************)
OnePerProcess ==
    \A t \in Task : LET p == ProcessOf[t] IN
        /\ pc[t] = "running" <=> slot[p] = t
        /\ pc[t] = "waiting" <=> t \in {queue[p][i] : i \in DOMAIN queue[p]}
        /\ queue[p] # <<>> => slot[p] # Free

(***************************************************************************)
(* "Analyse échouée (ex. Ollama indisponible) : reprendre via              *)
(* /radar-admin reanalyse" (docs/Setup/INSTALL.md:97): a reanalysis that   *)
(* was admitted is not refused the inference.                              *)
(***************************************************************************)
ReanalysisInfers ==
    [][\A t \in Task : KindOf[t] = "reanalyse" =>
          ~(pc[t] = "leasing" /\ pc'[t] = "done")]_vars

(***************************************************************************)
(* The types, and the slots in the hands of those that infer.              *)
(***************************************************************************)
SlotsInv == TypeOK /\ OnePerProcess
=============================================================================
