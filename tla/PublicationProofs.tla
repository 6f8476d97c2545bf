-------------------------- MODULE PublicationProofs --------------------------
(***************************************************************************)
(* Proofs about Publication, for any tasks, holders, faults and messages.  *)
(*                                                                         *)
(*   - First what each operation does to its task and to its attempt, so   *)
(*     that no later proof opens an EXCEPT.                                *)
(*   - Inv: the row, the tasks and Discord agree, as long as no status was *)
(*     written over a main message that was not there when the row was     *)
(*     read.                                                               *)
(*   - SerialInv, of commands that do not overlap: one task at work, whose *)
(*     attempt is the latest one and still reserved, so that the attempts  *)
(*     tell what the row has, and nothing it has read is stale.  It gives  *)
(*     OneMainPerFault, and that the publication implements                *)
(*     PublicationRecord; with Inv, it gives RowInv and MainIsKept.        *)
(*   - LeaseInv, of tasks in processes of their own (OwnProcesses): a task *)
(*     in a call, or about to clear its lease, holds it.  It gives         *)
(*     OneExecutor.                                                        *)
(*   - EnrichInv, of the same tasks and with nothing stale written: the    *)
(*     posts made, and every way to one more, are charged to the first     *)
(*     enrichment or to a fault.  It gives OneEnrichmentPerFault.          *)
(***************************************************************************)
EXTENDS Publication, FiniteSetTheorems, TLAPS

-----------------------------------------------------------------------------
(* What each operation does, field by field.                                 *)

LEMMA KeyTypes ==
    /\ PublishKey \in Key /\ EnrichKey \in Key
    /\ \A m \in Msg :
          ThreadKey(m) \in Key /\ ThreadKey(m)[2] = m /\ Kind(ThreadKey(m)) = "create_thread"
    /\ \A k \in Key : Kind(k) \in {"publish", "enrich", "create_thread"}
    /\ \A k \in Key : Kind(k) = "publish" <=> k = PublishKey
    /\ \A k \in Key : Kind(k) = "enrich" <=> k = EnrichKey
    /\ \A k \in Key : Kind(k) = "create_thread" => k[2] \in Msg /\ k = ThreadKey(k[2])
    /\ Kind(NoKey) = "none" /\ NoKey \notin Key
BY FaultAssumption DEF Key, PublishKey, EnrichKey, ThreadKey, Kind, NoKey, NoMsg, Msg

Touches(p) == ex' \in [Task -> TaskState] /\ \A q \in Task : q # p => ex'[q] = ex[q]
SameWork(p) ==
    /\ ex'[p].cmd = ex[p].cmd /\ ex'[p].key = ex[p].key
    /\ ex'[p].num = ex[p].num
    /\ ex'[p].pc \notin {"fail_attempt", "fail_folder"} => ex'[p].msg = ex[p].msg

Goes(p, pc)       == Touches(p) /\ SameWork(p) /\ ex'[p].pc = pc /\ ex'[p].then = ex[p].then
Releases(p, next) == Touches(p) /\ SameWork(p) /\ ex'[p].pc = "release" /\ ex'[p].then = next
Stops(p)          == Touches(p) /\ ex'[p] = Idle
Reserves(p, k) ==
    /\ Touches(p)
    /\ ex'[p].pc = "reserve" /\ ex'[p].cmd = ex[p].cmd /\ ex'[p].key = k /\ ex'[p].num = 0
Begins(p, c, k) ==
    /\ Touches(p)
    /\ ex'[p].pc = "reserve" /\ ex'[p].cmd = c /\ ex'[p].key = k /\ ex'[p].num = 0
\* p has attempt n of its key, or has seen that it is over.
Joins(p, pc, n) ==
    /\ Touches(p)
    /\ ex'[p].pc = pc /\ ex'[p].cmd = ex[p].cmd /\ ex'[p].key = ex[p].key /\ ex'[p].num = n

\* Only the attempt of k changes.
Writes(k) == att' \in [Key -> AttRow] /\ \A j \in Key : j # k => att'[j] = att[j]

Place == {"idle", "reserve", "create", "open", "claim", "call", "release", "clear", "record",
          "write", "fail", "fail_attempt", "fail_folder"}
Then  == {"end", "record", "fail", "continue"}

LEMMA GoToEffect ==
    ASSUME TypeOK, NEW p \in Task, NEW pc \in Place, GoTo(p, pc)
    PROVE  Goes(p, pc)
BY DEF TypeOK, TaskState, GoTo, Goes, Touches, SameWork, Place

LEMMA StopEffect ==
    ASSUME TypeOK, NEW p \in Task, Stop(p)
    PROVE  Stops(p)
BY DEF TypeOK, TaskState, Stop, Idle, Stops, Touches, NoMsg

LEMMA TaskType ==
    ASSUME TypeOK, NEW p \in Task
    PROVE  ex[p] \in TaskState
BY DEF TypeOK

LEMMA ReservingEffect ==
    ASSUME TypeOK, NEW p \in Task, NEW k \in Key, Reserving(p, k)
    PROVE  Reserves(p, k)
<1>1. ex' = [ex EXCEPT ![p] = [ex[p] EXCEPT !.pc = "reserve", !.key = k, !.num = 0]]
  BY DEF TypeOK, Reserving
<1>2. [ex[p] EXCEPT !.pc = "reserve", !.key = k, !.num = 0] \in TaskState
  BY TaskType DEF TaskState
<1>. QED
  BY <1>1, <1>2 DEF TypeOK, TaskState, Reserves, Touches

LEMMA ReleasingEffect ==
    ASSUME TypeOK, NEW p \in Task, NEW next \in Then, Releasing(p, next)
    PROVE  Releases(p, next)
<1>1. ex' = [ex EXCEPT ![p] = [ex[p] EXCEPT !.pc = "release", !.then = next]]
  BY DEF TypeOK, Releasing
<1>2. [ex[p] EXCEPT !.pc = "release", !.then = next] \in TaskState
  BY TaskType DEF TaskState, Then
<1>. QED
  BY <1>1, <1>2 DEF TypeOK, TaskState, Releases, Touches, SameWork

LEMMA StartEffect ==
    ASSUME TypeOK, NEW p \in Task, NEW c \in {"publish", "enrich", "resume"}, NEW k \in Key,
           Start(p, c, k)
    PROVE  /\ Begins(p, c, k) /\ ex[p].pc = "idle"
           /\ set.exclusive => \A q \in Task : ex[q].pc = "idle"
           /\ UNCHANGED <<set, pub, att, sent, threads, posts, faults>>
<1>1. [Idle EXCEPT !.pc = "reserve", !.cmd = c, !.key = k] \in TaskState
  BY DEF TaskState, Idle, NoMsg
<1>2. ex' = [ex EXCEPT ![p] = [Idle EXCEPT !.pc = "reserve", !.cmd = c, !.key = k]]
  BY DEF Start
<1>. QED
  BY <1>1, <1>2 DEF TypeOK, Begins, Touches, Idle, Start

AfterThreads(p) ==
    \/ ex[p].cmd = "enrich" /\ Reserves(p, EnrichKey)
    \/ ex[p].cmd # "enrich" /\ Stops(p)

LEMMA AfterThreadEffect ==
    ASSUME TypeOK, NEW p \in Task, AfterThread(p)
    PROVE  AfterThreads(p)
BY StopEffect, ReservingEffect, KeyTypes DEF AfterThread, AfterThreads

AfterReleases(p) ==
    \/ ex[p].then = "continue" /\ AfterThreads(p)
    \/ ex[p].then = "end" /\ Stops(p)
    \/ ex[p].then \in {"record", "fail"} /\ Goes(p, ex[p].then)

LEMMA AfterReleaseEffect ==
    ASSUME TypeOK, NEW p \in Task, AfterRelease(p)
    PROVE  AfterReleases(p)
<1>1. ex[p].then \in Then
  BY DEF TypeOK, TaskState, Then
<1>2. CASE ex[p].then = "continue"
  BY <1>2, AfterThreadEffect DEF AfterRelease, AfterReleases
<1>3. CASE ex[p].then = "end"
  BY <1>3, StopEffect DEF AfterRelease, AfterReleases
<1>4. CASE ex[p].then \in {"record", "fail"}
  BY <1>4, GoToEffect DEF AfterRelease, AfterReleases, Place
<1>. QED
  BY <1>1, <1>2, <1>3, <1>4 DEF Then

\* p finds an active attempt of its key, or goes on to create one.
Finds(p, next) ==
    \/ ActiveAttempt(ex[p].key) /\ Joins(p, "claim", att[ex[p].key].num)
    \/ ~ActiveAttempt(ex[p].key) /\ Joins(p, next, att[ex[p].key].num)

LEMMA ReadEffect ==
    ASSUME TypeOK, NEW p \in Task, NEW next \in {"create", "open"},
           ReadAttempt(p, ex[p].key, next), ex[p].key \in Key
    PROVE  Finds(p, next) /\ ex'[p].msg = MainRead
<1>0. att[ex[p].key].num \in Num \cup {0} /\ ex[p] \in TaskState
  BY DEF TypeOK, AttRow
<1>1. PICK pc \in {"claim", "create", "open"} :
        pc = IF ActiveAttempt(ex[p].key) THEN "claim" ELSE next
  OBVIOUS
<1>2. PICK m \in Msg \cup {NoMsg} : m = MainRead
  BY DEF MainRead, TypeOK, PubRow
<1>3. [ex[p] EXCEPT !.pc = pc, !.num = att[ex[p].key].num, !.msg = m] \in TaskState
  BY <1>0 DEF TaskState
<1>4. ex' = [ex EXCEPT ![p] = [ex[p] EXCEPT !.pc = pc, !.num = att[ex[p].key].num, !.msg = m]]
  BY <1>1, <1>2 DEF ReadAttempt, TypeOK
<1>5. Joins(p, pc, att[ex[p].key].num) /\ ex'[p].msg = m
  BY <1>3, <1>4 DEF TypeOK, TaskState, Joins, Touches
<1>. QED
  BY <1>1, <1>2, <1>5 DEF Finds

FaultRow == [n : Nat, slow : BOOLEAN, stale : BOOLEAN]

\* A task that is about to write the status has read a row without a main message.
Reads ==
    \A p \in Task : ex[p].pc \in {"open", "fail_folder"} => ex[p].msg = NoMsg

\* Only the status of the row is written.  It is stale over a main message.
Rewrites(s) ==
    /\ pub' \in PubRow
    /\ pub'.status = s /\ pub'.main = pub.main /\ pub'.thread = pub.thread
    /\ faults' \in FaultRow
    /\ faults'.n = faults.n /\ faults'.slow = faults.slow
    /\ faults'.stale = FALSE => faults.stale = FALSE /\ pub.main = NoMsg
    /\ faults.stale = FALSE /\ pub.main = NoMsg => faults'.stale = FALSE

LEMMA StatusEffect ==
    ASSUME TypeOK, NEW s \in {"pending", "failed"}, NEW p \in Task, WriteStatus(p, s),
           ex[p].msg = NoMsg
    PROVE  Rewrites(s)
<1>1. pub' = [pub EXCEPT !.status = s]
  BY DEF WriteStatus
<1>2. /\ pub' \in PubRow
      /\ pub'.status = s /\ pub'.main = pub.main /\ pub'.thread = pub.thread
  BY <1>1 DEF TypeOK, PubRow
<1>3. PICK b \in BOOLEAN : (b = FALSE) <=> (faults.stale = FALSE /\ pub.main = NoMsg)
  OBVIOUS
<1>4. (faults.stale \/ pub.main # NoMsg) = b
  BY <1>3 DEF TypeOK
<1>5. faults' = [faults EXCEPT !.stale = faults.stale \/ pub.main # NoMsg]
  BY DEF WriteStatus, TypeOK
<1>6. faults' = [faults EXCEPT !.stale = b]
  BY <1>4, <1>5
<1>7. /\ faults' \in FaultRow /\ faults'.n = faults.n /\ faults'.slow = faults.slow
      /\ faults'.stale = b
  BY <1>6 DEF TypeOK, FaultRow
<1>. QED
  BY <1>2, <1>3, <1>7 DEF Rewrites

LEMMA CreateEffect ==
    ASSUME TypeOK, Reads, NEW p \in Task, CreateAttempt(p), ex[p].key \in Key
    PROVE  /\ Latest(p) /\ ~ActiveAttempt(ex[p].key) /\ UNCHANGED <<set, sent, threads, posts>>
           /\ \/ ex[p].pc = "open" /\ Rewrites("pending")
              \/ ex[p].pc = "create" /\ UNCHANGED <<pub, faults>>
           /\ \E n \in Num :
                 /\ Joins(p, "claim", n) /\ Unused(ex[p].key, n) /\ Writes(ex[p].key)
                 /\ att'[ex[p].key] = [num |-> n, status |-> "reserved", holder |-> NoHolder,
                                       lease |-> "none"]
<1>1. PICK n \in Num :
        /\ NextNum(ex[p].key, n)
        /\ att' = [att EXCEPT ![ex[p].key] = [num |-> n, status |-> "reserved",
                                              holder |-> NoHolder, lease |-> "none"]]
        /\ ex' = [ex EXCEPT ![p].pc = "claim", ![p].num = n]
  BY DEF CreateAttempt
<1>2. [ex[p] EXCEPT !.pc = "claim", !.num = n] \in TaskState
  BY TaskType DEF TaskState
<1>3. ex' = [ex EXCEPT ![p] = [ex[p] EXCEPT !.pc = "claim", !.num = n]]
  BY <1>1 DEF TypeOK
<1>4. Joins(p, "claim", n)
  BY <1>2, <1>3 DEF TypeOK, TaskState, Joins, Touches
<1>5. [num |-> n, status |-> "reserved", holder |-> NoHolder, lease |-> "none"] \in AttRow
  BY DEF AttRow
<1>6. Writes(ex[p].key) /\ att'[ex[p].key] = [num |-> n, status |-> "reserved",
                                              holder |-> NoHolder, lease |-> "none"]
  BY <1>1, <1>5 DEF TypeOK, Writes
<1>7. Latest(p) /\ ~ActiveAttempt(ex[p].key) /\ UNCHANGED <<set, sent, threads, posts>>
  BY DEF CreateAttempt, Creatable
<1>8. \/ ex[p].pc = "open" /\ Rewrites("pending")
      \/ ex[p].pc = "create" /\ UNCHANGED <<pub, faults>>
  BY StatusEffect DEF CreateAttempt, Creating, Reads
<1>. QED
  BY <1>1, <1>4, <1>6, <1>7, <1>8 DEF NextNum

LEMMA ClaimEffect ==
    ASSUME TypeOK, NEW p \in Task, Claim(p), ex[p].key \in Key
    PROVE  /\ Goes(p, "call") /\ Writes(ex[p].key)
           /\ att'[ex[p].key].num = att[ex[p].key].num
           /\ att'[ex[p].key].status = att[ex[p].key].status
           /\ att'[ex[p].key].holder = HolderOf[p]
           /\ att'[ex[p].key].lease = "live"
<1>1. Goes(p, "call")
  BY GoToEffect DEF Claim, Place
<1>2. att' = [att EXCEPT ![ex[p].key].holder = HolderOf[p], ![ex[p].key].lease = "live"]
  BY DEF Claim
<1>3. /\ Writes(ex[p].key)
      /\ att'[ex[p].key].num = att[ex[p].key].num
      /\ att'[ex[p].key].status = att[ex[p].key].status
      /\ att'[ex[p].key].holder = HolderOf[p]
      /\ att'[ex[p].key].lease = "live"
  BY <1>2, TaskAssumption DEF TypeOK, AttRow, Writes
<1>. QED
  BY <1>1, <1>3

LEMMA ClearEffect ==
    ASSUME TypeOK, NEW p \in Task, ClearLease(p), ex[p].key \in Key
    PROVE  /\ AfterReleases(p) /\ Writes(ex[p].key)
           /\ att'[ex[p].key].num = att[ex[p].key].num
           /\ att'[ex[p].key].status = att[ex[p].key].status
           /\ Latest(p) => att'[ex[p].key].holder = NoHolder /\ att'[ex[p].key].lease = "none"
           /\ ~Latest(p) => UNCHANGED att
<1>1. AfterReleases(p)
  BY AfterReleaseEffect DEF ClearLease
<1>2. CASE Latest(p)
  <2>1. att' = [att EXCEPT ![ex[p].key].holder = NoHolder, ![ex[p].key].lease = "none"]
    BY <1>2 DEF ClearLease
  <2>. QED
    BY <1>1, <1>2, <2>1 DEF TypeOK, AttRow, Writes
<1>3. CASE ~Latest(p)
  BY <1>1, <1>3 DEF ClearLease, TypeOK, Writes
<1>. QED
  BY <1>2, <1>3

\* A fault is counted.
Faulted == /\ faults'.n = faults.n + 1 /\ faults' \in FaultRow
           /\ faults'.stale = faults.stale

LEMMA FaultEffect ==
    ASSUME TypeOK, NEW kind, Fault(kind)
    PROVE  /\ Faulted
           /\ kind = "slow_call" => faults'.slow = TRUE
           /\ faults'.slow = FALSE => faults.slow = FALSE
<1>1. PICK b \in BOOLEAN : (b = FALSE) <=> (faults.slow = FALSE /\ kind # "slow_call")
  OBVIOUS
<1>2. (faults.slow \/ kind = "slow_call") = b
  BY <1>1 DEF TypeOK
<1>3. faults' = [faults EXCEPT !.n = faults.n + 1, !.slow = faults.slow \/ kind = "slow_call"]
  BY DEF Fault, TypeOK
<1>4. faults' = [faults EXCEPT !.n = faults.n + 1, !.slow = b]
  BY <1>2, <1>3
<1>5. faults.n + 1 \in Nat
  BY DEF TypeOK
<1>6. /\ faults' \in FaultRow /\ faults'.n = faults.n + 1 /\ faults'.slow = b
      /\ faults'.stale = faults.stale
  BY <1>4, <1>5 DEF TypeOK, FaultRow
<1>. QED
  BY <1>1, <1>6 DEF Faulted

LEMMA ExpireEffect ==
    ASSUME TypeOK, NEW k \in Key, ExpireLease(k)
    PROVE  /\ Writes(k) /\ att[k].lease = "live"
           /\ att'[k].num = att[k].num /\ att'[k].status = att[k].status
           /\ att'[k].holder = att[k].holder /\ att'[k].lease = "expired"
           /\ \/ UnderLease(k) /\ Faulted /\ faults'.slow = TRUE
              \/ ~UnderLease(k) /\ UNCHANGED faults
<1>1. CASE UnderLease(k)
  BY <1>1, FaultEffect DEF ExpireLease, TypeOK, AttRow, Writes
<1>2. CASE ~UnderLease(k)
  BY <1>2 DEF ExpireLease, TypeOK, AttRow, Writes
<1>. QED
  BY <1>1, <1>2

\* Only the status of the attempt of k changes, to s.
Marks(k, s) ==
    /\ Writes(k)
    /\ att'[k].num = att[k].num /\ att'[k].holder = att[k].holder /\ att'[k].lease = att[k].lease
    /\ att'[k].status = s

LEMMA SucceedEffect ==
    ASSUME TypeOK, NEW p \in Task, Succeed(p), ex[p].key \in Key
    PROVE  \/ Latest(p) /\ att[ex[p].key].status = "reserved" /\ Marks(ex[p].key, "succeeded")
           \/ ~(Latest(p) /\ att[ex[p].key].status = "reserved") /\ UNCHANGED att
<1>1. CASE Latest(p) /\ att[ex[p].key].status = "reserved"
  <2>1. att' = [att EXCEPT ![ex[p].key].status = "succeeded"]
    BY <1>1 DEF Succeed
  <2>2. Marks(ex[p].key, "succeeded")
    BY <2>1 DEF TypeOK, AttRow, Marks, Writes
  <2>. QED
    BY <1>1, <2>2
<1>2. CASE ~(Latest(p) /\ att[ex[p].key].status = "reserved")
  BY <1>2 DEF Succeed
<1>. QED
  BY <1>1, <1>2

LEMMA FailingEffect ==
    ASSUME TypeOK, NEW p \in Task, NEW pc \in {"fail_attempt", "fail_folder"}, FailTo(p, pc)
    PROVE  Goes(p, pc) /\ ex'[p].msg = MainRead
<1>1. PICK m \in Msg \cup {NoMsg} : m = MainRead
  BY DEF MainRead, TypeOK, PubRow
<1>2. ex' = [ex EXCEPT ![p] = [ex[p] EXCEPT !.pc = pc, !.msg = m]]
  BY <1>1 DEF TypeOK, FailTo
<1>3. [ex[p] EXCEPT !.pc = pc, !.msg = m] \in TaskState
  BY TaskType DEF TaskState
<1>. QED
  BY <1>1, <1>2, <1>3 DEF TypeOK, TaskState, Goes, Touches, SameWork

LEMMA FailureEffect ==
    ASSUME TypeOK, NEW p \in Task, RecordFailure(p)
    PROVE  /\ ex[p].pc = "fail"
           /\ UNCHANGED <<set, pub, att, sent, threads, posts, faults>>
           /\ \/ Stops(p)
              \/ /\ Kind(ex[p].key) = "publish" /\ pub.main = NoMsg /\ pub.status = "pending"
                 /\ Goes(p, "fail_folder") /\ ex'[p].msg = NoMsg
              \/ /\ ~(/\ Kind(ex[p].key) = "publish" /\ pub.main = NoMsg
                       /\ pub.status = "pending")
                 /\ Goes(p, "fail_attempt")
BY StopEffect, FailingEffect DEF RecordFailure, MainRead, HasMain

LEMMA WriteFailureEffect ==
    ASSUME TypeOK, Reads, NEW p \in Task, WriteFailure(p), ex[p].key \in Key
    PROVE  /\ Stops(p) /\ ex[p].pc \in {"fail_attempt", "fail_folder"}
           /\ UNCHANGED <<set, sent, threads, posts>>
           /\ Latest(p) => Marks(ex[p].key, "failed")
           /\ ~Latest(p) => UNCHANGED att
           /\ \/ ex[p].pc = "fail_folder" /\ Rewrites("failed")
              \/ ex[p].pc = "fail_attempt" /\ UNCHANGED <<pub, faults>>
<1>1. Stops(p) /\ UNCHANGED <<set, sent, threads, posts>>
  BY StopEffect DEF WriteFailure
<1>2. ASSUME Latest(p) PROVE Marks(ex[p].key, "failed")
  <2>1. att' = [att EXCEPT ![ex[p].key].status = "failed"]
    BY <1>2 DEF WriteFailure
  <2>. QED
    BY <2>1 DEF TypeOK, AttRow, Marks, Writes
<1>3. ~Latest(p) => UNCHANGED att
  BY DEF WriteFailure
<1>4. \/ ex[p].pc = "fail_folder" /\ Rewrites("failed")
      \/ ex[p].pc = "fail_attempt" /\ UNCHANGED <<pub, faults>>
  BY StatusEffect DEF WriteFailure, Reads
<1>. QED
  BY <1>1, <1>2, <1>3, <1>4

\* Discord does what p asks for.
Delivers(p) ==
    \/ /\ ex[p].key = PublishKey
       /\ sent < MaxMsgs /\ sent' = sent + 1 /\ UNCHANGED <<threads, posts>>
    \/ /\ Kind(ex[p].key) = "create_thread"
       /\ ex[p].key[2] \notin threads /\ threads' = threads \cup {ex[p].key[2]}
       /\ UNCHANGED <<sent, posts>>
    \/ /\ ex[p].key = EnrichKey
       /\ posts < MaxMsgs /\ posts' = posts + 1 /\ UNCHANGED <<sent, threads>>

LEMMA DeliverEffect ==
    ASSUME NEW p \in Task, Deliver(p), ex[p].key \in Key
    PROVE  Delivers(p)
<1>1. CASE Kind(ex[p].key) = "publish"
  BY <1>1, KeyTypes DEF Deliver, Delivers
<1>2. CASE Kind(ex[p].key) = "create_thread"
  BY <1>2, KeyTypes DEF Deliver, Delivers
<1>3. CASE Kind(ex[p].key) = "enrich"
  BY <1>3, KeyTypes DEF Deliver, Delivers
<1>. QED
  BY <1>1, <1>2, <1>3, KeyTypes

LEMMA CallEffect ==
    ASSUME TypeOK, NEW p \in Task, CallDiscord(p), ex[p].key \in Key
    PROVE  /\ ex[p].pc = "call" /\ Delivers(p)
           /\ \/ /\ ex[p].key = PublishKey /\ Touches(p)
                 /\ ex'[p].pc = "release" /\ ex'[p].then = "record" /\ ex'[p].msg = sent + 1
                 /\ ex'[p].key = ex[p].key /\ ex'[p].num = ex[p].num /\ ex'[p].cmd = ex[p].cmd
              \/ ex[p].key # PublishKey /\ Goes(p, "record")
<1>1. Delivers(p)
  BY DeliverEffect DEF CallDiscord
<1>2. CASE ex[p].key = PublishKey
  <2>1. sent + 1 \in Msg
    BY <1>1, <1>2, KeyTypes, FaultAssumption
       DEF Delivers, TypeOK, Msg, PublishKey, EnrichKey, Kind
  <2>2. [ex[p] EXCEPT !.pc = "release", !.then = "record", !.msg = sent + 1] \in TaskState
    BY <2>1, TaskType DEF TaskState
  <2>3. ex' = [ex EXCEPT ![p] = [ex[p] EXCEPT !.pc = "release", !.then = "record",
                                              !.msg = sent + 1]]
    <3>1. ex' = [ex EXCEPT ![p].pc = "release", ![p].then = "record", ![p].msg = sent + 1]
      BY <1>2, KeyTypes DEF CallDiscord
    <3>. QED
      BY <3>1 DEF TypeOK
  <2>. QED
    BY <1>1, <1>2, <2>2, <2>3 DEF TypeOK, TaskState, Touches, CallDiscord
<1>3. CASE ex[p].key # PublishKey
  BY <1>1, <1>3, KeyTypes, GoToEffect DEF CallDiscord, Place
<1>. QED
  BY <1>2, <1>3

-----------------------------------------------------------------------------
(* The row, the tasks and Discord agree.                                     *)

\* p has the answer to its call, and is going to record it.
Returning(p) ==
    \/ ex[p].pc \in {"record", "write"}
    \/ ex[p].pc \in {"release", "clear"} /\ ex[p].then = "record"

\* A task at work has a key; the message it is going to record was sent, the thread it
\* is going to record was started, of a folder with a main message; only publishing
\* changes the status of the folder by itself.
Work(p) ==
    /\ ex[p].pc = "idle" <=> ex[p].key = NoKey
    /\ ex[p].pc = "idle" => ex[p] = Idle
    /\ ex[p].pc \in {"release", "clear"} /\ ex[p].then = "record" => ex[p].key = PublishKey
    /\ ex[p].key = PublishKey /\ Returning(p) => ex[p].msg \in 1 .. sent
    /\ Kind(ex[p].key) = "create_thread" /\ Returning(p) => ex[p].key[2] \in threads
    /\ At(p, "write", "create_thread") => pub.main # NoMsg
    /\ ex[p].pc \in {"open", "fail_folder"} => ex[p].key = PublishKey /\ ex[p].msg = NoMsg

Coherent ==
    /\ pub.main = NoMsg <=> pub.status \in {"absent", "pending", "failed"}
    /\ pub.thread = NoMsg <=> pub.status # "main_published"

CoherentInv == faults.stale = FALSE => Coherent

Inv == TypeOK /\ CoherentInv /\ RecordsAreReal /\ Reads /\ \A p \in Task : Work(p)

LEMMA InitInv == Init => Inv
BY TaskAssumption, FaultAssumption, KeyTypes
   DEF Init, Inv, TypeOK, PubRow, AttRow, TaskState, CoherentInv, Coherent, RecordsAreReal,
       Work, Reads, Idle, Returning, At, NoMsg, Msg, Num, PublishKey, NoKey

LEMMA WorkTypes ==
    ASSUME Inv, NEW p \in Task
    PROVE  /\ ex[p].pc # "idle" => ex[p].key \in Key
           /\ ex[p].pc \in Place /\ ex[p].then \in Then
BY KeyTypes DEF Inv, Work, TypeOK, TaskState, Place, Then

\* What p does leaves the others with what they have.
LEMMA OthersWork ==
    ASSUME Inv, NEW p \in Task, Touches(p), Work(p)',
           sent <= sent', sent' \in Nat, threads \subseteq threads',
           pub.main # NoMsg => pub'.main # NoMsg
    PROVE  \A q \in Task : Work(q)'
<1>. SUFFICES ASSUME NEW q \in Task, q # p PROVE Work(q)'
  OBVIOUS
<1>1. ex'[q] = ex[q] /\ Work(q)
  BY DEF Touches, Inv
<1>2. ex[q].msg \in 1 .. sent => ex[q].msg \in 1 .. sent'
  BY FaultAssumption DEF Inv, TypeOK
<1>. QED
  BY <1>1, <1>2 DEF Work, Returning, At

\* A step that leaves the row and Discord alone.
LEMMA QuietKept ==
    ASSUME Inv, NEW p \in Task, Touches(p), Work(p)',
           UNCHANGED <<pub, sent, threads, posts>>,
           att' \in [Key -> AttRow], UNCHANGED faults \/ Faulted
    PROVE  Inv'
<1>1. \A q \in Task : Work(q)'
  BY OthersWork, FaultAssumption DEF Inv, TypeOK
<1>2. faults' \in FaultRow /\ faults'.stale = faults.stale
  BY DEF Faulted, Inv, TypeOK, FaultRow
<1>. QED
  BY <1>1, <1>2 DEF Inv, TypeOK, FaultRow, CoherentInv, Coherent, RecordsAreReal, Touches, Reads, Work

\* A step that only writes the status of the row.
LEMMA StatusKept ==
    ASSUME Inv, NEW p \in Task, Touches(p), Work(p)',
           NEW s \in {"pending", "failed"}, Rewrites(s),
           UNCHANGED <<sent, threads, posts>>, att' \in [Key -> AttRow]
    PROVE  Inv'
<1>1. \A q \in Task : Work(q)'
  BY OthersWork, FaultAssumption DEF Inv, TypeOK, Rewrites
<1>2. CoherentInv'
  BY DEF Inv, CoherentInv, Coherent, Rewrites
<1>. QED
  BY <1>1, <1>2 DEF Inv, TypeOK, FaultRow, RecordsAreReal, Touches, Rewrites, Reads, Work

LEMMA ReserveWork ==
    ASSUME Inv, NEW p \in Task, NEW k \in Key, Reserves(p, k)
    PROVE  Work(p)'
BY KeyTypes DEF Reserves, Work, Returning, At

LEMMA StopWork ==
    ASSUME Inv, NEW p \in Task, Stops(p)
    PROVE  Work(p)'
BY KeyTypes DEF Stops, Work, Returning, At, Idle, PublishKey, NoKey

LEMMA JoinWork ==
    ASSUME Inv, NEW p \in Task, NEW pc \in {"claim", "create", "open"}, NEW n,
           Joins(p, pc, n), ex[p].key \in Key,
           pc = "open" => ex[p].key = PublishKey /\ ex'[p].msg = NoMsg
    PROVE  Work(p)'
BY KeyTypes DEF Joins, Work, Returning, At

LEMMA FindWork ==
    ASSUME Inv, NEW p \in Task, NEW next \in {"create", "open"}, Finds(p, next),
           ex[p].key \in Key, next = "open" => ex[p].key = PublishKey /\ ex'[p].msg = NoMsg
    PROVE  Work(p)' /\ Touches(p)
<1>1. PICK pc \in {"claim", next}, n \in Num \cup {0} : Joins(p, pc, n)
  BY DEF Finds, Inv, TypeOK, AttRow
<1>. QED
  BY <1>1, JoinWork DEF Joins

LEMMA AfterThreadWork ==
    ASSUME Inv, NEW p \in Task, AfterThreads(p)
    PROVE  Work(p)' /\ Touches(p)
BY KeyTypes, ReserveWork, StopWork DEF AfterThreads, Reserves, Stops

LEMMA AfterReleaseWork ==
    ASSUME Inv, NEW p \in Task, AfterReleases(p), ex[p].pc \in {"release", "clear"},
           UNCHANGED <<sent, threads>>
    PROVE  Work(p)' /\ Touches(p)
<1>1. CASE ex[p].then = "continue" /\ AfterThreads(p)
  BY <1>1, AfterThreadWork
<1>2. CASE Stops(p)
  BY <1>2, StopWork DEF Stops
<1>3. CASE ex[p].then \in {"record", "fail"} /\ Goes(p, ex[p].then)
  <2>1. Work(p) /\ ex[p].key \in Key
    BY WorkTypes DEF Inv
  <2>. QED
    BY <1>3, <2>1, KeyTypes DEF Goes, SameWork, Work, Returning, At, PublishKey, Kind
<1>. QED
  BY <1>1, <1>2, <1>3 DEF AfterReleases

LEMMA StartKept ==
    ASSUME Inv, NEW p \in Task, StartPublish(p) \/ StartEnrich(p) \/ StartResume(p)
    PROVE  Inv'
<1>0. pub.main # NoMsg => ThreadKey(pub.main) \in Key
  BY KeyTypes DEF Inv, TypeOK, PubRow
<1>1. \E c \in {"publish", "enrich", "resume"}, k \in Key : Start(p, c, k)
  BY <1>0, KeyTypes DEF StartPublish, StartEnrich, StartResume, HasMain
<1>2. PICK c \in {"publish", "enrich", "resume"}, k \in Key : Start(p, c, k)
  BY <1>1
<1>3. Begins(p, c, k) /\ UNCHANGED <<set, pub, att, sent, threads, posts, faults>>
  BY <1>2, StartEffect DEF Inv
<1>4. Work(p)'
  BY <1>3, KeyTypes DEF Begins, Work, Returning, At
<1>. QED
  BY <1>3, <1>4, QuietKept DEF Begins, Inv, TypeOK

LEMMA ReadingKept ==
    ASSUME Inv, NEW p \in Task, NEW next \in {"create", "open"},
           ReadAttempt(p, ex[p].key, next), ex[p].key \in Key,
           next = "open" => ex[p].key = PublishKey /\ ~HasMain,
           UNCHANGED <<pub, att, sent, threads, posts, faults>>
    PROVE  Inv'
<1>1. Work(p)' /\ Touches(p)
  BY ReadEffect, FindWork DEF Inv, MainRead
<1>. QED
  BY <1>1, QuietKept DEF Inv, TypeOK

LEMMA ReservePublishKept == ASSUME Inv, NEW p \in Task, ReservePublish(p) PROVE Inv'
<1>1. /\ ex[p].key = PublishKey /\ ex[p].key \in Key /\ ~HasMain
      /\ UNCHANGED <<pub, att, sent, threads, posts, faults>>
  BY WorkTypes, KeyTypes DEF ReservePublish, At
<1>2. ReadAttempt(p, ex[p].key, "create") \/ ReadAttempt(p, ex[p].key, "open")
  BY <1>1 DEF ReservePublish
<1>. QED
  BY <1>1, <1>2, ReadingKept

LEMMA ReserveHitKept ==
    ASSUME Inv, NEW p \in Task,
           ReservePublishHit(p) \/ ReserveThreadHit(p) \/ CreateRefused(p)
    PROVE  Inv'
<1>1. Work(p)' /\ Touches(p)
  <2>1. CASE ReservePublishHit(p)
    <3>1. pub.main \in Msg
      BY <2>1 DEF ReservePublishHit, HasMain, Inv, TypeOK, PubRow
    <3>. QED
      BY <2>1, <3>1, ReservingEffect, StopEffect, ReserveWork, StopWork, KeyTypes
         DEF ReservePublishHit, Inv, Reserves, Stops
  <2>2. CASE ReserveThreadHit(p)
    BY <2>2, AfterThreadEffect, StopEffect, AfterThreadWork, StopWork
       DEF ReserveThreadHit, Inv, Stops
  <2>3. CASE CreateRefused(p)
    BY <2>3, StopEffect, StopWork DEF CreateRefused, Inv, Stops
  <2>. QED
    BY <2>1, <2>2, <2>3
<1>2. UNCHANGED <<pub, att, sent, threads, posts, faults>>
  BY DEF ReservePublishHit, ReserveThreadHit, CreateRefused
<1>. QED
  BY <1>1, <1>2, QuietKept DEF Inv, TypeOK

LEMMA ReserveOtherKept ==
    ASSUME Inv, NEW p \in Task, ReserveThread(p) \/ ReserveEnrich(p)
    PROVE  Inv'
<1>1. ex[p].key \in Key /\ UNCHANGED <<pub, att, sent, threads, posts, faults>>
  BY WorkTypes DEF ReserveThread, ReserveEnrich, At
<1>2. CASE ReadAttempt(p, ex[p].key, "create")
  BY <1>1, <1>2, ReadingKept
<1>3. CASE Stop(p)
  BY <1>1, <1>3, StopEffect, StopWork, QuietKept DEF Inv, TypeOK, Stops
<1>4. Kind(ex[p].key) = "enrich" => ex[p].key = EnrichKey
  BY <1>1, KeyTypes
<1>. QED
  BY <1>2, <1>3, <1>4 DEF ReserveThread, ReserveEnrich, At

LEMMA CreateKept == ASSUME Inv, NEW p \in Task, CreateAttempt(p) PROVE Inv'
<1>1. ex[p].key \in Key
  BY WorkTypes DEF CreateAttempt, Creating
<1>2. PICK n \in Num : Joins(p, "claim", n) /\ Writes(ex[p].key)
  BY <1>1, CreateEffect DEF Inv
<1>3. /\ UNCHANGED <<set, sent, threads, posts>>
      /\ Rewrites("pending") \/ UNCHANGED <<pub, faults>>
  BY <1>1, CreateEffect DEF Inv
<1>4. Work(p)' /\ Touches(p) /\ att' \in [Key -> AttRow]
  BY <1>1, <1>2, JoinWork DEF Joins, Writes
<1>. QED
  BY <1>3, <1>4, StatusKept, QuietKept

LEMMA LeaseKept ==
    ASSUME Inv, NEW p \in Task,
           Claim(p) \/ ClaimRefused(p) \/ ReleaseLease(p) \/ ClearLease(p)
    PROVE  Inv'
<1>1. UNCHANGED <<pub, sent, threads, posts, faults>>
  BY DEF Claim, ClaimRefused, ReleaseLease, ClearLease
<1>2. ex[p].key \in Key /\ Work(p)
  BY WorkTypes DEF Claim, ClaimRefused, ReleaseLease, ClearLease, Inv
<1>3. Work(p)' /\ Touches(p) /\ att' \in [Key -> AttRow]
  <2>1. CASE Claim(p)
    BY <1>1, <1>2, <2>1, ClaimEffect, KeyTypes
       DEF Goes, SameWork, Writes, Inv, Work, Returning, At
  <2>2. CASE ClaimRefused(p)
    BY <2>2, StopEffect, StopWork DEF ClaimRefused, Inv, TypeOK, Stops
  <2>3. CASE ReleaseLease(p)
    <3>1. CASE GoTo(p, "clear")
      BY <1>1, <1>2, <2>3, <3>1, GoToEffect DEF ReleaseLease, Goes, SameWork, Place, Inv, Work,
                                             Returning, At, TypeOK
    <3>2. CASE AfterRelease(p)
      BY <1>1, <2>3, <3>2, AfterReleaseEffect, AfterReleaseWork DEF ReleaseLease, Inv, TypeOK
    <3>. QED
      BY <2>3, <3>1, <3>2 DEF ReleaseLease
  <2>4. CASE ClearLease(p)
    BY <1>1, <1>2, <2>4, ClearEffect, AfterReleaseWork DEF ClearLease, Inv, Writes
  <2>. QED
    BY <2>1, <2>2, <2>3, <2>4
<1>. QED
  BY <1>1, <1>3, QuietKept DEF Inv, TypeOK

LEMMA ExpireKept == ASSUME Inv, NEW k \in Key, ExpireLease(k) PROVE Inv'
<1>1. att' \in [Key -> AttRow] /\ faults' \in FaultRow /\ faults'.stale = faults.stale
  BY ExpireEffect DEF Inv, TypeOK, Writes, Faulted, FaultRow
<1>2. UNCHANGED <<pub, ex, sent, threads, posts>>
  BY DEF ExpireLease
<1>. QED
  BY <1>1, <1>2
     DEF Inv, TypeOK, FaultRow, CoherentInv, Coherent, RecordsAreReal, Reads, Work, Returning, At

LEMMA CrashKept == ASSUME Inv, NEW h \in Holder, Crash(h) PROVE Inv'
<1>1. UNCHANGED <<pub, att, sent, threads, posts>>
  BY DEF Crash
<1>2. faults' \in FaultRow /\ faults'.stale = faults.stale
  BY FaultEffect DEF Crash, Inv, Faulted
<1>3. ex' \in [Task -> TaskState] /\ \A p \in Task : ex'[p] = ex[p] \/ ex'[p] = Idle
  BY DEF Crash, Inv, TypeOK, TaskState, Idle, NoMsg
<1>4. \A p \in Task : Work(p)'
  BY <1>1, <1>3, KeyTypes DEF Inv, Work, Returning, At, Idle, PublishKey, NoKey
<1>. QED
  BY <1>1, <1>2, <1>3, <1>4 DEF Inv, TypeOK, FaultRow, CoherentInv, Coherent, RecordsAreReal, Reads, Work

\* A call, answered or not.
LEMMA DeliveryKept ==
    ASSUME Inv, NEW p \in Task, Delivers(p), Touches(p), Work(p)',
           UNCHANGED <<pub, att>>, UNCHANGED faults \/ Faulted
    PROVE  Inv'
<1>1. /\ sent' \in 0 .. MaxMsgs /\ sent <= sent' /\ posts' \in 0 .. MaxMsgs
      /\ threads' \subseteq Msg /\ threads \subseteq threads'
  <2>1. Kind(ex[p].key) = "create_thread" => ex[p].key[2] \in Msg
    BY KeyTypes DEF Inv, TypeOK, TaskState
  <2>. QED
    BY <2>1, FaultAssumption DEF Delivers, Inv, TypeOK
<1>2. \A q \in Task : Work(q)'
  BY <1>1, OthersWork, FaultAssumption
<1>3. RecordsAreReal'
  <2>1. pub.main \in Int /\ sent \in Int /\ sent' \in Int
    BY <1>1, FaultAssumption DEF Inv, TypeOK, PubRow, NoMsg, Msg
  <2>. QED
    BY <1>1, <2>1 DEF Inv, RecordsAreReal
<1>4. faults' \in FaultRow /\ faults'.stale = faults.stale
  BY DEF Faulted, Inv, TypeOK, FaultRow
<1>. QED
  BY <1>1, <1>2, <1>3, <1>4 DEF Inv, TypeOK, FaultRow, CoherentInv, Coherent, Touches, Reads, Work

LEMMA CallKept == ASSUME Inv, NEW p \in Task, CallDiscord(p) PROVE Inv'
<1>1. ex[p].key \in Key
  BY WorkTypes DEF CallDiscord
<1>2. Delivers(p) /\ UNCHANGED <<set, pub, att, faults>>
  BY <1>1, CallEffect DEF CallDiscord, Inv
<1>3. Touches(p) /\ ex'[p].key = ex[p].key
  BY <1>1, CallEffect DEF Inv, Goes, SameWork
<1>4. Work(p)'
  <2>1. CASE ex[p].key = PublishKey
    <3>1. sent' = sent + 1 /\ sent \in Nat
      BY <1>2, <2>1, KeyTypes, FaultAssumption
         DEF Delivers, PublishKey, EnrichKey, Kind, Inv, TypeOK
    <3>2. ex'[p].pc = "release" /\ ex'[p].then = "record" /\ ex'[p].msg = sent + 1
      BY <1>1, <2>1, CallEffect DEF Inv
    <3>. QED
      BY <1>3, <2>1, <3>1, <3>2, KeyTypes DEF Work, Returning, At
  <2>2. CASE ex[p].key # PublishKey
    <3>1. ex'[p].pc = "record"
      BY <1>1, <2>2, CallEffect DEF Inv, Goes
    <3>2. Kind(ex[p].key) = "create_thread" => ex[p].key[2] \in threads'
      BY <1>2, KeyTypes DEF Delivers, PublishKey, EnrichKey, Kind
    <3>. QED
      BY <1>1, <1>3, <2>2, <3>1, <3>2, KeyTypes DEF Work, Returning, At
  <2>. QED
    BY <2>1, <2>2
<1>. QED
  BY <1>2, <1>3, <1>4, DeliveryKept DEF Inv, TypeOK

LEMMA CallFailsKept ==
    ASSUME Inv, NEW p \in Task, CallFails(p) \/ CallAnswerLost(p) \/ ThreadExists(p)
    PROVE  Inv'
<1>1. ex[p].key \in Key
  BY WorkTypes DEF CallFails, CallAnswerLost, ThreadExists, At
<1>2. Releases(p, "fail")
  BY ReleasingEffect DEF CallFails, CallAnswerLost, ThreadExists, Inv, Then
<1>3. Work(p)' /\ Touches(p)
  BY <1>1, <1>2, KeyTypes DEF Releases, SameWork, Work, Returning, At
<1>4. (UNCHANGED faults \/ Faulted) /\ UNCHANGED <<pub, att>>
  BY FaultEffect DEF CallFails, CallAnswerLost, ThreadExists, Inv
<1>5. CASE CallAnswerLost(p)
  BY <1>1, <1>3, <1>4, <1>5, DeliverEffect, DeliveryKept DEF CallAnswerLost
<1>6. CASE CallFails(p) \/ ThreadExists(p)
  BY <1>3, <1>4, <1>6, QuietKept DEF CallFails, ThreadExists, Inv, TypeOK
<1>. QED
  BY <1>5, <1>6

LEMMA RecordKept ==
    ASSUME Inv, NEW p \in Task,
           RecordMain(p) \/ RecordThread(p) \/ RecordEnrich(p) \/ RecordFailure(p)
    PROVE  Inv'
<1>1. /\ ex[p].key \in Key /\ Work(p) /\ ex[p].pc \in {"record", "fail"}
      /\ UNCHANGED <<pub, att, sent, threads, posts, faults>>
  BY WorkTypes DEF RecordMain, RecordThread, RecordEnrich, RecordFailure, At, Inv
<1>2. \/ Stops(p)
      \/ Releases(p, "end")
      \/ /\ Goes(p, "write") /\ ex[p].pc = "record"
         /\ At(p, "record", "create_thread") => pub.main # NoMsg
      \/ Goes(p, "fail_folder") /\ Kind(ex[p].key) = "publish" /\ ex'[p].msg = NoMsg
      \/ Goes(p, "fail_attempt")
  <2>1. CASE RecordMain(p)
    BY <2>1, StopEffect, GoToEffect DEF RecordMain, At, Inv, Place
  <2>2. CASE RecordThread(p)
    BY <2>2, ReleasingEffect, GoToEffect DEF RecordThread, At, Inv, Place, Then
  <2>3. CASE RecordEnrich(p)
    BY <2>3, StopEffect, GoToEffect DEF RecordEnrich, At, Inv, Place
  <2>4. CASE RecordFailure(p)
    BY <2>4, FailureEffect DEF Inv
  <2>. QED
    BY <2>1, <2>2, <2>3, <2>4
<1>3. Work(p)' /\ Touches(p)
  <2>1. CASE Stops(p)
    BY <2>1, StopWork DEF Stops
  <2>2. CASE Releases(p, "end")
    BY <1>1, <2>2, KeyTypes DEF Releases, SameWork, Work, Returning, At
  <2>3. CASE /\ Goes(p, "write") /\ ex[p].pc = "record"
             /\ At(p, "record", "create_thread") => pub.main # NoMsg
    BY <1>1, <2>3, KeyTypes DEF Goes, SameWork, Work, Returning, At
  <2>4. CASE Goes(p, "fail_folder") /\ Kind(ex[p].key) = "publish" /\ ex'[p].msg = NoMsg
    BY <1>1, <2>4, KeyTypes DEF Goes, SameWork, Work, Returning, At
  <2>5. CASE Goes(p, "fail_attempt")
    BY <1>1, <2>5, KeyTypes DEF Goes, SameWork, Work, Returning, At
  <2>. QED
    BY <1>2, <2>1, <2>2, <2>3, <2>4, <2>5
<1>. QED
  BY <1>1, <1>3, QuietKept DEF Inv, TypeOK

LEMMA WriteMainKept == ASSUME Inv, NEW p \in Task, WriteMain(p) PROVE Inv'
<1>1. /\ ex[p].key = PublishKey /\ ex[p].msg \in 1 .. sent /\ ex[p].msg \in Msg
      /\ UNCHANGED <<set, sent, threads, posts, faults>>
      /\ pub' = [status |-> "partial", main |-> ex[p].msg, thread |-> NoMsg]
  BY WorkTypes, KeyTypes, FaultAssumption DEF WriteMain, At, Inv, Work, Returning, TypeOK, Msg
<1>2. Work(p)' /\ Touches(p)
  BY <1>1, KeyTypes, ReservingEffect, ReserveWork DEF WriteMain, Inv, Reserves
<1>3. att' \in [Key -> AttRow]
  BY <1>1, KeyTypes, SucceedEffect DEF WriteMain, Inv, TypeOK, Marks, Writes
<1>4. /\ pub' \in PubRow /\ pub'.main # NoMsg
      /\ pub'.status = "partial" /\ pub'.main = ex[p].msg /\ pub'.thread = NoMsg
  BY <1>1, FaultAssumption DEF PubRow, NoMsg, Msg
<1>5. \A q \in Task : Work(q)'
  BY <1>1, <1>2, <1>4, OthersWork, FaultAssumption DEF Inv, TypeOK
<1>6. CoherentInv' /\ RecordsAreReal'
  BY <1>1, <1>4, FaultAssumption DEF Inv, TypeOK, CoherentInv, Coherent, RecordsAreReal
<1>. QED
  BY <1>1, <1>2, <1>3, <1>4, <1>5, <1>6 DEF Inv, TypeOK, Touches, Reads, Work

LEMMA WriteThreadKept == ASSUME Inv, NEW p \in Task, WriteThread(p) PROVE Inv'
<1>1. /\ ex[p].key \in Key /\ ex[p].key[2] \in threads /\ ex[p].key[2] \in Msg
      /\ pub.main # NoMsg
      /\ pub' = [pub EXCEPT !.status = "main_published", !.thread = ex[p].key[2]]
      /\ UNCHANGED <<set, sent, threads, posts, faults>>
  BY WorkTypes, KeyTypes DEF WriteThread, At, Inv, Work, Returning
<1>2. Releases(p, "continue")
  BY ReleasingEffect DEF WriteThread, Inv, Then
<1>3. Work(p)' /\ Touches(p)
  BY <1>1, <1>2, KeyTypes DEF Releases, SameWork, Work, Returning, At
<1>4. att' \in [Key -> AttRow]
  BY <1>1, SucceedEffect DEF WriteThread, Inv, TypeOK, Marks, Writes
<1>5. /\ pub' \in PubRow
      /\ pub'.status = "main_published" /\ pub'.thread = ex[p].key[2] /\ pub'.main = pub.main
  BY <1>1 DEF Inv, TypeOK, PubRow
<1>6. \A q \in Task : Work(q)'
  BY <1>1, <1>3, <1>5, OthersWork, FaultAssumption DEF Inv, TypeOK
<1>7. CoherentInv' /\ RecordsAreReal'
  BY <1>1, <1>5, FaultAssumption DEF Inv, CoherentInv, Coherent, RecordsAreReal, NoMsg, Msg
<1>. QED
  BY <1>1, <1>3, <1>4, <1>5, <1>6, <1>7 DEF Inv, TypeOK, Touches, Reads, Work

LEMMA WriteEnrichKept == ASSUME Inv, NEW p \in Task, WriteEnrich(p) PROVE Inv'
<1>1. ex[p].key \in Key
  BY WorkTypes DEF WriteEnrich, At
<1>2. att' \in [Key -> AttRow]
  BY <1>1, SucceedEffect DEF WriteEnrich, Inv, TypeOK, Marks, Writes
<1>. QED
  BY <1>2, StopEffect, StopWork, QuietKept DEF WriteEnrich, Inv, TypeOK, Stops

LEMMA WriteFailureKept == ASSUME Inv, NEW p \in Task, WriteFailure(p) PROVE Inv'
<1>1. ex[p].key \in Key
  BY WorkTypes DEF WriteFailure
<1>2. /\ Stops(p) /\ Work(p)' /\ Touches(p) /\ UNCHANGED <<set, sent, threads, posts>>
      /\ Rewrites("failed") \/ UNCHANGED <<pub, faults>>
  BY <1>1, WriteFailureEffect, StopWork DEF Inv, Stops
<1>3. att' \in [Key -> AttRow]
  BY <1>1, WriteFailureEffect DEF Inv, TypeOK, Marks, Writes
<1>. QED
  BY <1>2, <1>3, StatusKept, QuietKept

\* What DbError does to the task.
LEMMA DbErrorEffect ==
    ASSUME TypeOK, NEW p \in Task, DbError(p)
    PROVE  /\ Faulted /\ UNCHANGED <<set, pub, att, sent, threads, posts>>
           /\ faults'.slow = FALSE => faults.slow = FALSE
           /\ \/ ex[p].pc \in {"release", "clear"} /\ AfterReleases(p)
              \/ ThreadRecord(p) /\ Releases(p, "end")
              \/ /\ ex[p].pc \in {"reserve", "create", "open", "claim", "record", "write",
                                   "fail", "fail_attempt", "fail_folder"}
                 /\ Stops(p)
BY FaultEffect, AfterReleaseEffect, ReleasingEffect, StopEffect DEF DbError, Then

LEMMA DbErrorKept == ASSUME Inv, NEW p \in Task, DbError(p) PROVE Inv'
<1>1. Faulted /\ UNCHANGED <<set, pub, att, sent, threads, posts>>
  BY DbErrorEffect DEF Inv
<1>2. CASE ex[p].pc \in {"release", "clear"} /\ AfterReleases(p)
  BY <1>1, <1>2, AfterReleaseWork, QuietKept DEF Inv, TypeOK
<1>3. CASE ThreadRecord(p) /\ Releases(p, "end")
  <2>1. ex[p].key \in Key
    BY <1>3, WorkTypes DEF ThreadRecord, At
  <2>2. Work(p)'
    BY <1>3, <2>1, KeyTypes DEF Releases, SameWork, Work, Returning, At
  <2>. QED
    BY <1>1, <1>3, <2>2, QuietKept DEF Inv, TypeOK, Releases
<1>4. CASE Stops(p)
  BY <1>1, <1>4, StopWork, QuietKept DEF Inv, TypeOK, Stops
<1>. QED
  BY <1>2, <1>3, <1>4, DbErrorEffect DEF Inv

LEMMA NextInv == Inv /\ [Next]_vars => Inv'
<1>. SUFFICES ASSUME Inv, [Next]_vars PROVE Inv'
  OBVIOUS
<1>1. CASE UNCHANGED vars
  BY <1>1 DEF vars, Inv, TypeOK, CoherentInv, Coherent, RecordsAreReal, Reads, Work, Returning,
              At
<1>2. ASSUME NEW p \in Task, Step(p) PROVE Inv'
  BY <1>2, ReservePublishKept, ReserveHitKept, ReserveOtherKept, CreateKept, LeaseKept, CallKept,
     CallFailsKept, RecordKept, WriteMainKept, WriteThreadKept, WriteEnrichKept, WriteFailureKept
     DEF Step
<1>. QED
  BY <1>1, <1>2, StartKept, CallFailsKept, DbErrorKept, CrashKept, ExpireKept DEF Next

-----------------------------------------------------------------------------
(* Commands that do not overlap.                                             *)

\* p is to give up the lease of a thread it has recorded.
Leaving(p) == ex[p].pc \in {"release", "clear"} /\ ex[p].then = "continue"

\* The attempts tell what the row has.
AttemptsTell ==
    /\ att[PublishKey].status = "succeeded" <=> HasMain
    /\ att[PublishKey].status = "reserved" => pub.status = "pending"
    /\ \A m \in Msg : att[ThreadKey(m)].status = "succeeded" <=> pub.thread = m
    /\ pub.thread # NoMsg => pub.thread = pub.main

\* The attempt p works on is reserved and the latest one, or yet to be created; its thread
\* belongs to the main message of the row; it enriches a folder that has its thread.
Serial(p) ==
    /\ Creating(p) => Latest(p) /\ ~ActiveAttempt(ex[p].key)
    /\ At(p, "create", "publish") => pub.status = "pending"
    /\ ~(Creating(p) \/ ex[p].pc \in {"idle", "reserve"} \/ Leaving(p)) =>
          Latest(p) /\ att[ex[p].key].status = "reserved"
    /\ Leaving(p) => Kind(ex[p].key) = "create_thread" /\ pub.thread # NoMsg
    /\ Kind(ex[p].key) = "create_thread" => HasMain /\ ex[p].key = ThreadKey(pub.main)
    /\ ex[p].key = EnrichKey => pub.thread # NoMsg

Alone(p) == \A q \in Task : q # p => ex[q].pc = "idle"

\* A main message p is about to record is not to be sent again.
Recording(p) == ex[p].key = PublishKey /\ Returning(p)
Owed(p)      == IF HasMain \/ Recording(p) THEN 0 ELSE 1
Wanted       == IF HasMain \/ \E p \in Task : Recording(p) THEN 0 ELSE 1

SerialInv == set.exclusive =>
    /\ faults.stale = FALSE
    /\ AttemptsTell
    /\ \A p \in Task : Serial(p) /\ (ex[p].pc # "idle" => Alone(p))
    /\ sent + Wanted <= 1 + faults.n

LEMMA SerialInit == Init => SerialInv
<1>. SUFFICES ASSUME Init PROVE SerialInv
  OBVIOUS
<1>1. AttemptsTell
  BY KeyTypes DEF Init, AttemptsTell, HasMain, NoMsg, Msg
<1>2. \A p \in Task : Serial(p) /\ ex[p].pc = "idle"
  BY KeyTypes DEF Init, Serial, Idle, Leaving, Creating, At, EnrichKey, NoKey
<1>3. sent + Wanted <= 1 + faults.n
  BY DEF Init, Wanted
<1>. QED
  BY <1>1, <1>2, <1>3 DEF SerialInv, Init

LEMMA WantedIsOwed ==
    ASSUME Inv, NEW p \in Task, Alone(p)
    PROVE  Wanted = Owed(p)
<1>1. \A q \in Task : Recording(q) => q = p
  BY KeyTypes DEF Alone, Inv, Work, Recording
<1>. QED
  BY <1>1 DEF Wanted, Owed

\* A step of the only task at work.
LEMMA SerialStep ==
    ASSUME Inv, Inv', NEW p \in Task, Alone(p), Touches(p), set' = set,
           faults'.stale = FALSE, AttemptsTell', Serial(p)',
           sent' + Owed(p)' <= 1 + faults'.n
    PROVE  SerialInv'
<1>1. Alone(p)'
  BY DEF Alone, Touches
<1>2. Wanted' = Owed(p)'
  <2>1. \A q \in Task : Recording(q)' => q = p
    BY <1>1, KeyTypes DEF Alone, Inv, Work, Recording
  <2>. QED
    BY <2>1 DEF Wanted, Owed
<1>3. ASSUME NEW q \in Task, q # p PROVE Serial(q)' /\ ex'[q].pc = "idle"
  <2>1. ex'[q].pc = "idle" /\ ex'[q].key = NoKey
    BY <1>1, <1>3 DEF Alone, Inv, Work
  <2>. QED
    BY <2>1, KeyTypes DEF Serial, Leaving, Creating, At, EnrichKey, NoKey
<1>4. \A q \in Task : Serial(q)' /\ (ex'[q].pc # "idle" => Alone(q)')
  BY <1>1, <1>3
<1>. QED
  BY <1>2, <1>4 DEF SerialInv

LEMMA TellKept ==
    ASSUME AttemptsTell, UNCHANGED pub, \A k \in Key : att'[k].status = att[k].status
    PROVE  AttemptsTell'
BY KeyTypes DEF AttemptsTell, HasMain

\* The same, when neither the row nor what the attempts tell changes.
LEMMA SerialQuiet ==
    ASSUME Inv, Inv', SerialInv, set.exclusive, NEW p \in Task, Alone(p), Touches(p),
           UNCHANGED <<set, pub, sent>>, faults'.stale = faults.stale,
           \A k \in Key : att'[k].status = att[k].status,
           Serial(p)', Owed(p)' - Owed(p) <= faults'.n - faults.n
    PROVE  SerialInv'
<1>1. AttemptsTell'
  BY TellKept DEF SerialInv
<1>2. sent' + Owed(p)' <= 1 + faults'.n
  <2>1. sent + Owed(p) <= 1 + faults.n
    BY WantedIsOwed DEF SerialInv
  <2>2. /\ sent \in Int /\ faults.n \in Int /\ faults'.n \in Int
        /\ Owed(p) \in Int /\ Owed(p)' \in Int
    BY FaultAssumption DEF Inv, TypeOK, Owed
  <2>. QED
    BY <2>1, <2>2
<1>3. faults'.stale = FALSE
  BY DEF SerialInv
<1>. QED
  BY <1>1, <1>2, <1>3, SerialStep

LEMMA SerialFacts ==
    ASSUME Inv, SerialInv, set.exclusive, NEW p \in Task
    PROVE  /\ Serial(p) /\ (ex[p].pc # "idle" => Alone(p)) /\ AttemptsTell
           /\ Coherent /\ faults.stale = FALSE
BY DEF SerialInv, Inv, CoherentInv

LEMMA SerialStop ==
    ASSUME NEW p \in Task, Stops(p)
    PROVE  Serial(p)' /\ ~Recording(p)'
BY KeyTypes DEF Stops, Idle, Serial, Leaving, Creating, At, Recording, EnrichKey, NoKey,
                PublishKey

\* p is at work, and stops.
LEMMA SerialStops ==
    ASSUME Inv, Inv', SerialInv, set.exclusive, NEW p \in Task, Alone(p), Stops(p),
           UNCHANGED <<set, pub, att, sent>>,
           \/ UNCHANGED faults /\ ~Recording(p)
           \/ Faulted
    PROVE  SerialInv'
<1>1. Serial(p)' /\ Touches(p) /\ ~Recording(p)'
  BY SerialStop DEF Stops
<1>2. faults.n \in Int /\ faults'.n \in Int
  BY FaultAssumption DEF Inv, TypeOK
<1>3. Owed(p)' - Owed(p) <= faults'.n - faults.n
  BY <1>1, <1>2 DEF Owed, HasMain, Faulted
<1>4. faults'.stale = faults.stale
  BY DEF Faulted
<1>. QED
  BY <1>1, <1>3, <1>4, SerialQuiet

LEMMA SerialStart ==
    ASSUME Inv, Inv', SerialInv, set.exclusive, NEW p \in Task,
           StartPublish(p) \/ StartEnrich(p) \/ StartResume(p)
    PROVE  SerialInv'
<1>0. pub.main # NoMsg => ThreadKey(pub.main) \in Key /\ Kind(ThreadKey(pub.main)) = "create_thread"
  BY KeyTypes DEF Inv, TypeOK, PubRow
<1>1. PICK c \in {"publish", "enrich", "resume"}, k \in Key :
        /\ Start(p, c, k)
        /\ \/ k = PublishKey
           \/ HasMain /\ k = ThreadKey(pub.main)
           \/ pub.thread # NoMsg /\ k = EnrichKey
  BY <1>0, KeyTypes DEF StartPublish, StartEnrich, StartResume, HasMain
<1>2. /\ Begins(p, c, k) /\ Alone(p) /\ ex[p].pc = "idle"
      /\ UNCHANGED <<set, pub, att, sent, threads, posts, faults>>
  BY <1>1, StartEffect DEF Inv, Alone
<1>3. Serial(p)'
  BY <1>0, <1>1, <1>2, KeyTypes
     DEF Begins, Serial, Leaving, Creating, At, HasMain, PublishKey, EnrichKey, Kind
<1>4. ~Recording(p) /\ ~Recording(p)'
  BY <1>2 DEF Begins, Recording, Returning
<1>5. Owed(p)' - Owed(p) <= faults'.n - faults.n
  BY <1>2, <1>4, FaultAssumption DEF Owed, HasMain, Inv, TypeOK
<1>. QED
  BY <1>2, <1>3, <1>5, SerialQuiet DEF Begins

\* Reading the attempt of a key that has not succeeded.
LEMMA SerialRead ==
    ASSUME Inv, Inv', SerialInv, set.exclusive, NEW p \in Task, NEW next \in {"create", "open"},
           ex[p].pc = "reserve", ex[p].key \in Key, att[ex[p].key].status # "succeeded",
           ReadAttempt(p, ex[p].key, next), UNCHANGED <<set, pub, att, sent, faults>>,
           ex[p].key = PublishKey /\ next = "create" => pub.status = "pending"
    PROVE  SerialInv'
<1>1. Serial(p) /\ Alone(p) /\ Finds(p, next)
  BY SerialFacts, ReadEffect DEF Inv
<1>2. /\ Touches(p) /\ ex'[p].key = ex[p].key /\ ex'[p].num = att[ex[p].key].num
      /\ \/ ex'[p].pc = "claim" /\ att[ex[p].key].status = "reserved"
         \/ ex'[p].pc = next /\ ~ActiveAttempt(ex[p].key)
  BY <1>1 DEF Finds, Joins, ActiveAttempt
<1>3. Serial(p)'
  <2>1. Latest(p)' /\ att'[ex'[p].key] = att[ex[p].key]
    BY <1>2 DEF Latest
  <2>2. CASE ex'[p].pc = "claim" /\ att[ex[p].key].status = "reserved"
    BY <1>1, <1>2, <2>1, <2>2 DEF Serial, Creating, At, Leaving, HasMain
  <2>3. CASE ex'[p].pc = next /\ ~ActiveAttempt(ex[p].key)
    <3>1. (~ActiveAttempt(ex[p].key))'
      BY <1>2, <2>1, <2>3 DEF ActiveAttempt
    <3>2. At(p, "create", "publish")' => pub'.status = "pending"
      BY <1>2, <2>3, KeyTypes DEF At
    <3>3. /\ Creating(p)' /\ ~Leaving(p)'
          /\ Kind(ex'[p].key) = "create_thread" => HasMain' /\ ex'[p].key = ThreadKey(pub'.main)
          /\ ex'[p].key = EnrichKey => pub'.thread # NoMsg
      BY <1>1, <1>2, <2>3 DEF Serial, Creating, Leaving, HasMain
    <3>. QED
      BY <2>1, <3>1, <3>2, <3>3 DEF Serial
  <2>. QED
    BY <1>2, <2>2, <2>3
<1>4. ~Recording(p) /\ ~Recording(p)'
  BY <1>2 DEF Recording, Returning
<1>5. Owed(p)' - Owed(p) <= faults'.n - faults.n
  BY <1>4, FaultAssumption DEF Owed, HasMain, Inv, TypeOK
<1>. QED
  BY <1>1, <1>2, <1>3, <1>5, SerialQuiet

LEMMA SerialReservations ==
    ASSUME Inv, Inv', SerialInv, set.exclusive, NEW p \in Task,
           ReservePublish(p) \/ ReserveThread(p) \/ ReserveEnrich(p)
    PROVE  SerialInv'
<1>0. /\ Serial(p) /\ Alone(p) /\ AttemptsTell /\ ex[p].key \in Key /\ ex[p].pc = "reserve"
      /\ UNCHANGED <<set, pub, att, sent, faults>>
  BY SerialFacts, WorkTypes DEF ReservePublish, ReserveThread, ReserveEnrich, At
<1>1. CASE ReservePublish(p)
  <2>1. ex[p].key = PublishKey /\ ~HasMain /\ att[PublishKey].status # "succeeded"
    BY <1>0, <1>1, KeyTypes DEF ReservePublish, At, AttemptsTell
  <2>2. \/ ReadAttempt(p, ex[p].key, "create") /\ pub.status = "pending"
        \/ ReadAttempt(p, ex[p].key, "open")
    BY <1>1, <2>1 DEF ReservePublish
  <2>. QED
    BY <1>0, <2>1, <2>2, SerialRead
<1>2. CASE ReserveThread(p)
  <2>1. ex[p].key # PublishKey /\ att[ex[p].key].status # "succeeded"
    BY <1>0, <1>2, KeyTypes DEF ReserveThread, At, ThreadDone
  <2>2. ReadAttempt(p, ex[p].key, "create")
    BY <1>2 DEF ReserveThread
  <2>. QED
    BY <1>0, <2>1, <2>2, SerialRead
<1>3. CASE ReserveEnrich(p)
  <2>1. ex[p].key = EnrichKey /\ EnrichKey # PublishKey
    BY <1>0, <1>3, KeyTypes DEF ReserveEnrich, At, EnrichKey, PublishKey
  <2>2. CASE ~HasMain \/ att[EnrichKey].status = "succeeded"
    <3>1. Stops(p)
      BY <1>3, <2>2, StopEffect DEF ReserveEnrich, Inv
    <3>. QED
      BY <1>0, <3>1, SerialStops DEF Recording, Returning
  <2>3. CASE ~(~HasMain \/ att[EnrichKey].status = "succeeded")
    <3>1. ReadAttempt(p, ex[p].key, "create")
      BY <1>3, <2>1, <2>3 DEF ReserveEnrich
    <3>. QED
      BY <1>0, <2>1, <2>3, <3>1, SerialRead
  <2>. QED
    BY <2>2, <2>3
<1>. QED
  BY <1>1, <1>2, <1>3

\* Making an attempt.  Nobody has recorded a main message since p found none.
LEMMA SerialCreate ==
    ASSUME Inv, Inv', SerialInv, set.exclusive, NEW p \in Task, CreateAttempt(p)
    PROVE  SerialInv'
<1>0. ex[p].key \in Key /\ Creating(p) /\ Work(p)
  BY WorkTypes DEF CreateAttempt, Creating, Inv
<1>1. /\ Serial(p) /\ Alone(p) /\ AttemptsTell /\ Coherent /\ faults.stale = FALSE
      /\ ~ActiveAttempt(ex[p].key) /\ set' = set /\ sent' = sent
  BY <1>0, SerialFacts, CreateEffect DEF Creating, Inv
<1>2. PICK n \in Num :
        /\ Joins(p, "claim", n) /\ Writes(ex[p].key)
        /\ att'[ex[p].key] = [num |-> n, status |-> "reserved", holder |-> NoHolder,
                              lease |-> "none"]
  BY <1>0, CreateEffect DEF Inv
<1>3. /\ Touches(p) /\ ex'[p].pc = "claim" /\ ex'[p].key = ex[p].key
      /\ att'[ex[p].key].num = ex'[p].num /\ att'[ex[p].key].status = "reserved"
      /\ \A k \in Key : k # ex[p].key => att'[k] = att[k]
  BY <1>2 DEF Joins, Writes
<1>4. /\ pub'.main = pub.main /\ pub'.thread = pub.thread /\ (HasMain' <=> HasMain)
      /\ faults'.stale = FALSE /\ faults'.n = faults.n
      /\ ex[p].key = PublishKey => pub'.status = "pending"
      /\ ex[p].key # PublishKey => pub'.status = pub.status
  <2>1. CASE ex[p].pc = "open" /\ Rewrites("pending")
    <3>1. ex[p].key = PublishKey
      BY <1>0, <2>1 DEF Work
    <3>2. ~HasMain
      BY <1>1, <3>1 DEF AttemptsTell, ActiveAttempt
    <3>3. pub.main = NoMsg
      BY <1>1, <3>2 DEF HasMain, Coherent, Inv, TypeOK, PubRow
    <3>. QED
      BY <1>1, <2>1, <3>1, <3>3 DEF Rewrites, HasMain
  <2>2. CASE ex[p].pc = "create" /\ UNCHANGED <<pub, faults>>
    BY <1>1, <2>2, KeyTypes DEF HasMain, Serial, At
  <2>. QED
    BY <1>0, <2>1, <2>2, CreateEffect DEF Inv
<1>5. AttemptsTell'
  <2>1. /\ att'[PublishKey].status = "succeeded" <=> HasMain'
        /\ \A m \in Msg : att'[ThreadKey(m)].status = "succeeded" <=> pub'.thread = m
    BY <1>1, <1>3, <1>4, KeyTypes DEF AttemptsTell, ActiveAttempt
  <2>2. att'[PublishKey].status = "reserved" => pub'.status = "pending"
    BY <1>1, <1>3, <1>4, KeyTypes DEF AttemptsTell
  <2>. QED
    BY <1>1, <1>4, <2>1, <2>2 DEF AttemptsTell
<1>6. Serial(p)'
  BY <1>1, <1>3, <1>4 DEF Serial, Latest, Leaving, Creating, At
<1>7. sent' + Owed(p)' <= 1 + faults'.n
  <2>1. ~Recording(p) /\ ~Recording(p)'
    BY <1>0, <1>3 DEF Recording, Returning, Creating
  <2>2. Owed(p)' = Owed(p)
    BY <1>4, <2>1 DEF Owed
  <2>3. sent + Owed(p) <= 1 + faults.n
    BY <1>1, WantedIsOwed DEF SerialInv
  <2>. QED
    BY <1>1, <1>4, <2>2, <2>3
<1>. QED
  BY <1>1, <1>3, <1>4, <1>5, <1>6, <1>7, SerialStep

LEMMA SerialHits ==
    ASSUME Inv, Inv', SerialInv, set.exclusive, NEW p \in Task,
           ReservePublishHit(p) \/ ReserveThreadHit(p) \/ CreateRefused(p)
    PROVE  SerialInv'
<1>0. /\ Serial(p) /\ Alone(p) /\ AttemptsTell /\ ex[p].key \in Key
      /\ ex[p].pc \in {"reserve", "create", "open"} /\ Coherent
  BY SerialFacts, WorkTypes
     DEF ReservePublishHit, ReserveThreadHit, CreateRefused, Creating, At
<1>1. UNCHANGED <<set, pub, att, sent, faults>> /\ ~Recording(p)
  BY <1>0 DEF ReservePublishHit, ReserveThreadHit, CreateRefused, Recording, Returning
<1>2. CASE Stops(p)
  BY <1>0, <1>1, <1>2, SerialStops
<1>3. ASSUME NEW k \in Key, Reserves(p, k),
             \/ HasMain /\ k = ThreadKey(pub.main)
             \/ pub.thread # NoMsg /\ k = EnrichKey
      PROVE  SerialInv'
  <2>1. HasMain => pub.main \in Msg
    BY DEF HasMain, Inv, TypeOK, PubRow
  <2>2. Serial(p)' /\ ~Recording(p)'
    BY <1>1, <1>3, <2>1, KeyTypes
       DEF Reserves, Serial, Leaving, Creating, At, HasMain, PublishKey, EnrichKey, Kind,
           Recording, Returning
  <2>3. Owed(p)' - Owed(p) <= faults'.n - faults.n
    BY <1>1, <2>2, FaultAssumption DEF Owed, HasMain, Inv, TypeOK
  <2>. QED
    BY <1>0, <1>1, <1>3, <2>2, <2>3, SerialQuiet DEF Reserves
<1>4. CASE ReservePublishHit(p)
  <2>1. HasMain /\ ThreadKey(pub.main) \in Key
    BY <1>4, KeyTypes DEF ReservePublishHit, HasMain, Inv, TypeOK, PubRow
  <2>2. Stops(p) \/ Reserves(p, ThreadKey(pub.main))
    BY <1>4, <2>1, StopEffect, ReservingEffect DEF ReservePublishHit, Inv
  <2>. QED
    BY <1>2, <1>3, <2>1, <2>2
<1>5. CASE ReserveThreadHit(p)
  <2>1. CASE Stop(p)
    BY <1>2, <2>1, StopEffect DEF Inv
  <2>2. CASE HasMain /\ AfterThread(p)
    <3>1. ThreadDone(ex[p].key) /\ ex[p].key = ThreadKey(pub.main) /\ pub.main \in Msg
      BY <1>0, <1>5, <2>2 DEF ReserveThreadHit, Serial, At, HasMain, Inv, TypeOK, PubRow
    <3>2. pub.thread # NoMsg
      BY <1>0, <3>1 DEF ThreadDone, AttemptsTell, Coherent, NoMsg, Msg
    <3>. QED
      BY <1>2, <1>3, <2>2, <3>2, AfterThreadEffect, KeyTypes DEF AfterThreads, Inv
  <2>. QED
    BY <1>5, <2>1, <2>2 DEF ReserveThreadHit
<1>6. CASE CreateRefused(p)
  BY <1>2, <1>6, StopEffect DEF CreateRefused, Inv
<1>. QED
  BY <1>4, <1>5, <1>6

\* After the release of a lease.
LEMMA SerialAfter ==
    ASSUME Inv, Inv', SerialInv, set.exclusive, NEW p \in Task,
           ex[p].pc \in {"release", "clear"}, AfterReleases(p), UNCHANGED <<set, pub, sent>>,
           \A k \in Key : att'[k].status = att[k].status /\ att'[k].num = att[k].num,
           UNCHANGED faults \/ Faulted
    PROVE  SerialInv'
<1>0. Serial(p) /\ Alone(p) /\ ex[p].key \in Key /\ Touches(p)
  BY SerialFacts, WorkTypes, AfterThreadWork DEF AfterReleases, Stops, Goes
<1>1. /\ faults.n \in Int /\ faults'.n \in Int /\ faults'.n >= faults.n
      /\ faults'.stale = faults.stale
  BY FaultAssumption DEF Inv, TypeOK, Faulted
<1>2. Serial(p)' /\ (Recording(p) => Recording(p)')
  <2>1. CASE ex[p].then = "continue" /\ AfterThreads(p)
    <3>1. pub.thread # NoMsg /\ ex[p].key # PublishKey
      BY <1>0, <2>1, KeyTypes DEF Serial, Leaving
    <3>2. CASE Reserves(p, EnrichKey)
      BY <3>1, <3>2, KeyTypes
         DEF Reserves, Serial, Leaving, Creating, At, Recording, EnrichKey, Kind
    <3>3. CASE Stops(p)
      BY <3>1, <3>3, SerialStop DEF Recording
    <3>. QED
      BY <2>1, <3>2, <3>3 DEF AfterThreads
  <2>2. CASE ex[p].then = "end" /\ Stops(p)
    BY <2>2, SerialStop DEF Recording, Returning
  <2>3. CASE ex[p].then \in {"record", "fail"} /\ Goes(p, ex[p].then)
    <3>1. Latest(p) /\ att[ex[p].key].status = "reserved" /\ ~Leaving(p)
      BY <1>0, <2>3 DEF Serial, Leaving, Creating
    <3>2. Latest(p)' /\ att'[ex'[p].key].status = "reserved" /\ ex'[p].key = ex[p].key
      BY <1>0, <2>3, <3>1 DEF Goes, SameWork, Latest
    <3>3. Serial(p)'
      BY <1>0, <2>3, <3>1, <3>2 DEF Goes, Serial, Leaving, Creating, At, HasMain
    <3>4. Recording(p) => Recording(p)'
      BY <2>3, <3>2 DEF Goes, Recording, Returning
    <3>. QED
      BY <3>3, <3>4
  <2>. QED
    BY <2>1, <2>2, <2>3 DEF AfterReleases
<1>3. Owed(p)' - Owed(p) <= faults'.n - faults.n
  BY <1>1, <1>2 DEF Owed, HasMain
<1>. QED
  BY <1>0, <1>1, <1>2, <1>3, SerialQuiet

LEMMA SerialLease ==
    ASSUME Inv, Inv', SerialInv, set.exclusive, NEW p \in Task,
           Claim(p) \/ ClaimRefused(p) \/ ReleaseLease(p) \/ ClearLease(p)
    PROVE  SerialInv'
<1>0. Serial(p) /\ Alone(p) /\ ex[p].key \in Key
  BY SerialFacts, WorkTypes DEF Claim, ClaimRefused, ReleaseLease, ClearLease
<1>1. UNCHANGED <<set, pub, sent, threads, posts, faults>>
  BY DEF Claim, ClaimRefused, ReleaseLease, ClearLease
<1>2. faults.n \in Int
  BY FaultAssumption DEF Inv, TypeOK
<1>3. ASSUME NEW c \in Place, Goes(p, c), Claim(p) \/ (ReleaseLease(p) /\ c = "clear"),
             Claim(p) => c = "call",
             \A k \in Key : att'[k].status = att[k].status /\ att'[k].num = att[k].num
      PROVE  SerialInv'
  <2>1. ex[p].pc \in {"claim", "release"}
    BY <1>3 DEF Claim, ReleaseLease
  <2>2. Serial(p)'
    <3>1. ex'[p].key = ex[p].key /\ ex'[p].num = ex[p].num /\ ex'[p].pc = c
          /\ ex'[p].then = ex[p].then
      BY <1>3 DEF Goes, SameWork
    <3>2. ex[p].key \in Key /\ (Latest(p) => Latest(p)')
      BY <1>0, <1>3, <3>1 DEF Latest
    <3>3. Leaving(p)' => Leaving(p)
      BY <1>3, <3>1 DEF Leaving, Claim, ReleaseLease
    <3>4. ~Leaving(p)' => ~Leaving(p)
      BY <1>3, <3>1 DEF Leaving, Claim, ReleaseLease
    <3>5. att'[ex'[p].key].status = att[ex[p].key].status
      BY <1>0, <1>3, <3>1
    <3>. QED
      BY <1>0, <1>1, <1>3, <2>1, <3>1, <3>2, <3>3, <3>4, <3>5
         DEF Serial, Creating, At, HasMain, Claim, ReleaseLease
  <2>3. Recording(p) => Recording(p)'
    BY <1>3, <2>1 DEF Recording, Returning, Goes, SameWork, ReleaseLease, Claim
  <2>4. Owed(p)' - Owed(p) <= faults'.n - faults.n
    BY <1>1, <1>2, <2>3 DEF Owed, HasMain
  <2>. QED
    BY <1>0, <1>1, <1>3, <2>2, <2>4, SerialQuiet DEF Goes
<1>4. CASE Claim(p)
  <2>1. Goes(p, "call") /\ \A k \in Key : att'[k].status = att[k].status /\ att'[k].num = att[k].num
    BY <1>0, <1>4, ClaimEffect DEF Inv, Writes
  <2>. QED
    BY <1>3, <1>4, <2>1 DEF Place
<1>5. CASE ClaimRefused(p)
  BY <1>0, <1>5, StopEffect, SerialStops DEF ClaimRefused, Inv, Recording, Returning
<1>6. CASE ReleaseLease(p)
  <2>1. UNCHANGED att
    BY <1>6 DEF ReleaseLease
  <2>2. CASE GoTo(p, "clear")
    BY <1>3, <1>6, <2>1, <2>2, GoToEffect DEF Inv, Place, ReleaseLease, Claim
  <2>3. CASE AfterRelease(p)
    BY <1>1, <1>6, <2>1, <2>3, AfterReleaseEffect, SerialAfter DEF ReleaseLease, Inv
  <2>. QED
    BY <1>6, <2>2, <2>3 DEF ReleaseLease
<1>7. CASE ClearLease(p)
  <2>1. AfterReleases(p) /\ \A k \in Key : att'[k].status = att[k].status
        /\ att'[k].num = att[k].num
    BY <1>0, <1>7, ClearEffect DEF Inv, Writes
  <2>. QED
    BY <1>1, <1>7, <2>1, SerialAfter DEF ClearLease
<1>. QED
  BY <1>4, <1>5, <1>6, <1>7

LEMMA SerialCall ==
    ASSUME Inv, Inv', SerialInv, set.exclusive, NEW p \in Task,
           CallDiscord(p) \/ CallFails(p) \/ CallAnswerLost(p) \/ ThreadExists(p)
    PROVE  SerialInv'
<1>0. /\ Serial(p) /\ Alone(p) /\ AttemptsTell /\ ex[p].key \in Key /\ ex[p].pc = "call"
      /\ Latest(p) /\ att[ex[p].key].status = "reserved" /\ ~Recording(p)
  BY SerialFacts, WorkTypes
     DEF CallDiscord, CallFails, CallAnswerLost, ThreadExists, At, Serial, Leaving, Creating,
         Recording, Returning
<1>1. UNCHANGED <<set, pub, att>>
  BY DEF CallDiscord, CallFails, CallAnswerLost, ThreadExists
<1>2. AttemptsTell'
  BY <1>0, <1>1 DEF AttemptsTell, HasMain
<1>3. /\ Touches(p) /\ ex'[p].key = ex[p].key /\ ex'[p].num = ex[p].num
      /\ \/ ex'[p].pc = "record"
         \/ ex'[p].pc = "release" /\ ex'[p].then \in {"record", "fail"}
      /\ CallDiscord(p) /\ ex[p].key = PublishKey => Recording(p)'
  <2>1. CASE CallDiscord(p)
    BY <1>0, <2>1, CallEffect DEF Inv, Goes, SameWork, Recording, Returning
  <2>2. CASE ~CallDiscord(p)
    <3>1. Releases(p, "fail")
      BY <2>2, ReleasingEffect DEF CallFails, CallAnswerLost, ThreadExists, Inv, Then
    <3>. QED
      BY <2>2, <3>1 DEF Releases, SameWork
  <2>. QED
    BY <2>1, <2>2
<1>4. Serial(p)'
  BY <1>0, <1>1, <1>3 DEF Serial, Latest, Leaving, Creating, At, HasMain
<1>5. sent + Owed(p) <= 1 + faults.n
  BY <1>0, WantedIsOwed DEF SerialInv
<1>6. sent \in Int /\ faults.n \in Int /\ (HasMain' <=> HasMain)
  BY <1>1, FaultAssumption DEF Inv, TypeOK, HasMain
<1>7. sent' + Owed(p)' <= 1 + faults'.n
  <2>1. CASE ex[p].key = PublishKey
    <3>1. Owed(p) = 1
      BY <1>0, <2>1 DEF AttemptsTell, Owed, HasMain
    <3>2. CASE CallDiscord(p)
      <4>1. sent' = sent + 1 /\ UNCHANGED faults
        BY <1>0, <2>1, <3>2, CallEffect, KeyTypes
           DEF Inv, Delivers, CallDiscord, PublishKey, EnrichKey, Kind
      <4>2. Owed(p)' = 0
        BY <1>3, <2>1, <3>2 DEF Owed
      <4>. QED
        BY <1>5, <1>6, <3>1, <4>1, <4>2
    <3>3. CASE CallFails(p) \/ CallAnswerLost(p)
      <4>1. faults'.n = faults.n + 1 /\ sent' \in {sent, sent + 1}
        BY <1>0, <3>3, FaultEffect, DeliverEffect
           DEF CallFails, CallAnswerLost, Inv, Faulted, Delivers
      <4>2. Owed(p)' \in {0, 1}
        BY DEF Owed
      <4>. QED
        BY <1>5, <1>6, <3>1, <4>1, <4>2
    <3>4. CASE ThreadExists(p)
      BY <2>1, <3>4, KeyTypes DEF ThreadExists, At
    <3>. QED
      BY <3>2, <3>3, <3>4
  <2>2. CASE ex[p].key # PublishKey
    <3>1. sent' = sent
      BY <1>0, <2>2, DeliverEffect
         DEF CallDiscord, CallFails, CallAnswerLost, ThreadExists, Delivers
    <3>2. Owed(p)' = Owed(p)
      BY <1>0, <1>3, <1>6, <2>2 DEF Owed, Recording
    <3>3. faults'.n \in {faults.n, faults.n + 1}
      BY FaultEffect DEF CallDiscord, CallFails, CallAnswerLost, ThreadExists, Inv, Faulted
    <3>4. Owed(p) \in {0, 1}
      BY DEF Owed
    <3>. QED
      BY <1>5, <1>6, <3>1, <3>2, <3>3, <3>4
  <2>. QED
    BY <2>1, <2>2
<1>8. faults'.stale = FALSE
  <2>1. faults.stale = FALSE
    BY SerialFacts
  <2>2. UNCHANGED faults \/ Faulted
    BY FaultEffect DEF CallDiscord, CallFails, CallAnswerLost, ThreadExists, Inv
  <2>. QED
    BY <2>1, <2>2 DEF Faulted
<1>. QED
  BY <1>0, <1>1, <1>2, <1>3, <1>4, <1>7, <1>8, SerialStep

\* What is read for a record does not change until it is written.
LEMMA SerialRecord ==
    ASSUME Inv, Inv', SerialInv, set.exclusive, NEW p \in Task,
           RecordMain(p) \/ RecordThread(p) \/ RecordEnrich(p) \/ RecordFailure(p)
    PROVE  SerialInv'
<1>0. /\ ex[p].key \in Key /\ ex[p].pc \in {"record", "fail"}
      /\ UNCHANGED <<set, pub, att, sent, threads, posts, faults>>
  BY WorkTypes DEF RecordMain, RecordThread, RecordEnrich, RecordFailure, At
<1>1. /\ Serial(p) /\ Alone(p) /\ AttemptsTell /\ Coherent
      /\ Latest(p) /\ att[ex[p].key].status = "reserved"
  BY <1>0, SerialFacts DEF Serial, Leaving, Creating
<1>2. CASE Stops(p) /\ ~Recording(p)
  BY <1>0, <1>1, <1>2, SerialStops
<1>3. ASSUME NEW pc \in {"write", "fail_attempt", "fail_folder"}, Goes(p, pc),
             ex[p].pc = "record" => pc = "write"
      PROVE  SerialInv'
  <2>1. Serial(p)'
    BY <1>0, <1>1, <1>3 DEF Goes, SameWork, Serial, Latest, Leaving, Creating, At, HasMain
  <2>2. Recording(p) => Recording(p)'
    BY <1>0, <1>3 DEF Goes, SameWork, Recording, Returning
  <2>3. Owed(p)' - Owed(p) <= faults'.n - faults.n
    BY <1>0, <2>2, FaultAssumption DEF Owed, HasMain, Inv, TypeOK
  <2>. QED
    BY <1>0, <1>1, <1>3, <2>1, <2>3, SerialQuiet DEF Goes
<1>4. CASE RecordMain(p)
  <2>1. ex[p].key = PublishKey
    BY <1>0, <1>4, KeyTypes DEF RecordMain, At
  <2>2. pub.status = "pending"
    BY <1>1, <2>1 DEF AttemptsTell
  <2>. QED
    BY <1>3, <1>4, <2>2, GoToEffect DEF RecordMain, Inv, Place
<1>5. CASE RecordThread(p)
  <2>1. HasMain
    BY <1>1, <1>5 DEF Serial, RecordThread, At
  <2>. QED
    BY <1>3, <1>5, <2>1, GoToEffect DEF RecordThread, HasMain, Inv, Place
<1>6. CASE RecordEnrich(p)
  <2>1. ~Recording(p)
    BY <1>0, <1>6, KeyTypes DEF RecordEnrich, At, Recording
  <2>. QED
    BY <1>2, <1>3, <1>6, <2>1, GoToEffect, StopEffect DEF RecordEnrich, Inv, Place
<1>7. CASE RecordFailure(p)
  BY <1>2, <1>3, <1>7, FailureEffect DEF Inv, Recording, Returning
<1>. QED
  BY <1>4, <1>5, <1>6, <1>7

LEMMA SerialWriting ==
    ASSUME Inv, SerialInv, set.exclusive, NEW p \in Task, ex[p].pc = "write"
    PROVE  /\ Serial(p) /\ Alone(p) /\ AttemptsTell /\ Coherent /\ faults.stale = FALSE
           /\ ex[p].key \in Key /\ Latest(p) /\ att[ex[p].key].status = "reserved"
BY SerialFacts, WorkTypes DEF Serial, Leaving, Creating

LEMMA SerialWriteMain ==
    ASSUME Inv, Inv', SerialInv, set.exclusive, NEW p \in Task, WriteMain(p)
    PROVE  SerialInv'
<1>1. /\ Serial(p) /\ Alone(p) /\ AttemptsTell /\ ex[p].key = PublishKey /\ ex[p].pc = "write"
      /\ Coherent /\ faults.stale = FALSE /\ Latest(p) /\ att[PublishKey].status = "reserved"
      /\ ex[p].msg \in Msg
  <2>1. ex[p].pc = "write" /\ ex[p].key = PublishKey
    BY WorkTypes, KeyTypes DEF WriteMain, At
  <2>2. ex[p].msg \in Msg
    BY <2>1, FaultAssumption DEF Inv, Work, Returning, TypeOK, Msg
  <2>. QED
    BY <2>1, <2>2, SerialWriting
<1>2. pub.status = "pending" /\ pub.main = NoMsg /\ pub.thread = NoMsg
  BY <1>1 DEF AttemptsTell, Coherent
<1>3. /\ pub' = [status |-> "partial", main |-> ex[p].msg, thread |-> NoMsg]
      /\ Succeed(p) /\ Reserving(p, ThreadKey(ex[p].msg))
      /\ UNCHANGED <<set, sent, faults>>
  BY DEF WriteMain
<1>4. Marks(PublishKey, "succeeded") /\ Reserves(p, ThreadKey(ex[p].msg))
  BY <1>1, <1>3, SucceedEffect, ReservingEffect, KeyTypes DEF Inv
<1>5. HasMain' /\ pub'.main = ex[p].msg /\ pub'.thread = NoMsg /\ ex[p].msg # NoMsg
  BY <1>1, <1>3, FaultAssumption DEF HasMain, NoMsg, Msg
<1>6. AttemptsTell'
  <2>1. \A m \in Msg : att'[ThreadKey(m)] = att[ThreadKey(m)] /\ m # NoMsg
    BY <1>4, KeyTypes, FaultAssumption DEF Marks, Writes, NoMsg, Msg
  <2>. QED
    BY <1>1, <1>2, <1>4, <1>5, <2>1 DEF AttemptsTell, Marks
<1>7. Serial(p)'
  BY <1>1, <1>4, <1>5, KeyTypes DEF Reserves, Serial, Leaving, Creating, At, EnrichKey, Kind
<1>8. sent' + Owed(p)' <= 1 + faults'.n
  <2>1. Recording(p) /\ Owed(p) = 0 /\ Owed(p)' = 0
    BY <1>1, <1>5 DEF Recording, Returning, Owed
  <2>. QED
    BY <1>1, <1>3, <2>1, WantedIsOwed DEF SerialInv
<1>. QED
  BY <1>1, <1>3, <1>4, <1>6, <1>7, <1>8, SerialStep DEF Reserves

LEMMA SerialWriteThread ==
    ASSUME Inv, Inv', SerialInv, set.exclusive, NEW p \in Task, WriteThread(p)
    PROVE  SerialInv'
<1>1. /\ Serial(p) /\ Alone(p) /\ AttemptsTell /\ ex[p].key \in Key /\ ex[p].pc = "write"
      /\ faults.stale = FALSE /\ Kind(ex[p].key) = "create_thread"
      /\ Latest(p) /\ att[ex[p].key].status = "reserved"
      /\ HasMain /\ ex[p].key = ThreadKey(pub.main) /\ ex[p].key[2] = pub.main /\ pub.main \in Msg
  <2>1. ex[p].pc = "write" /\ Kind(ex[p].key) = "create_thread"
    BY DEF WriteThread, At
  <2>2. Serial(p) /\ ex[p].key \in Key
    BY <2>1, SerialWriting
  <2>3. HasMain /\ ex[p].key = ThreadKey(pub.main) /\ pub.main \in Msg
    BY <2>1, <2>2 DEF Serial, HasMain, Inv, TypeOK, PubRow
  <2>. QED
    BY <2>1, <2>3, SerialWriting, KeyTypes
<1>2. /\ pub' = [pub EXCEPT !.status = "main_published", !.thread = ex[p].key[2]]
      /\ Succeed(p) /\ Releasing(p, "continue") /\ UNCHANGED <<set, sent, faults>>
  BY DEF WriteThread
<1>3. Marks(ThreadKey(pub.main), "succeeded") /\ Releases(p, "continue")
  BY <1>1, <1>2, SucceedEffect, ReleasingEffect DEF Inv, Then
<1>4. HasMain' /\ pub'.main = pub.main /\ pub'.thread = pub.main /\ pub.main # NoMsg
  BY <1>1, <1>2, FaultAssumption DEF HasMain, Inv, TypeOK, PubRow
<1>5. pub.thread = NoMsg
  <2>1. pub.thread # pub.main
    BY <1>1 DEF AttemptsTell
  <2>. QED
    BY <1>1, <2>1 DEF AttemptsTell
<1>6. AttemptsTell'
  <2>1. att'[PublishKey] = att[PublishKey] /\ att[PublishKey].status = "succeeded"
    BY <1>1, <1>3, KeyTypes DEF Marks, Writes, AttemptsTell
  <2>2. ASSUME NEW m \in Msg
        PROVE  att'[ThreadKey(m)].status = "succeeded" <=> pub'.thread = m
    <3>1. CASE m = pub.main
      BY <1>3, <1>4, <3>1 DEF Marks
    <3>2. CASE m # pub.main
      <4>1. ThreadKey(m) # ThreadKey(pub.main) /\ m # NoMsg
        BY <1>1, <3>2, KeyTypes, FaultAssumption DEF Msg, NoMsg
      <4>2. att'[ThreadKey(m)] = att[ThreadKey(m)]
        BY <1>3, <4>1, KeyTypes DEF Marks, Writes
      <4>. QED
        BY <1>1, <1>4, <1>5, <3>2, <4>1, <4>2 DEF AttemptsTell
    <3>. QED
      BY <3>1, <3>2
  <2>. QED
    BY <1>4, <2>1, <2>2 DEF AttemptsTell
<1>7. Serial(p)'
  BY <1>1, <1>3, <1>4, KeyTypes
     DEF Releases, SameWork, Serial, Leaving, Creating, At, EnrichKey, Kind
<1>8. sent' + Owed(p)' <= 1 + faults'.n
  <2>1. Owed(p) = 0 /\ Owed(p)' = 0
    BY <1>1, <1>4 DEF Owed
  <2>. QED
    BY <1>1, <1>2, <2>1, WantedIsOwed DEF SerialInv
<1>. QED
  BY <1>1, <1>2, <1>3, <1>6, <1>7, <1>8, SerialStep DEF Releases

LEMMA SerialWriteEnrich ==
    ASSUME Inv, Inv', SerialInv, set.exclusive, NEW p \in Task, WriteEnrich(p)
    PROVE  SerialInv'
<1>1. /\ faults.stale = FALSE /\ Serial(p) /\ Alone(p) /\ AttemptsTell /\ ex[p].key = EnrichKey
      /\ Stops(p) /\ UNCHANGED <<set, pub, sent, faults>>
  BY SerialFacts, WorkTypes, KeyTypes, StopEffect DEF WriteEnrich, At, Inv
<1>2. \A k \in Key : k # EnrichKey => att'[k] = att[k]
  BY <1>1, SucceedEffect, KeyTypes DEF WriteEnrich, Inv, Marks, Writes
<1>3. AttemptsTell'
  <2>1. att'[PublishKey] = att[PublishKey] /\ \A m \in Msg : att'[ThreadKey(m)] = att[ThreadKey(m)]
    BY <1>2, KeyTypes DEF PublishKey, EnrichKey, Kind
  <2>. QED
    BY <1>1, <2>1 DEF AttemptsTell, HasMain
<1>4. Serial(p)' /\ ~Recording(p)' /\ ~Recording(p)
  BY <1>1, SerialStop, KeyTypes DEF Recording, PublishKey, EnrichKey, Kind
<1>5. sent' + Owed(p)' <= 1 + faults'.n
  <2>1. Owed(p)' = Owed(p)
    BY <1>1, <1>4 DEF Owed, HasMain
  <2>. QED
    BY <1>1, <2>1, WantedIsOwed DEF SerialInv
<1>. QED
  BY <1>1, <1>3, <1>4, <1>5, SerialStep DEF Stops

LEMMA SerialWriteFailure ==
    ASSUME Inv, Inv', SerialInv, set.exclusive, NEW p \in Task, WriteFailure(p)
    PROVE  SerialInv'
<1>0. ex[p].key \in Key /\ ex[p].pc \in {"fail_attempt", "fail_folder"} /\ Work(p)
  BY WorkTypes DEF WriteFailure, Inv
<1>1. /\ Serial(p) /\ Alone(p) /\ AttemptsTell /\ Coherent /\ faults.stale = FALSE
      /\ Latest(p) /\ att[ex[p].key].status = "reserved"
  BY <1>0, SerialFacts DEF Serial, Leaving, Creating
<1>2. Stops(p) /\ Marks(ex[p].key, "failed") /\ set' = set /\ sent' = sent
  BY <1>0, <1>1, WriteFailureEffect DEF Inv
<1>3. /\ pub'.main = pub.main /\ pub'.thread = pub.thread /\ (HasMain' <=> HasMain)
      /\ ex[p].key # PublishKey => pub' = pub
      /\ faults'.stale = FALSE /\ faults'.n = faults.n
  <2>1. CASE UNCHANGED <<pub, faults>>
    BY <1>1, <2>1 DEF HasMain
  <2>2. CASE ex[p].pc = "fail_folder" /\ Rewrites("failed")
    <3>1. ex[p].key = PublishKey
      BY <1>0, <2>2 DEF Work
    <3>2. pub.main = NoMsg
      BY <1>1, <3>1 DEF AttemptsTell, Coherent
    <3>. QED
      BY <1>1, <2>2, <3>1, <3>2 DEF Rewrites, HasMain
  <2>. QED
    BY <1>0, <2>1, <2>2, WriteFailureEffect DEF Inv
<1>4. AttemptsTell'
  <2>1. \A k \in Key : att'[k].status = "succeeded" <=> att[k].status = "succeeded"
    BY <1>1, <1>2 DEF Marks, Writes
  <2>2. att'[PublishKey].status = "reserved" =>
            att[PublishKey].status = "reserved" /\ ex[p].key # PublishKey
    BY <1>0, <1>1, <1>2, KeyTypes DEF Marks, Writes
  <2>. QED
    BY <1>1, <1>3, <2>1, <2>2, KeyTypes DEF AttemptsTell
<1>5. Serial(p)' /\ ~Recording(p)' /\ ~Recording(p)
  BY <1>0, <1>2, SerialStop DEF Recording, Returning
<1>6. sent' + Owed(p)' <= 1 + faults'.n
  <2>1. Owed(p)' = Owed(p)
    BY <1>3, <1>5 DEF Owed
  <2>. QED
    BY <1>1, <1>2, <1>3, <2>1, WantedIsOwed DEF SerialInv
<1>. QED
  BY <1>1, <1>2, <1>3, <1>4, <1>5, <1>6, SerialStep DEF Stops

LEMMA SerialDbError ==
    ASSUME Inv, Inv', SerialInv, set.exclusive, NEW p \in Task, DbError(p)
    PROVE  SerialInv'
<1>1. /\ Faulted /\ UNCHANGED <<set, pub, att, sent>>
      /\ \/ ex[p].pc \in {"release", "clear"} /\ AfterReleases(p)
         \/ ThreadRecord(p) /\ Releases(p, "end")
         \/ ex[p].pc # "idle" /\ Stops(p)
  BY DbErrorEffect DEF Inv
<1>2. CASE ex[p].pc \in {"release", "clear"} /\ AfterReleases(p)
  BY <1>1, <1>2, SerialAfter
<1>3. CASE ThreadRecord(p) /\ Releases(p, "end")
  <2>1. Serial(p) /\ Alone(p) /\ ex[p].key # PublishKey
    BY <1>3, SerialFacts, KeyTypes DEF ThreadRecord, At
  <2>2. Serial(p)' /\ ~Recording(p) /\ ~Recording(p)'
    BY <1>1, <1>3, <2>1
       DEF ThreadRecord, At, Releases, SameWork, Serial, Latest, Leaving, Creating, HasMain,
           Recording
  <2>3. Owed(p)' - Owed(p) <= faults'.n - faults.n
    BY <1>1, <2>2, FaultAssumption DEF Owed, HasMain, Faulted, Inv, TypeOK
  <2>. QED
    BY <1>1, <1>3, <2>1, <2>2, <2>3, SerialQuiet DEF Releases, Faulted
<1>4. CASE ex[p].pc # "idle" /\ Stops(p)
  BY <1>1, <1>4, SerialFacts, SerialStops
<1>. QED
  BY <1>1, <1>2, <1>3, <1>4

LEMMA SerialCrash ==
    ASSUME Inv, Inv', SerialInv, set.exclusive, NEW h \in Holder, Crash(h)
    PROVE  SerialInv'
<1>1. PICK p \in Task : HolderOf[p] = h /\ ex[p].pc # "idle"
  BY DEF Crash
<1>2. Alone(p)
  BY <1>1, SerialFacts
<1>3. Stops(p)
  <2>1. \A q \in Task : q # p => ex[q] = Idle
    BY <1>2 DEF Alone, Inv, Work
  <2>2. ex' = [q \in Task |-> IF HolderOf[q] = h THEN Idle ELSE ex[q]]
    BY DEF Crash
  <2>. QED
    BY <1>1, <2>1, <2>2 DEF Stops, Touches, Inv, TypeOK
<1>4. Faulted /\ UNCHANGED <<set, pub, att, sent>>
  BY FaultEffect DEF Crash, Inv
<1>. QED
  BY <1>2, <1>3, <1>4, SerialStops

LEMMA SerialExpire ==
    ASSUME Inv, Inv', SerialInv, set.exclusive, NEW k \in Key, ExpireLease(k)
    PROVE  SerialInv'
<1>1. /\ UNCHANGED <<set, pub, ex, sent>>
      /\ \A j \in Key : att'[j].num = att[j].num /\ att'[j].status = att[j].status
      /\ faults'.n \in {faults.n, faults.n + 1} /\ faults'.stale = faults.stale
  BY ExpireEffect DEF ExpireLease, Inv, Writes, Faulted
<1>2. AttemptsTell'
  BY <1>1, TellKept DEF SerialInv
<1>3. ASSUME NEW p \in Task PROVE Serial(p)' /\ (ex'[p].pc # "idle" => Alone(p)')
  <2>1. Serial(p) /\ (ex[p].pc # "idle" => Alone(p))
    BY SerialFacts
  <2>2. ex[p].pc # "idle" => ex[p].key \in Key
    BY WorkTypes
  <2>3. ex'[p] = ex[p] /\ (HasMain' <=> HasMain) /\ pub' = pub
    BY <1>1 DEF HasMain
  <2>4. ex[p].pc # "idle" => (Latest(p)' <=> Latest(p))
        /\ att'[ex[p].key].status = att[ex[p].key].status
    BY <1>1, <2>2, <2>3 DEF Latest
  <2>5. Serial(p)'
    BY <2>1, <2>2, <2>3, <2>4 DEF Serial, Leaving, Creating, At, ActiveAttempt
  <2>. QED
    BY <1>1, <2>1, <2>5 DEF Alone
<1>4. (sent + Wanted <= 1 + faults.n)'
  <2>1. Wanted' = Wanted
    BY <1>1 DEF Wanted, HasMain, Recording, Returning
  <2>2. Wanted \in {0, 1} /\ sent \in Int /\ faults.n \in Int /\ sent + Wanted <= 1 + faults.n
    BY FaultAssumption DEF Wanted, Inv, TypeOK, SerialInv
  <2>. QED
    BY <1>1, <2>1, <2>2
<1>. QED
  BY <1>1, <1>2, <1>3, <1>4 DEF SerialInv

LEMMA SameWorld == Next => set' = set
BY DEF Next, Step, StartPublish, StartEnrich, StartResume, Start, ReservePublish,
       ReservePublishHit, ReserveThread, ReserveThreadHit, ReserveEnrich, CreateAttempt,
       CreateRefused, Claim, ClaimRefused, ReleaseLease, ClearLease, CallDiscord, ThreadExists,
       CallFails, CallAnswerLost, RecordMain, RecordThread, RecordEnrich, RecordFailure, WriteMain,
       WriteThread, WriteEnrich, WriteFailure, DbError, Crash, ExpireLease

LEMMA SerialNext == Inv /\ SerialInv /\ [Next]_vars => SerialInv'
<1>. SUFFICES ASSUME Inv, SerialInv, [Next]_vars PROVE SerialInv'
  OBVIOUS
<1>0. Inv'
  BY NextInv
<1>1. CASE UNCHANGED vars
  <2>1. \A p \in Task : (Serial(p)' <=> Serial(p)) /\ (Alone(p)' <=> Alone(p))
    BY <1>1 DEF vars, Serial, Alone, Latest, Leaving, Creating, At, ActiveAttempt, HasMain
  <2>2. (AttemptsTell' <=> AttemptsTell) /\ Wanted' = Wanted
    BY <1>1 DEF vars, AttemptsTell, HasMain, Wanted, Recording, Returning
  <2>. QED
    BY <1>1, <2>1, <2>2 DEF vars, SerialInv
<1>2. CASE Next /\ ~set.exclusive
  BY <1>2, SameWorld DEF SerialInv
<1>3. CASE Next /\ set.exclusive
  <2>1. ASSUME NEW p \in Task, Step(p) PROVE SerialInv'
    BY <1>0, <1>3, <2>1, SerialReservations, SerialHits, SerialCreate, SerialLease, SerialCall,
       SerialRecord, SerialWriteMain, SerialWriteThread, SerialWriteEnrich, SerialWriteFailure
       DEF Step
  <2>2. ASSUME NEW p \in Task,
               \/ StartPublish(p) \/ StartEnrich(p) \/ StartResume(p)
               \/ CallFails(p) \/ CallAnswerLost(p) \/ DbError(p)
        PROVE  SerialInv'
    BY <1>0, <1>3, <2>2, SerialStart, SerialCall, SerialDbError
  <2>. QED
    BY <1>0, <1>3, <2>1, <2>2, SerialCrash, SerialExpire DEF Next
<1>. QED
  BY <1>1, <1>2, <1>3

LEMMA SerialHolds == Spec => [](Inv /\ SerialInv)
BY InitInv, SerialInit, NextInv, SerialNext, PTL DEF Spec

\* The row of a folder has its types and never runs ahead of Discord; its status says what
\* it holds when commands do not overlap, and when they do until a status is written over a
\* main message that was not there when the row was read (publication-repository.ts).
THEOREM RowInvHolds == Spec => []RowInv
<1>1. Inv /\ SerialInv => RowInv
  BY DEF Inv, SerialInv, CoherentInv, Coherent, RowInv, StatusCoherent, Unharmed, TypeOK
<1>. QED
  BY SerialHolds, <1>1, PTL

LEMMA MainKept ==
    ASSUME Inv, [Next]_vars, HasMain, faults'.stale = FALSE
    PROVE  HasMain' /\ faults.stale = FALSE
<1>. USE DEF HasMain
<1>1. CASE UNCHANGED pub /\ (UNCHANGED faults \/ Faulted)
  BY <1>1 DEF Faulted
<1>2. ASSUME NEW s, Rewrites(s) PROVE FALSE
  BY <1>2 DEF Rewrites
<1>3. ASSUME NEW p \in Task, CreateAttempt(p) PROVE UNCHANGED <<pub, faults>>
  <2>1. ex[p].key \in Key
    BY <1>3, WorkTypes DEF CreateAttempt, Creating
  <2>. QED
    BY <1>2, <1>3, <2>1, CreateEffect DEF Inv
<1>4. ASSUME NEW p \in Task, WriteFailure(p) PROVE UNCHANGED <<pub, faults>>
  <2>1. ex[p].key \in Key
    BY <1>4, WorkTypes DEF WriteFailure
  <2>. QED
    BY <1>2, <1>4, <2>1, WriteFailureEffect DEF Inv
<1>5. ASSUME NEW p \in Task, WriteMain(p) PROVE HasMain' /\ UNCHANGED faults
  <2>1. ex[p].key = PublishKey /\ ex[p].msg \in 1 .. sent
    BY <1>5, WorkTypes, KeyTypes DEF WriteMain, At, Inv, Work, Returning
  <2>. QED
    BY <1>5, <2>1, FaultAssumption DEF WriteMain, NoMsg, Inv, TypeOK
<1>6. ASSUME NEW p \in Task, WriteThread(p) PROVE HasMain' /\ UNCHANGED faults
  BY <1>6 DEF WriteThread, Inv, TypeOK, PubRow
<1>7. ASSUME NEW kind, Fault(kind) PROVE Faulted
  BY <1>7, FaultEffect DEF Inv
<1>. QED
  BY <1>1, <1>3, <1>4, <1>5, <1>6, <1>7
     DEF Next, Step, StartPublish, StartEnrich, StartResume, Start, ReservePublish,
         ReservePublishHit, ReserveThread, ReserveThreadHit, ReserveEnrich, CreateRefused, Claim,
         ClaimRefused, ReleaseLease, ClearLease, CallDiscord, ThreadExists, RecordMain,
         RecordThread, RecordEnrich, RecordFailure, WriteEnrich, CallFails, CallAnswerLost, DbError,
         Crash, ExpireLease, vars

\* A folder that has its main message keeps one when commands do not overlap, whatever
\* fails; when they do, no failure and no record of another message takes it away but one
\* that writes a status read before the message was recorded.
THEOREM MainIsKeptHolds == Spec => MainIsKept
<1>1. Inv /\ SerialInv' /\ Inv' /\ [Next]_vars => [Unharmed' => (HasMain => HasMain')]_vars
  <2>. SUFFICES ASSUME Inv, SerialInv', Inv', [Next]_vars, Unharmed', HasMain PROVE HasMain'
    OBVIOUS
  <2>1. faults'.stale = FALSE
    BY DEF Unharmed, SerialInv, Inv, TypeOK
  <2>. QED
    BY <2>1, MainKept
<1>. QED
  BY InitInv, SerialInit, NextInv, SerialNext, <1>1, PTL DEF Spec, MainIsKept

\* Commands that do not overlap send one main message, and one more per fault at most,
\* whoever holds the leases.
THEOREM OneMainPerFaultHolds == Spec => []OneMainPerFault
<1>1. Inv /\ SerialInv => OneMainPerFault
  <2>. SUFFICES ASSUME Inv, SerialInv, set.exclusive PROVE sent <= 1 + faults.n
    BY DEF OneMainPerFault
  <2>1. sent + Wanted <= 1 + faults.n /\ Wanted \in {0, 1} /\ sent \in Int /\ faults.n \in Int
    BY FaultAssumption DEF SerialInv, Inv, TypeOK, Wanted
  <2>. QED
    BY <2>1
<1>. QED
  BY SerialHolds, <1>1, PTL

-----------------------------------------------------------------------------
(* Commands that do not overlap implement PublicationRecord.                 *)

\* Nothing that PublicationRecord sees.
LEMMA RecordStutters ==
    ASSUME UNCHANGED <<set, sent, threads, posts>>,
           pub'.main = pub.main, pub'.thread = pub.thread
    PROVE  UNCHANGED Record!vars
BY DEF Record!vars

LEMMA OtherWorldStutters ==
    ASSUME ~set.exclusive, set' = set
    PROVE  UNCHANGED Record!vars
BY DEF Record!vars

\* What reaches Discord is what the row is ready for.
LEMMA RecordDelivery ==
    ASSUME Inv, SerialInv, set.exclusive, NEW p \in Task, ex[p].pc = "call", Delivers(p),
           UNCHANGED <<set, pub>>
    PROVE  Record!Next
<1>1. Serial(p) /\ AttemptsTell /\ ex[p].key \in Key /\ att[ex[p].key].status = "reserved"
  BY SerialFacts, WorkTypes DEF Serial, Leaving, Creating
<1>2. set'.exclusive = set.exclusive /\ pub'.main = pub.main /\ pub'.thread = pub.thread
  OBVIOUS
<1>3. CASE /\ ex[p].key = PublishKey
           /\ sent < MaxMsgs /\ sent' = sent + 1 /\ UNCHANGED <<threads, posts>>
  <2>1. pub.main = NoMsg
    BY <1>1, <1>3, SerialFacts DEF AttemptsTell, Coherent
  <2>2. sent \in Nat /\ sent + 1 \in Msg /\ sent + 1 \notin 1 .. sent
    BY <1>3, FaultAssumption DEF Inv, TypeOK, Msg
  <2>3. 1 .. sent' = (1 .. sent) \cup {sent + 1}
    BY <1>3, <2>2
  <2>4. Record!SendMain
    BY <1>2, <1>3, <2>1, <2>2, <2>3 DEF Record!SendMain
  <2>. QED
    BY <2>4 DEF Record!Next
<1>4. CASE /\ Kind(ex[p].key) = "create_thread"
           /\ ex[p].key[2] \notin threads /\ threads' = threads \cup {ex[p].key[2]}
           /\ UNCHANGED <<sent, posts>>
  <2>1. HasMain /\ ex[p].key = ThreadKey(pub.main) /\ pub.main \in Msg /\ ex[p].key[2] = pub.main
    BY <1>1, <1>4, KeyTypes DEF Serial, HasMain, Inv, TypeOK, PubRow
  <2>2. pub.thread = NoMsg
    BY <1>1, <2>1 DEF AttemptsTell
  <2>3. pub.main # NoMsg
    BY <2>1 DEF HasMain
  <2>4. Record!StartThread
    BY <1>2, <1>4, <2>1, <2>2, <2>3 DEF Record!StartThread
  <2>. QED
    BY <2>4 DEF Record!Next
<1>5. CASE /\ ex[p].key = EnrichKey
           /\ posts' = posts + 1 /\ UNCHANGED <<sent, threads>>
  <2>1. pub.thread # NoMsg
    BY <1>1, <1>5 DEF Serial
  <2>2. Record!PostEnrichment
    BY <1>2, <1>5, <2>1 DEF Record!PostEnrichment
  <2>. QED
    BY <2>2 DEF Record!Next
<1>. QED
  BY <1>3, <1>4, <1>5 DEF Delivers

LEMMA RecordMainRefines ==
    ASSUME Inv, SerialInv, set.exclusive, NEW p \in Task, WriteMain(p)
    PROVE  Record!Next
<1>1. ex[p].pc = "write" /\ ex[p].key = PublishKey /\ ex[p].msg \in 1 .. sent
  BY WorkTypes, KeyTypes DEF WriteMain, At, Inv, Work, Returning
<1>2. pub.main = NoMsg /\ pub.thread = NoMsg
  BY <1>1, SerialWriting DEF AttemptsTell, Coherent
<1>3. /\ pub'.main = ex[p].msg /\ pub'.thread = NoMsg
      /\ UNCHANGED <<set, sent, threads, posts>>
  BY DEF WriteMain
<1>4. Record!RecordMain
  BY <1>1, <1>2, <1>3 DEF Record!RecordMain
<1>. QED
  BY <1>4 DEF Record!Next

LEMMA RecordThreadRefines ==
    ASSUME Inv, SerialInv, set.exclusive, NEW p \in Task, WriteThread(p)
    PROVE  Record!Next
<1>0. ex[p].pc = "write" /\ Kind(ex[p].key) = "create_thread" /\ ex[p].key[2] \in threads
  BY DEF WriteThread, At, Inv, Work, Returning
<1>1. /\ AttemptsTell /\ HasMain /\ ex[p].key = ThreadKey(pub.main) /\ pub.main \in Msg
      /\ ex[p].key[2] = pub.main /\ att[ThreadKey(pub.main)].status = "reserved"
      /\ ex[p].key[2] \in threads
  <2>1. HasMain /\ ex[p].key = ThreadKey(pub.main) /\ pub.main \in Msg
    BY <1>0, SerialWriting DEF Serial, HasMain, Inv, TypeOK, PubRow
  <2>2. AttemptsTell /\ att[ex[p].key].status = "reserved"
    BY <1>0, SerialWriting
  <2>3. ThreadKey(pub.main)[2] = pub.main
    BY <2>1, KeyTypes
  <2>. QED
    BY <1>0, <2>1, <2>2, <2>3
<1>2. pub.thread = NoMsg
  BY <1>1 DEF AttemptsTell
<1>3. /\ pub'.main = pub.main /\ pub'.thread = pub.main
      /\ UNCHANGED <<set, sent, threads, posts>>
  BY <1>1 DEF WriteThread, HasMain, Inv, TypeOK, PubRow
<1>4. Record!RecordThread
  BY <1>1, <1>2, <1>3 DEF Record!RecordThread
<1>. QED
  BY <1>4 DEF Record!Next

LEMMA RecordRefines == Inv /\ SerialInv /\ [Next]_vars => [Record!Next]_(Record!vars)
<1>. SUFFICES ASSUME Inv, SerialInv, [Next]_vars PROVE [Record!Next]_(Record!vars)
  OBVIOUS
<1>1. CASE UNCHANGED vars
  BY <1>1, RecordStutters DEF vars
<1>2. CASE Next /\ ~set.exclusive
  BY <1>2, SameWorld, OtherWorldStutters
<1>3. CASE Next /\ set.exclusive
  <2>1. CASE UNCHANGED <<set, sent, threads, posts, pub>>
    BY <2>1, RecordStutters
  <2>2. ASSUME NEW p \in Task, CreateAttempt(p) \/ WriteFailure(p)
        PROVE  [Record!Next]_(Record!vars)
    <3>1. ex[p].key \in Key
      BY <2>2, WorkTypes DEF CreateAttempt, Creating, WriteFailure
    <3>2. /\ UNCHANGED <<set, sent, threads, posts>>
          /\ UNCHANGED pub \/ \E s : Rewrites(s)
      BY <2>2, <3>1, CreateEffect, WriteFailureEffect DEF Inv
    <3>. QED
      BY <3>2, RecordStutters DEF Rewrites
  <2>3. ASSUME NEW p \in Task, CallDiscord(p) \/ CallAnswerLost(p)
        PROVE  [Record!Next]_(Record!vars)
    <3>1. Delivers(p) /\ ex[p].pc = "call" /\ UNCHANGED <<set, pub>>
      BY <2>3, WorkTypes, DeliverEffect DEF CallDiscord, CallAnswerLost
    <3>. QED
      BY <1>3, <3>1, RecordDelivery
  <2>4. ASSUME NEW p \in Task, WriteMain(p) \/ WriteThread(p)
        PROVE  [Record!Next]_(Record!vars)
    BY <1>3, <2>4, RecordMainRefines, RecordThreadRefines
  <2>. QED
    BY <1>3, <2>1, <2>2, <2>3, <2>4
       DEF Next, Step, StartPublish, StartEnrich, StartResume, Start, ReservePublish,
           ReservePublishHit, ReserveThread, ReserveThreadHit, ReserveEnrich, CreateRefused, Claim,
           ClaimRefused, ReleaseLease, ClearLease, ThreadExists, CallFails, RecordMain,
           RecordThread, RecordEnrich, RecordFailure, WriteEnrich, DbError, Crash, ExpireLease
<1>. QED
  BY <1>1, <1>2, <1>3

\* Commands that do not overlap implement PublicationRecord: whatever fails, a main
\* message is sent only while none is recorded, a thread is started only from the recorded
\* message, an enrichment is posted only once the thread is recorded.
THEOREM RecordSpecHolds == Spec => RecordSpec
<1>1. Init => Record!Init
  BY DEF Init, Record!Init
<1>. QED
  BY <1>1, SerialHolds, RecordRefines, PTL DEF Spec, RecordSpec, Record!Spec

-----------------------------------------------------------------------------
(* Tasks in processes of their own.                                          *)

OwnProcesses == \A p, q \in Task : HolderOf[p] = HolderOf[q] => p = q

\* The lease of p's attempt has p's name on it.
Holds(p) == att[ex[p].key].holder = HolderOf[p]

Starting(p) == ex[p].pc \in {"idle", "reserve", "create", "open", "claim"}

\* A task in a call, or about to clear its lease, holds it, and what a task holds has not
\* expired.
Leased(p) == ~Starting(p) /\ Latest(p) =>
    /\ ex[p].pc \in {"call", "clear"} => Holds(p)
    /\ Holds(p) => att[ex[p].key].lease = "live"

LeaseInv == faults.slow = FALSE => \A p \in Task : Leased(p)

SameLeases ==
    \A k \in Key : att'[k].num = att[k].num /\ att'[k].holder = att[k].holder
                                            /\ att'[k].lease = att[k].lease
StaysSlow == faults'.slow = FALSE => faults.slow = FALSE

LEMMA LeaseInit == Init => LeaseInv
BY DEF Init, LeaseInv, Leased, Starting, Idle

LEMMA LeaseQuiet ==
    ASSUME Inv, LeaseInv, NEW p \in Task, Touches(p), SameLeases, StaysSlow,
           Leased(p) => Leased(p)'
    PROVE  LeaseInv'
<1>. SUFFICES ASSUME faults'.slow = FALSE, NEW q \in Task, q # p PROVE Leased(q)'
  BY DEF LeaseInv, StaysSlow
<1>1. Leased(q) /\ ex'[q] = ex[q]
  BY DEF LeaseInv, StaysSlow, Touches
<1>2. ~Starting(q) => ex[q].key \in Key
  BY WorkTypes DEF Starting
<1>. QED
  BY <1>1, <1>2 DEF Leased, Starting, Latest, Holds, SameLeases

\* p has no lease afterwards.
LEMMA LeaseStarting ==
    ASSUME Inv, LeaseInv, NEW p \in Task, Touches(p), SameLeases, StaysSlow, Starting(p)'
    PROVE  LeaseInv'
BY LeaseQuiet DEF Leased

\* p keeps the attempt it works on.
LEMMA LeaseGoes ==
    ASSUME Inv, LeaseInv, NEW p \in Task, Touches(p), SameLeases, StaysSlow,
           ~Starting(p), ex'[p].key = ex[p].key, ex'[p].num = ex[p].num,
           ex'[p].pc \in {"call", "clear"} => Holds(p)
    PROVE  LeaseInv'
<1>1. ex[p].key \in Key
  BY WorkTypes DEF Starting
<1>2. Leased(p) => Leased(p)'
  BY <1>1 DEF Leased, Latest, Holds, SameLeases
<1>. QED
  BY <1>2, LeaseQuiet

LEMMA LeaseStart ==
    ASSUME Inv, LeaseInv, NEW p \in Task, StartPublish(p) \/ StartEnrich(p) \/ StartResume(p)
    PROVE  LeaseInv'
<1>0. pub.main # NoMsg => ThreadKey(pub.main) \in Key
  BY KeyTypes DEF Inv, TypeOK, PubRow
<1>1. PICK c \in {"publish", "enrich", "resume"}, k \in Key : Start(p, c, k)
  BY <1>0, KeyTypes DEF StartPublish, StartEnrich, StartResume, HasMain
<1>2. Touches(p) /\ Starting(p)' /\ UNCHANGED <<att, faults>>
  BY <1>1, StartEffect DEF Inv, Begins, Starting
<1>. QED
  BY <1>2, LeaseStarting DEF SameLeases, StaysSlow

LEMMA LeaseStop ==
    ASSUME Inv, LeaseInv, NEW p \in Task, Stops(p), SameLeases, StaysSlow
    PROVE  LeaseInv'
BY LeaseStarting DEF Stops, Idle, Starting

LEMMA LeaseRead ==
    ASSUME Inv, LeaseInv, NEW p \in Task, ex[p].key \in Key, NEW next \in {"create", "open"},
           ReadAttempt(p, ex[p].key, next), UNCHANGED <<att, faults>>
    PROVE  LeaseInv'
BY ReadEffect, LeaseStarting DEF Inv, Finds, Joins, Starting, SameLeases, StaysSlow

\* Whoever works on an older attempt has no lease on a new one.
LEMMA LeaseCreate ==
    ASSUME Inv, LeaseInv, NEW p \in Task, CreateAttempt(p)
    PROVE  LeaseInv'
<1>0. ex[p].key \in Key
  BY WorkTypes DEF CreateAttempt, Creating
<1>1. PICK n \in Num :
        /\ Joins(p, "claim", n) /\ Unused(ex[p].key, n) /\ Writes(ex[p].key)
        /\ att'[ex[p].key] = [num |-> n, status |-> "reserved", holder |-> NoHolder,
                              lease |-> "none"]
  BY <1>0, CreateEffect DEF Inv
<1>2. faults'.slow = faults.slow
  BY <1>0, CreateEffect DEF Inv, Rewrites
<1>. SUFFICES ASSUME faults.slow = FALSE, NEW q \in Task PROVE Leased(q)'
  BY <1>2 DEF LeaseInv
<1>3. CASE q = p
  BY <1>1, <1>3 DEF Joins, Leased, Starting
<1>4. CASE q # p
  <2>1. Leased(q) /\ ex'[q] = ex[q]
    BY <1>1, <1>4 DEF LeaseInv, Joins, Touches
  <2>2. ~Starting(q) => ex[q].key \in Key
    BY WorkTypes DEF Starting
  <2>3. ex[q].key = ex[p].key => ~Latest(q)'
    BY <1>1, <2>1 DEF Unused, Latest
  <2>. QED
    BY <1>1, <2>1, <2>2, <2>3 DEF Leased, Starting, Latest, Holds, Writes
<1>. QED
  BY <1>3, <1>4

LEMMA LeaseReservations ==
    ASSUME Inv, LeaseInv, NEW p \in Task,
           \/ ReservePublish(p) \/ ReservePublishHit(p) \/ ReserveThread(p) \/ ReserveThreadHit(p)
           \/ ReserveEnrich(p) \/ CreateRefused(p)
    PROVE  LeaseInv'
<1>0. ex[p].key \in Key /\ UNCHANGED <<att, faults>>
  BY WorkTypes DEF ReservePublish, ReservePublishHit, ReserveThread, ReserveThreadHit,
                   ReserveEnrich, CreateRefused, Creating, At
<1>1. CASE Stops(p)
  BY <1>0, <1>1, LeaseStop DEF SameLeases, StaysSlow
<1>2. ASSUME NEW k \in Key, Reserves(p, k) PROVE LeaseInv'
  BY <1>0, <1>2, LeaseStarting DEF Reserves, Starting, SameLeases, StaysSlow
<1>3. ASSUME NEW next \in {"create", "open"}, ReadAttempt(p, ex[p].key, next) PROVE LeaseInv'
  BY <1>0, <1>3, LeaseRead
<1>4. CASE ReservePublish(p)
  <2>1. ex[p].key = PublishKey
    BY <1>0, <1>4, KeyTypes DEF ReservePublish, At
  <2>. QED
    BY <1>3, <1>4, <2>1 DEF ReservePublish
<1>5. CASE ReservePublishHit(p)
  <2>1. pub.main \in Msg
    BY <1>5 DEF ReservePublishHit, HasMain, Inv, TypeOK, PubRow
  <2>. QED
    BY <1>1, <1>2, <1>5, <2>1, StopEffect, ReservingEffect, KeyTypes DEF ReservePublishHit, Inv
<1>6. CASE ReserveThread(p)
  BY <1>3, <1>6 DEF ReserveThread
<1>7. CASE ReserveThreadHit(p)
  BY <1>1, <1>2, <1>7, StopEffect, AfterThreadEffect, KeyTypes
     DEF ReserveThreadHit, Inv, AfterThreads
<1>8. CASE ReserveEnrich(p)
  <2>1. ex[p].key = EnrichKey
    BY <1>0, <1>8, KeyTypes DEF ReserveEnrich, At
  <2>. QED
    BY <1>1, <1>3, <1>8, <2>1, StopEffect DEF ReserveEnrich, Inv
<1>9. CASE CreateRefused(p)
  BY <1>1, <1>9, StopEffect DEF CreateRefused, Inv
<1>. QED
  BY <1>4, <1>5, <1>6, <1>7, <1>8, <1>9

\* A lease is claimed when nobody is in a call under it.
LEMMA LeaseClaim ==
    ASSUME OwnProcesses, Inv, LeaseInv, NEW p \in Task, Claim(p)
    PROVE  LeaseInv'
<1>1. ex[p].key \in Key
  BY WorkTypes DEF Claim
<1>2. /\ Goes(p, "call") /\ Writes(ex[p].key)
      /\ att'[ex[p].key].num = att[ex[p].key].num
      /\ att'[ex[p].key].holder = HolderOf[p] /\ att'[ex[p].key].lease = "live"
      /\ UNCHANGED faults
  BY <1>1, ClaimEffect DEF Inv, Claim
<1>3. att[ex[p].key].holder \in {NoHolder, HolderOf[p]} \/ att[ex[p].key].lease = "expired"
  BY DEF Claim, Claimable
<1>. SUFFICES ASSUME faults.slow = FALSE, NEW q \in Task PROVE Leased(q)'
  BY <1>2 DEF LeaseInv
<1>4. CASE q = p
  BY <1>2, <1>4 DEF Leased, Holds, Goes, SameWork
<1>5. CASE q # p
  <2>1. Leased(q) /\ ex'[q] = ex[q] /\ HolderOf[q] # HolderOf[p] /\ HolderOf[q] # NoHolder
    BY <1>2, <1>5, TaskAssumption DEF LeaseInv, Goes, Touches, OwnProcesses
  <2>2. ~Starting(q) => ex[q].key \in Key
    BY WorkTypes DEF Starting
  <2>3. CASE ex[q].key = ex[p].key
    BY <1>2, <1>3, <2>1, <2>3 DEF Leased, Starting, Latest, Holds
  <2>4. CASE ex[q].key # ex[p].key
    BY <1>2, <2>1, <2>2, <2>4 DEF Leased, Starting, Latest, Holds, Writes
  <2>. QED
    BY <2>3, <2>4
<1>. QED
  BY <1>4, <1>5

LEMMA LeaseAfter ==
    ASSUME Inv, LeaseInv, NEW p \in Task, AfterReleases(p), SameLeases, StaysSlow,
           ex[p].pc \in {"release", "clear"}
    PROVE  LeaseInv'
<1>1. CASE ex[p].then = "continue" /\ AfterThreads(p)
  BY <1>1, LeaseStop, LeaseStarting DEF AfterThreads, Reserves, Starting
<1>2. CASE ex[p].then = "end" /\ Stops(p)
  BY <1>2, LeaseStop
<1>3. CASE ex[p].then \in {"record", "fail"} /\ Goes(p, ex[p].then)
  BY <1>3, LeaseGoes DEF Goes, SameWork, Starting
<1>. QED
  BY <1>1, <1>2, <1>3 DEF AfterReleases

\* A task clears its own lease, and nobody else's.
LEMMA LeaseClear ==
    ASSUME OwnProcesses, Inv, LeaseInv, NEW p \in Task, ClearLease(p)
    PROVE  LeaseInv'
<1>1. ex[p].key \in Key /\ ex[p].pc = "clear"
  BY WorkTypes DEF ClearLease
<1>2. /\ AfterReleases(p) /\ Writes(ex[p].key) /\ UNCHANGED faults
      /\ att'[ex[p].key].num = att[ex[p].key].num
      /\ Latest(p) => att'[ex[p].key].holder = NoHolder
      /\ ~Latest(p) => UNCHANGED att
  BY <1>1, ClearEffect DEF Inv, ClearLease
<1>3. CASE ~Latest(p)
  BY <1>1, <1>2, <1>3, LeaseAfter DEF SameLeases, StaysSlow
<1>4. CASE Latest(p)
  <2>1. Touches(p) /\ (~Starting(p)' => ex'[p].key = ex[p].key /\ ex'[p].pc \in {"record", "fail"})
    BY <1>1, <1>2 DEF AfterReleases, AfterThreads, Reserves, Stops, Goes, SameWork, Starting, Idle
  <2>. SUFFICES ASSUME faults.slow = FALSE, NEW q \in Task PROVE Leased(q)'
    BY <1>2 DEF LeaseInv
  <2>2. HolderOf[q] # NoHolder
    BY TaskAssumption
  <2>3. CASE q = p
    BY <1>2, <1>4, <2>1, <2>2, <2>3 DEF Leased, Holds
  <2>4. CASE q # p
    <3>1. Leased(q) /\ Leased(p) /\ ex'[q] = ex[q] /\ HolderOf[q] # HolderOf[p]
      BY <2>1, <2>4 DEF LeaseInv, Touches, OwnProcesses
    <3>2. ~Starting(q) => ex[q].key \in Key
      BY WorkTypes DEF Starting
    <3>3. Holds(p)
      BY <1>1, <1>4, <3>1 DEF Leased, Starting
    <3>4. CASE ex[q].key = ex[p].key
      BY <1>2, <1>4, <2>2, <3>1, <3>3, <3>4 DEF Leased, Starting, Latest, Holds
    <3>5. CASE ex[q].key # ex[p].key
      BY <1>2, <3>1, <3>2, <3>5 DEF Leased, Starting, Latest, Holds, Writes
    <3>. QED
      BY <3>4, <3>5
  <2>. QED
    BY <2>3, <2>4
<1>. QED
  BY <1>3, <1>4

LEMMA LeaseRelease ==
    ASSUME Inv, LeaseInv, NEW p \in Task, ReleaseLease(p)
    PROVE  LeaseInv'
<1>1. SameLeases /\ StaysSlow /\ ex[p].pc = "release"
  BY DEF ReleaseLease, SameLeases, StaysSlow
<1>2. CASE GoTo(p, "clear") /\ att[ex[p].key].holder = HolderOf[p]
  BY <1>1, <1>2, GoToEffect, LeaseGoes DEF Inv, Goes, SameWork, Starting, Place, Holds
<1>3. CASE AfterRelease(p)
  BY <1>1, <1>3, AfterReleaseEffect, LeaseAfter DEF Inv
<1>. QED
  BY <1>2, <1>3 DEF ReleaseLease

LEMMA LeaseCall ==
    ASSUME Inv, LeaseInv, NEW p \in Task,
           CallDiscord(p) \/ CallFails(p) \/ CallAnswerLost(p) \/ ThreadExists(p)
    PROVE  LeaseInv'
<1>1. ex[p].key \in Key /\ ex[p].pc = "call" /\ SameLeases
  BY WorkTypes DEF CallDiscord, CallFails, CallAnswerLost, ThreadExists, At, SameLeases
<1>2. StaysSlow
  BY FaultEffect DEF CallDiscord, CallFails, CallAnswerLost, ThreadExists, Inv, StaysSlow
<1>3. Touches(p) /\ ex'[p].key = ex[p].key /\ ex'[p].num = ex[p].num
      /\ ex'[p].pc \in {"record", "release"}
  <2>1. CASE CallDiscord(p)
    BY <1>1, <2>1, CallEffect DEF Inv, Goes, SameWork
  <2>2. CASE ~CallDiscord(p)
    BY <2>2, ReleasingEffect
       DEF CallFails, CallAnswerLost, ThreadExists, Inv, Then, Releases, SameWork
  <2>. QED
    BY <2>1, <2>2
<1>. QED
  BY <1>1, <1>2, <1>3, LeaseGoes DEF Starting

LEMMA LeaseRecord ==
    ASSUME Inv, LeaseInv, NEW p \in Task,
           \/ RecordMain(p) \/ RecordThread(p) \/ RecordEnrich(p) \/ RecordFailure(p)
           \/ WriteMain(p) \/ WriteThread(p) \/ WriteEnrich(p) \/ WriteFailure(p)
    PROVE  LeaseInv'
<1>1. ex[p].key \in Key /\ ~Starting(p)
  BY WorkTypes
     DEF RecordMain, RecordThread, RecordEnrich, RecordFailure, WriteMain, WriteThread,
         WriteEnrich, WriteFailure, At, Starting
<1>2. SameLeases /\ StaysSlow
  <2>1. UNCHANGED att \/ \E s : Marks(ex[p].key, s)
    BY <1>1, SucceedEffect, WriteFailureEffect
       DEF RecordMain, RecordThread, RecordEnrich, RecordFailure, WriteMain, WriteThread,
           WriteEnrich, Inv
  <2>2. UNCHANGED faults \/ \E s : Rewrites(s)
    BY <1>1, WriteFailureEffect
       DEF RecordMain, RecordThread, RecordEnrich, RecordFailure, WriteMain, WriteThread,
           WriteEnrich, Inv
  <2>. QED
    BY <2>1, <2>2 DEF SameLeases, StaysSlow, Marks, Writes, Rewrites
<1>3. \/ Stops(p)
      \/ \E k \in Key : Reserves(p, k)
      \/ \E next \in Then : Releases(p, next)
      \/ \E pc \in {"write", "fail_attempt", "fail_folder"} : Goes(p, pc)
  <2>1. CASE WriteMain(p)
    <3>1. ex[p].key = PublishKey /\ ex[p].msg \in Msg
      BY <1>1, <2>1, KeyTypes, FaultAssumption
         DEF WriteMain, At, Inv, Work, Returning, TypeOK, Msg
    <3>. QED
      BY <2>1, <3>1, KeyTypes, ReservingEffect DEF WriteMain, Inv
  <2>2. CASE WriteThread(p)
    BY <2>2, ReleasingEffect DEF WriteThread, Inv, Then
  <2>3. CASE WriteEnrich(p) \/ WriteFailure(p)
    BY <2>3, StopEffect DEF WriteEnrich, WriteFailure, Inv
  <2>4. CASE RecordMain(p) \/ RecordEnrich(p)
    BY <2>4, StopEffect, GoToEffect DEF RecordMain, RecordEnrich, Inv, Place
  <2>5. CASE RecordThread(p)
    BY <2>5, ReleasingEffect, GoToEffect DEF RecordThread, Inv, Then, Place
  <2>6. CASE RecordFailure(p)
    BY <2>6, FailureEffect DEF Inv
  <2>. QED
    BY <2>1, <2>2, <2>3, <2>4, <2>5, <2>6
<1>. QED
  BY <1>1, <1>2, <1>3, LeaseStop, LeaseStarting, LeaseGoes
     DEF Reserves, Releases, Goes, SameWork, Starting

LEMMA LeaseDbError ==
    ASSUME Inv, LeaseInv, NEW p \in Task, DbError(p)
    PROVE  LeaseInv'
<1>1. SameLeases /\ StaysSlow
  BY DbErrorEffect DEF Inv, SameLeases, StaysSlow
<1>2. \/ ex[p].pc \in {"release", "clear"} /\ AfterReleases(p)
      \/ ThreadRecord(p) /\ Releases(p, "end")
      \/ Stops(p)
  BY DbErrorEffect DEF Inv
<1>. QED
  BY <1>1, <1>2, LeaseAfter, LeaseGoes, LeaseStop
     DEF ThreadRecord, At, Releases, SameWork, Starting

LEMMA LeaseCrash ==
    ASSUME Inv, LeaseInv, NEW h \in Holder, Crash(h)
    PROVE  LeaseInv'
<1>1. UNCHANGED att /\ StaysSlow
  BY FaultEffect DEF Crash, Inv, StaysSlow
<1>. SUFFICES ASSUME faults'.slow = FALSE, NEW q \in Task PROVE Leased(q)'
  BY DEF LeaseInv
<1>2. Leased(q)
  BY <1>1 DEF LeaseInv, StaysSlow
<1>3. ex'[q] = ex[q] \/ ex'[q] = Idle
  BY DEF Crash
<1>. QED
  BY <1>1, <1>2, <1>3 DEF Leased, Starting, Latest, Holds, Idle

\* Unless a call is slow, a lease expires after the last task that works under it.
LEMMA LeaseExpire ==
    ASSUME Inv, LeaseInv, NEW k \in Key, ExpireLease(k)
    PROVE  LeaseInv'
<1>1. /\ Writes(k) /\ att'[k].num = att[k].num /\ att'[k].holder = att[k].holder
      /\ UNCHANGED ex
      /\ faults'.slow = FALSE => ~UnderLease(k) /\ faults.slow = FALSE
  BY ExpireEffect DEF Inv, ExpireLease
<1>. SUFFICES ASSUME faults'.slow = FALSE, NEW q \in Task, ~Starting(q) PROVE Leased(q)'
  BY <1>1 DEF LeaseInv, Leased, Starting
<1>2. Leased(q) /\ ~UnderLease(k) /\ ex[q].key \in Key /\ ex'[q] = ex[q]
  BY <1>1, WorkTypes DEF LeaseInv, Starting
<1>3. CASE ex[q].key = k
  <2>1. ex[q].pc \in {"call", "release", "clear", "record", "write", "fail", "fail_attempt",
                      "fail_folder"}
    BY WorkTypes DEF Place, Starting
  <2>2. Latest(q) => ~Holds(q)
    BY <1>2, <1>3, <2>1 DEF UnderLease, Holds
  <2>. QED
    BY <1>1, <1>2, <1>3, <2>2 DEF Leased, Starting, Latest, Holds
<1>4. CASE ex[q].key # k
  BY <1>1, <1>2, <1>4 DEF Leased, Starting, Latest, Holds, Writes
<1>. QED
  BY <1>3, <1>4

LEMMA LeaseNext == ASSUME OwnProcesses PROVE Inv /\ LeaseInv /\ [Next]_vars => LeaseInv'
<1>. SUFFICES ASSUME Inv, LeaseInv, [Next]_vars PROVE LeaseInv'
  OBVIOUS
<1>1. CASE UNCHANGED vars
  BY <1>1 DEF vars, LeaseInv, Leased, Starting, Latest, Holds
<1>2. ASSUME NEW p \in Task, Step(p) PROVE LeaseInv'
  <2>1. CASE ClaimRefused(p)
    BY <2>1, StopEffect, LeaseStop DEF ClaimRefused, Inv, SameLeases, StaysSlow
  <2>. QED
    BY <1>2, <2>1, LeaseReservations, LeaseCreate, LeaseClaim, LeaseRelease, LeaseClear, LeaseCall,
       LeaseRecord DEF Step
<1>. QED
  BY <1>1, <1>2, LeaseStart, LeaseCall, LeaseDbError, LeaseCrash, LeaseExpire
     DEF Next

\* Tasks in processes of their own never call Discord under the same attempt, as long as
\* no call outlives its lease.
THEOREM OneExecutorHolds == ASSUME OwnProcesses PROVE Spec => []OneExecutor
<1>1. Inv /\ LeaseInv => OneExecutor
  <2>. SUFFICES ASSUME Inv, LeaseInv, ~faults.slow, NEW p \in Task, NEW q \in Task,
                       InCall(p), InCall(q), ex[p].key = ex[q].key
                PROVE  p = q
    BY DEF OneExecutor
  <2>1. faults.slow = FALSE
    BY DEF Inv, TypeOK
  <2>2. Holds(p) /\ Holds(q)
    BY <2>1 DEF LeaseInv, Leased, Starting, InCall
  <2>. QED
    BY <2>2 DEF Holds, OwnProcesses
<1>. QED
  BY InitInv, LeaseInit, NextInv, LeaseNext, <1>1, PTL DEF Spec

-----------------------------------------------------------------------------
(* The enrichments.  Each task that may still post one, each task that may   *)
(* still make another one possible, and the possibility itself, is charged   *)
(* to the first enrichment or to a fault.                                    *)

Enriching(p, places) == ex[p].key = EnrichKey /\ ex[p].pc \in places

\* p is to succeed, unless a fault prevents it.
Good(p) ==
    /\ Enriching(p, {"call", "record", "write"}) /\ Latest(p) /\ Holds(p)
    /\ att[EnrichKey].status = "reserved" /\ att[EnrichKey].lease = "live"

\* p may still post; p has failed and may still fail the attempt of another task; p may
\* still clear the lease of another task.
Posts(p) == Enriching(p, {"call"})
Fails(p) == Enriching(p, {"release", "clear", "fail", "fail_attempt"}) /\ Latest(p)
Clears(p) ==
    /\ Enriching(p, {"call", "release", "clear"}) /\ Latest(p)
    /\ IF ex[p].pc = "clear" THEN ~(Holds(p) /\ att[EnrichKey].lease = "live")
                             ELSE Holds(p) /\ att[EnrichKey].lease # "live"

Posting  == {p \in Task : Posts(p)}
Failing  == {p \in Task : Fails(p)}
Clearing == {p \in Task : Clears(p)}

\* Another task may still take the attempt, or make a new one.
Open == att[EnrichKey].status # "succeeded" /\ \A p \in Task : ~Good(p)

Vacancy == IF Open THEN 1 ELSE 0
Charges == posts + Cardinality(Posting) + Cardinality(Failing) + Cardinality(Clearing) + Vacancy

\* An enrichment is attempted only of a folder that has its main message.
Settled == \A p \in Task : ex[p].key = EnrichKey /\ ex[p].pc # "reserve" => HasMain

Charged == Settled /\ Charges <= 1 + 2 * faults.n

EnrichInv == faults.stale = FALSE => Charged

LEMMA CountTypes ==
    ASSUME NEW S \in SUBSET Task
    PROVE  IsFiniteSet(S) /\ Cardinality(S) \in Nat
BY TaskAssumption, FS_Subset, FS_CardinalityType

LEMMA CountKeeps ==
    ASSUME NEW S \in SUBSET Task, NEW T \in SUBSET S
    PROVE  Cardinality(T) <= Cardinality(S)
BY CountTypes, FS_Subset

LEMMA CountGains ==
    ASSUME NEW S \in SUBSET Task, NEW p \in Task, NEW T \in SUBSET (S \cup {p})
    PROVE  Cardinality(T) <= Cardinality(S) + 1
<1>1. Cardinality(T) <= Cardinality(S \cup {p})
  BY CountKeeps
<1>2. Cardinality(S \cup {p}) <= Cardinality(S) + 1
  BY CountTypes, FS_AddElement
<1>. QED
  BY <1>1, <1>2, CountTypes

LEMMA CountLoses ==
    ASSUME NEW S \in SUBSET Task, NEW p \in S, NEW T \in SUBSET (S \ {p})
    PROVE  Cardinality(T) <= Cardinality(S) - 1
<1>1. Cardinality(T) <= Cardinality(S \ {p})
  BY CountKeeps
<1>2. Cardinality(S \ {p}) = Cardinality(S) - 1
  BY CountTypes, FS_RemoveElement
<1>. QED
  BY <1>1, <1>2

\* The charges, as numbers.
LEMMA ChargeTypes ==
    /\ Cardinality(Posting) \in Nat /\ Cardinality(Failing) \in Nat /\ Cardinality(Clearing) \in Nat
    /\ Cardinality(Posting)' \in Nat /\ Cardinality(Failing)' \in Nat
    /\ Cardinality(Clearing)' \in Nat
    /\ Vacancy \in {0, 1} /\ Vacancy' \in {0, 1}
<1>1. /\ Posting \in SUBSET Task /\ Failing \in SUBSET Task /\ Clearing \in SUBSET Task
      /\ Posting' \in SUBSET Task /\ Failing' \in SUBSET Task /\ Clearing' \in SUBSET Task
  BY DEF Posting, Failing, Clearing
<1>2. Vacancy \in {0, 1} /\ Vacancy' \in {0, 1}
  BY DEF Vacancy
<1>. QED
  BY <1>1, <1>2, CountTypes

\* A set of tasks that only p may have left or joined.
Differs(S, T, p) == \A q \in Task : q # p => (q \in T <=> q \in S)

LEMMA CountOf ==
    ASSUME NEW S \in SUBSET Task, NEW T \in SUBSET Task, NEW p \in Task, Differs(S, T, p)
    PROVE  Cardinality(T) = Cardinality(S) + (IF p \in T THEN 1 ELSE 0) - (IF p \in S THEN 1 ELSE 0)
<1>1. PICK R \in SUBSET Task :
        /\ p \notin R
        /\ (p \in S => S = R \cup {p}) /\ (p \notin S => S = R)
        /\ (p \in T => T = R \cup {p}) /\ (p \notin T => T = R)
  <2>. DEFINE R == S \ {p}
  <2>1. /\ R \in SUBSET Task /\ p \notin R
        /\ (p \in S => S = R \cup {p}) /\ (p \notin S => S = R)
        /\ (p \in T => T = R \cup {p}) /\ (p \notin T => T = R)
    BY DEF Differs
  <2>. HIDE DEF R
  <2>. QED
    BY <2>1
<1>2. Cardinality(R) \in Nat /\ Cardinality(R \cup {p}) = Cardinality(R) + 1
  BY <1>1, CountTypes, FS_AddElement
<1>3. Cardinality(S) = Cardinality(R) + (IF p \in S THEN 1 ELSE 0)
  <2>1. CASE p \in S
    BY <1>1, <1>2, <2>1
  <2>2. CASE p \notin S
    BY <1>1, <1>2, <2>2
  <2>. QED
    BY <2>1, <2>2
<1>4. Cardinality(T) = Cardinality(R) + (IF p \in T THEN 1 ELSE 0)
  <2>1. CASE p \in T
    BY <1>1, <1>2, <2>1
  <2>2. CASE p \notin T
    BY <1>1, <1>2, <2>2
  <2>. QED
    BY <2>1, <2>2
<1>. QED
  BY <1>2, <1>3, <1>4

\* A step of p that leaves the attempt of the enrichment alone changes the charges of p.
LEMMA ChargesOf ==
    ASSUME NEW p \in Task, Touches(p), att'[EnrichKey] = att[EnrichKey]
    PROVE  /\ Cardinality(Posting)' = Cardinality(Posting) + (IF Posts(p)' THEN 1 ELSE 0)
                                                           - (IF Posts(p) THEN 1 ELSE 0)
           /\ Cardinality(Failing)' = Cardinality(Failing) + (IF Fails(p)' THEN 1 ELSE 0)
                                                           - (IF Fails(p) THEN 1 ELSE 0)
           /\ Cardinality(Clearing)' = Cardinality(Clearing) + (IF Clears(p)' THEN 1 ELSE 0)
                                                             - (IF Clears(p) THEN 1 ELSE 0)
           /\ (Good(p) => Good(p)') => Vacancy' <= Vacancy
<1>1. ASSUME NEW q \in Task, q # p
      PROVE  /\ Posts(q)' <=> Posts(q)
             /\ Fails(q)' <=> Fails(q)
             /\ Clears(q)' <=> Clears(q)
             /\ Good(q)' <=> Good(q)
  BY <1>1 DEF Touches, Posts, Fails, Clears, Good, Enriching, Latest, Holds
<1>2. /\ Differs(Posting, Posting', p) /\ Differs(Failing, Failing', p)
      /\ Differs(Clearing, Clearing', p)
  BY <1>1 DEF Differs, Posting, Failing, Clearing
<1>3. /\ Posting \in SUBSET Task /\ Failing \in SUBSET Task /\ Clearing \in SUBSET Task
      /\ Posting' \in SUBSET Task /\ Failing' \in SUBSET Task /\ Clearing' \in SUBSET Task
      /\ p \in Posting <=> Posts(p)
      /\ p \in Posting' <=> Posts(p)'
      /\ p \in Failing <=> Fails(p)
      /\ p \in Failing' <=> Fails(p)'
      /\ p \in Clearing <=> Clears(p)
      /\ p \in Clearing' <=> Clears(p)'
  BY DEF Posting, Failing, Clearing
<1>4. Cardinality(Posting)' = Cardinality(Posting) + (IF Posts(p)' THEN 1 ELSE 0)
                                                   - (IF Posts(p) THEN 1 ELSE 0)
  BY <1>2, <1>3, CountOf
<1>5. Cardinality(Failing)' = Cardinality(Failing) + (IF Fails(p)' THEN 1 ELSE 0)
                                                   - (IF Fails(p) THEN 1 ELSE 0)
  BY <1>2, <1>3, CountOf
<1>6. Cardinality(Clearing)' = Cardinality(Clearing) + (IF Clears(p)' THEN 1 ELSE 0)
                                                     - (IF Clears(p) THEN 1 ELSE 0)
  BY <1>2, <1>3, CountOf
<1>7. (Good(p) => Good(p)') => Vacancy' <= Vacancy
  <2>1. ASSUME Good(p) => Good(p)', Open' PROVE Open
    BY <1>1, <2>1 DEF Open
  <2>. QED
    BY <2>1 DEF Vacancy
<1>. QED
  BY <1>4, <1>5, <1>6, <1>7

LEMMA EnrichInit == Init => EnrichInv
<1>. SUFFICES ASSUME Init PROVE Charged
  BY DEF EnrichInv
<1>1. \A p \in Task : ex[p].key # EnrichKey
  BY KeyTypes DEF Init, Idle, EnrichKey, NoKey
<1>2. Settled /\ Posting = {} /\ Failing = {} /\ Clearing = {}
  BY <1>1 DEF Settled, Posting, Failing, Clearing, Posts, Fails, Clears, Enriching
<1>3. Cardinality({}) = 0
  BY FS_EmptySet
<1>. QED
  BY <1>2, <1>3 DEF Init, Charged, Charges, Vacancy

\* p charges nothing more.
LEMMA EnrichQuiet ==
    ASSUME Inv, Inv', Charged, NEW p \in Task, Touches(p), att'[EnrichKey] = att[EnrichKey],
           posts' = posts, faults'.n = faults.n \/ Faulted,
           Posts(p)' => Posts(p), Fails(p)' => Fails(p), Clears(p)' => Clears(p),
           Faulted \/ (Good(p) => Good(p)')
    PROVE  Charges' <= 1 + 2 * faults'.n
<1>1. /\ posts \in Int /\ faults.n \in Int /\ faults'.n \in Int
      /\ Charges <= 1 + 2 * faults.n
  BY FaultAssumption DEF Inv, TypeOK, Charged
<1>2. /\ Cardinality(Posting)' <= Cardinality(Posting)
      /\ Cardinality(Failing)' <= Cardinality(Failing)
      /\ Cardinality(Clearing)' <= Cardinality(Clearing)
  BY ChargesOf, ChargeTypes
<1>3. CASE faults'.n = faults.n /\ (Good(p) => Good(p)')
  <2>1. Vacancy' <= Vacancy
    BY <1>3, ChargesOf
  <2>. QED
    BY <1>1, <1>2, <1>3, <2>1, ChargeTypes DEF Charges
<1>4. CASE Faulted
  BY <1>1, <1>2, <1>4, ChargeTypes DEF Charges, Faulted
<1>. QED
  BY <1>3, <1>4

\* p leaves its attempt, or works on another key.
LEMMA EnrichAside ==
    ASSUME Inv, Inv', Charged, NEW p \in Task, Touches(p), att'[EnrichKey] = att[EnrichKey],
           posts' = posts, faults'.n = faults.n \/ Faulted,
           Starting(p)' \/ ex'[p].key # EnrichKey,
           Faulted \/ ~Good(p)
    PROVE  Charges' <= 1 + 2 * faults'.n
<1>1. ~Posts(p)' /\ ~Fails(p)' /\ ~Clears(p)'
  BY DEF Starting, Posts, Fails, Clears, Enriching
<1>. QED
  BY <1>1, EnrichQuiet

LEMMA StartAttempt ==
    ASSUME Inv, NEW p \in Task, StartPublish(p) \/ StartEnrich(p) \/ StartResume(p)
    PROVE  /\ Touches(p) /\ ex[p].pc = "idle" /\ ex'[p].pc = "reserve"
           /\ UNCHANGED <<pub, att, posts, faults>>
<1>1. pub.main # NoMsg => ThreadKey(pub.main) \in Key
  BY KeyTypes DEF Inv, TypeOK, PubRow
<1>2. PICK c \in {"publish", "enrich", "resume"}, k \in Key : Start(p, c, k)
  BY <1>1, KeyTypes DEF StartPublish, StartEnrich, StartResume, HasMain
<1>. QED
  BY <1>2, StartEffect DEF Inv, Begins

\* What the reads of the reservations do to the enrichment.
LEMMA ReserveAttempt ==
    ASSUME Inv, NEW p \in Task,
           \/ ReservePublish(p) \/ ReservePublishHit(p) \/ ReserveThread(p) \/ ReserveThreadHit(p)
           \/ ReserveEnrich(p) \/ CreateRefused(p)
    PROVE  /\ Starting(p) /\ Touches(p) /\ Starting(p)'
           /\ UNCHANGED <<att, posts, faults>>
           /\ ex'[p].key = EnrichKey => ex'[p].pc = "reserve" \/ HasMain
<1>0. /\ Starting(p) /\ ex[p].key \in Key /\ UNCHANGED <<att, posts, faults>>
  BY WorkTypes DEF ReservePublish, ReservePublishHit, ReserveThread, ReserveThreadHit,
                   ReserveEnrich, CreateRefused, Creating, At, Starting
<1>. DEFINE Effect == /\ Touches(p) /\ Starting(p)'
                      /\ ex'[p].key = EnrichKey => ex'[p].pc = "reserve" \/ HasMain
<1>1. ASSUME Stops(p) PROVE Effect
  BY <1>1, KeyTypes DEF Stops, Starting, Idle, EnrichKey, NoKey
<1>2. ASSUME NEW k \in Key, Reserves(p, k) PROVE Effect
  BY <1>2 DEF Reserves, Starting
<1>3. ASSUME NEW next \in {"create", "open"}, ReadAttempt(p, ex[p].key, next),
             HasMain \/ ex[p].key # EnrichKey
      PROVE  Effect
  <2>1. Finds(p, next)
    BY <1>0, <1>3, ReadEffect DEF Inv
  <2>. QED
    BY <1>3, <2>1 DEF Finds, Joins, Starting
<1>. HIDE DEF Effect
<1>4. CASE ReservePublish(p)
  <2>1. ex[p].key = PublishKey /\ ex[p].key # EnrichKey
    BY <1>0, <1>4, KeyTypes DEF ReservePublish, At, PublishKey, EnrichKey
  <2>2. ReadAttempt(p, ex[p].key, "create") \/ ReadAttempt(p, ex[p].key, "open")
    BY <1>4, <2>1 DEF ReservePublish
  <2>3. Effect
    BY <1>3, <2>1, <2>2
  <2>. QED
    BY <1>0, <2>3 DEF Effect
<1>5. CASE ReservePublishHit(p)
  <2>1. pub.main \in Msg
    BY <1>5 DEF ReservePublishHit, HasMain, Inv, TypeOK, PubRow
  <2>2. Effect
    BY <1>1, <1>2, <1>5, <2>1, StopEffect, ReservingEffect, KeyTypes
       DEF ReservePublishHit, Inv, Effect
  <2>. QED
    BY <1>0, <2>2 DEF Effect
<1>6. CASE ReserveThread(p)
  <2>1. Effect
    BY <1>3, <1>6 DEF ReserveThread
  <2>. QED
    BY <1>0, <2>1 DEF Effect
<1>7. CASE ReserveThreadHit(p)
  <2>1. Effect
    BY <1>1, <1>2, <1>7, StopEffect, AfterThreadEffect, KeyTypes
       DEF ReserveThreadHit, Inv, AfterThreads, Effect
  <2>. QED
    BY <1>0, <2>1 DEF Effect
<1>8. CASE ReserveEnrich(p)
  <2>1. ex[p].key = EnrichKey
    BY <1>0, <1>8, KeyTypes DEF ReserveEnrich, At
  <2>2. Effect
    BY <1>1, <1>3, <1>8, <2>1, StopEffect DEF ReserveEnrich, Inv, Effect
  <2>. QED
    BY <1>0, <2>2 DEF Effect
<1>9. CASE CreateRefused(p)
  <2>1. Effect
    BY <1>1, <1>9, StopEffect DEF CreateRefused, Inv, Effect
  <2>. QED
    BY <1>0, <2>1 DEF Effect
<1>. QED
  BY <1>4, <1>5, <1>6, <1>7, <1>8, <1>9

\* A new attempt: whoever worked on the old one has nothing to fail or to clear.
LEMMA EnrichNew ==
    ASSUME Inv, Inv', Charged, NEW p \in Task, ex[p].key = EnrichKey, CreateAttempt(p)
    PROVE  Charges' <= 1 + 2 * faults'.n
<1>0. faults'.n = faults.n /\ posts' = posts
  BY KeyTypes, CreateEffect DEF Inv, Rewrites
<1>1. PICK n \in Num :
        /\ Joins(p, "claim", n) /\ Unused(EnrichKey, n) /\ ~ActiveAttempt(EnrichKey)
        /\ att'[EnrichKey] = [num |-> n, status |-> "reserved", holder |-> NoHolder,
                              lease |-> "none"]
  BY KeyTypes, CreateEffect DEF Inv
<1>2. Open
  BY <1>1 DEF ActiveAttempt, Open, Good
<1>3. Posting' \subseteq Posting
  BY <1>1 DEF Posting, Posts, Enriching, Joins, Touches
<1>4. ASSUME NEW q \in Task, ex'[q].key = EnrichKey, Latest(q)' PROVE ex'[q].pc = "claim"
  <2>1. CASE q = p
    BY <1>1, <2>1 DEF Joins
  <2>2. CASE q # p
    BY <1>1, <1>4, <2>2 DEF Joins, Touches, Latest, Unused
  <2>. QED
    BY <2>1, <2>2
<1>5. Failing' \subseteq Failing /\ Clearing' \subseteq Clearing
  BY <1>4 DEF Failing, Clearing, Fails, Clears, Enriching
<1>6. /\ Cardinality(Posting)' <= Cardinality(Posting)
      /\ Cardinality(Failing)' <= Cardinality(Failing)
      /\ Cardinality(Clearing)' <= Cardinality(Clearing)
  <2>1. /\ Posting \in SUBSET Task /\ Failing \in SUBSET Task /\ Clearing \in SUBSET Task
    BY DEF Posting, Failing, Clearing
  <2>. QED
    BY <1>3, <1>5, <2>1, CountKeeps
<1>7. posts \in Int /\ faults.n \in Int /\ Charges <= 1 + 2 * faults.n
  BY FaultAssumption DEF Inv, TypeOK, Charged
<1>8. Vacancy = 1
  BY <1>2 DEF Vacancy
<1>. QED
  BY <1>0, <1>6, <1>7, <1>8, ChargeTypes DEF Charges

\* An attempt of another key, or of the enrichment.
LEMMA EnrichCreate ==
    ASSUME Inv, Inv', Charged, NEW p \in Task, CreateAttempt(p)
    PROVE  Charges' <= 1 + 2 * faults'.n
<1>1. ex[p].key \in Key /\ ex[p].pc \in {"create", "open"}
  BY WorkTypes DEF CreateAttempt, Creating
<1>2. CASE ex[p].key # EnrichKey
  <2>1. PICK n \in Num : Joins(p, "claim", n) /\ Writes(ex[p].key)
    BY <1>1, CreateEffect DEF Inv
  <2>2. faults'.n = faults.n /\ posts' = posts
    BY <1>1, CreateEffect DEF Inv, Rewrites
  <2>3. Touches(p) /\ ex'[p].key # EnrichKey /\ att'[EnrichKey] = att[EnrichKey]
    BY <1>2, <2>1, KeyTypes DEF Joins, Writes
  <2>. QED
    BY <1>2, <2>2, <2>3, EnrichAside DEF Good, Enriching
<1>. QED
  BY <1>2, EnrichNew

\* The claim of a lease takes the vacancy.
LEMMA EnrichClaim ==
    ASSUME OwnProcesses, Inv, Inv', Charged, NEW p \in Task, Claim(p), ex[p].key = EnrichKey
    PROVE  Charges' <= 1 + 2 * faults'.n
<1>1. /\ Goes(p, "call") /\ ex[p].pc = "claim"
      /\ att'[EnrichKey].num = att[EnrichKey].num
      /\ att'[EnrichKey].status = "reserved" /\ att[EnrichKey].status = "reserved"
      /\ att'[EnrichKey].holder = HolderOf[p] /\ att'[EnrichKey].lease = "live"
      /\ Latest(p)
      /\ att[EnrichKey].holder \in {NoHolder, HolderOf[p]} \/ att[EnrichKey].lease = "expired"
      /\ UNCHANGED <<posts, faults>>
  <2>1. /\ Goes(p, "call")
        /\ att'[EnrichKey].num = att[EnrichKey].num
        /\ att'[EnrichKey].status = att[EnrichKey].status
        /\ att'[EnrichKey].holder = HolderOf[p] /\ att'[EnrichKey].lease = "live"
    BY ClaimEffect, KeyTypes DEF Inv
  <2>. QED
    BY <2>1 DEF Claim, Claimable
<1>2. ASSUME NEW q \in Task, q # p
      PROVE  /\ ex'[q] = ex[q] /\ HolderOf[q] # HolderOf[p] /\ HolderOf[q] # NoHolder
             /\ ex[q].key = EnrichKey => (Latest(q)' <=> Latest(q)) /\ ~Holds(q)'
             /\ ex[q].key = EnrichKey => ~(Holds(q) /\ att[EnrichKey].lease = "live")
  BY <1>1, <1>2, TaskAssumption DEF Goes, Touches, OwnProcesses, Latest, Holds
<1>3. Open
  <2>1. ASSUME NEW q \in Task PROVE ~Good(q)
    BY <1>1, <1>2 DEF Good, Enriching
  <2>. QED
    BY <1>1, <2>1 DEF Open
<1>4. ~Open'
  <2>1. Good(p)'
    BY <1>1 DEF Good, Enriching, Goes, SameWork, Latest, Holds
  <2>. QED
    BY <2>1 DEF Open
<1>5. Posting' \subseteq Posting \cup {p}
  BY <1>2 DEF Posting, Posts, Enriching
<1>6. Failing' \subseteq Failing
  <2>1. ~Fails(p)'
    BY <1>1 DEF Fails, Enriching, Goes
  <2>2. ASSUME NEW q \in Task, q # p PROVE Fails(q)' => Fails(q)
    BY <1>2, <2>2 DEF Fails, Enriching
  <2>. QED
    BY <2>1, <2>2 DEF Failing
<1>7. Clearing' \subseteq Clearing
  <2>1. ~Clears(p)'
    BY <1>1 DEF Clears, Enriching, Goes, SameWork, Holds
  <2>2. ASSUME NEW q \in Task, q # p PROVE Clears(q)' => Clears(q)
    BY <1>2, <2>2 DEF Clears, Enriching
  <2>. QED
    BY <2>1, <2>2 DEF Clearing
<1>8. /\ Cardinality(Posting)' <= Cardinality(Posting) + 1
      /\ Cardinality(Failing)' <= Cardinality(Failing)
      /\ Cardinality(Clearing)' <= Cardinality(Clearing)
  <2>1. /\ Posting \in SUBSET Task /\ Failing \in SUBSET Task /\ Clearing \in SUBSET Task
    BY DEF Posting, Failing, Clearing
  <2>. QED
    BY <1>5, <1>6, <1>7, <2>1, CountKeeps, CountGains
<1>9. posts \in Int /\ faults.n \in Int /\ Charges <= 1 + 2 * faults.n
  BY FaultAssumption DEF Inv, TypeOK, Charged
<1>10. Vacancy = 1 /\ Vacancy' = 0
  BY <1>3, <1>4 DEF Vacancy
<1>. QED
  BY <1>1, <1>8, <1>9, <1>10, ChargeTypes DEF Charges

\* A call: the task that could post has posted, or is charged to the fault.
LEMMA EnrichCall ==
    ASSUME Inv, Inv', Charged, NEW p \in Task, ex[p].key = EnrichKey,
           CallDiscord(p) \/ CallFails(p) \/ CallAnswerLost(p)
    PROVE  Charges' <= 1 + 2 * faults'.n
<1>0. /\ ex[p].pc = "call" /\ ex[p].key \in Key /\ UNCHANGED att
      /\ posts \in Int /\ faults.n \in Int /\ Charges <= 1 + 2 * faults.n
  BY KeyTypes, FaultAssumption DEF CallDiscord, CallFails, CallAnswerLost, Inv, TypeOK, Charged
<1>1. Posts(p) /\ ~Fails(p)
  BY <1>0 DEF Posts, Fails, Enriching
<1>2. CASE CallDiscord(p)
  <2>1. Goes(p, "record") /\ posts' = posts + 1 /\ UNCHANGED faults
    BY <1>0, <1>2, CallEffect, KeyTypes
       DEF Inv, CallDiscord, Delivers, PublishKey, EnrichKey, Kind
  <2>2. ~Posts(p)' /\ ~Fails(p)' /\ ~Clears(p)' /\ (Good(p) => Good(p)')
    BY <1>0, <2>1 DEF Goes, SameWork, Posts, Fails, Clears, Good, Enriching, Latest, Holds
  <2>3. /\ Cardinality(Posting)' = Cardinality(Posting) - 1
        /\ Cardinality(Failing)' = Cardinality(Failing)
        /\ Cardinality(Clearing)' <= Cardinality(Clearing)
        /\ Vacancy' <= Vacancy
    BY <1>0, <1>1, <2>1, <2>2, ChargesOf, ChargeTypes DEF Goes
  <2>. QED
    BY <1>0, <2>1, <2>3, ChargeTypes DEF Charges
<1>3. CASE CallFails(p) \/ CallAnswerLost(p)
  <2>1. Releases(p, "fail") /\ Faulted /\ posts' \in {posts, posts + 1}
    BY <1>0, <1>3, ReleasingEffect, FaultEffect, DeliverEffect
       DEF CallFails, CallAnswerLost, Inv, Then, Delivers
  <2>2. ~Posts(p)' /\ (Clears(p)' => Clears(p))
    BY <1>0, <2>1 DEF Releases, SameWork, Posts, Clears, Enriching, Latest, Holds
  <2>3. /\ Cardinality(Posting)' = Cardinality(Posting) - 1
        /\ Cardinality(Failing)' <= Cardinality(Failing) + 1
        /\ Cardinality(Clearing)' <= Cardinality(Clearing)
    BY <1>0, <1>1, <2>1, <2>2, ChargesOf, ChargeTypes DEF Releases
  <2>. QED
    BY <1>0, <2>1, <2>3, ChargeTypes DEF Charges, Faulted
<1>. QED
  BY <1>2, <1>3

\* After the release of a lease.
LEMMA EnrichAfter ==
    ASSUME Inv, Inv', Charged, NEW p \in Task, AfterReleases(p),
           ex[p].pc \in {"release", "clear"}, att'[EnrichKey] = att[EnrichKey], posts' = posts,
           faults'.n = faults.n \/ Faulted
    PROVE  Charges' <= 1 + 2 * faults'.n
<1>1. ~Good(p)
  BY DEF Good, Enriching
<1>2. CASE (ex[p].then = "continue" /\ AfterThreads(p)) \/ Stops(p)
  <2>1. Touches(p) /\ Starting(p)'
    BY <1>2 DEF AfterThreads, Reserves, Stops, Starting, Idle
  <2>. QED
    BY <1>1, <2>1, EnrichAside
<1>3. CASE ex[p].then \in {"record", "fail"} /\ Goes(p, ex[p].then)
  <2>1. ~Posts(p)' /\ ~Clears(p)'
    BY <1>3 DEF Goes, Posts, Clears, Enriching
  <2>2. Fails(p)' => Fails(p)
    BY <1>3 DEF Goes, SameWork, Fails, Enriching, Latest
  <2>. QED
    BY <1>1, <1>3, <2>1, <2>2, EnrichQuiet DEF Goes
<1>. QED
  BY <1>2, <1>3 DEF AfterReleases

LEMMA EnrichShrinks ==
    ASSUME Inv, Inv', Charged, posts' = posts,
           Posting' \subseteq Posting, Failing' \subseteq Failing, Clearing' \subseteq Clearing,
           Faulted \/ (faults'.n = faults.n /\ (Open' => Open))
    PROVE  Charges' <= 1 + 2 * faults'.n
<1>1. /\ Cardinality(Posting)' <= Cardinality(Posting)
      /\ Cardinality(Failing)' <= Cardinality(Failing)
      /\ Cardinality(Clearing)' <= Cardinality(Clearing)
  <2>1. /\ Posting \in SUBSET Task /\ Failing \in SUBSET Task /\ Clearing \in SUBSET Task
    BY DEF Posting, Failing, Clearing
  <2>. QED
    BY <2>1, CountKeeps
<1>2. posts \in Int /\ faults.n \in Int /\ Charges <= 1 + 2 * faults.n
  BY FaultAssumption DEF Inv, TypeOK, Charged
<1>3. CASE Faulted
  BY <1>1, <1>2, <1>3, ChargeTypes DEF Charges, Faulted
<1>4. CASE faults'.n = faults.n /\ (Open' => Open)
  <2>1. Vacancy' <= Vacancy
    BY <1>4 DEF Vacancy
  <2>. QED
    BY <1>1, <1>2, <1>4, <2>1, ChargeTypes DEF Charges
<1>. QED
  BY <1>3, <1>4

\* A task clears its own lease, or takes the lease of another one back: then it was
\* charged for that, and the other one is charged instead.
LEMMA EnrichClear ==
    ASSUME OwnProcesses, Inv, Inv', Charged, NEW p \in Task, ClearLease(p),
           ex[p].key = EnrichKey, Latest(p)
    PROVE  Charges' <= 1 + 2 * faults'.n
<1>1. /\ ex[p].pc = "clear" /\ AfterReleases(p) /\ UNCHANGED <<posts, faults>>
      /\ att'[EnrichKey].num = att[EnrichKey].num
      /\ att'[EnrichKey].status = att[EnrichKey].status
      /\ att'[EnrichKey].holder = NoHolder
  <2>1. TypeOK /\ EnrichKey \in Key
    BY KeyTypes DEF Inv
  <2>2. /\ AfterReleases(p)
        /\ att'[EnrichKey].num = att[EnrichKey].num
        /\ att'[EnrichKey].status = att[EnrichKey].status
        /\ att'[EnrichKey].holder = NoHolder
    BY <2>1, ClearEffect
  <2>. QED
    BY <2>2 DEF ClearLease
<1>2. /\ Touches(p)
      /\ Starting(p)' \/ (ex'[p].pc \in {"record", "fail"} /\ ex'[p].key = EnrichKey
                                                         /\ ex'[p].num = ex[p].num)
  BY <1>1 DEF AfterReleases, AfterThreads, Reserves, Stops, Goes, SameWork, Starting, Idle
<1>3. /\ Posting \in SUBSET Task /\ Failing \in SUBSET Task /\ Clearing \in SUBSET Task
      /\ \A q \in Task : ~Holds(q)' \/ ex'[q].key # EnrichKey
      /\ \A q \in Task : q # p => HolderOf[q] # HolderOf[p] /\ ex'[q] = ex[q]
  BY <1>1, <1>2, TaskAssumption
     DEF Posting, Failing, Clearing, Holds, Touches, OwnProcesses
<1>4. Posting' \subseteq Posting
  BY <1>2, <1>3 DEF Posting, Posts, Enriching, Starting
<1>5. Failing' \subseteq Failing
  <2>1. Fails(p)
    BY <1>1 DEF Fails, Enriching
  <2>2. ASSUME NEW q \in Task, q # p PROVE Fails(q)' => Fails(q)
    BY <1>1, <1>3, <2>2 DEF Fails, Enriching, Latest
  <2>. QED
    BY <2>1, <2>2 DEF Failing
<1>6. ~Clears(p)'
  BY <1>2 DEF Clears, Enriching, Starting
<1>7. Open' <=> att[EnrichKey].status # "succeeded"
  BY <1>1, <1>3 DEF Open, Good, Enriching
<1>8. posts \in Int /\ faults.n \in Int /\ Charges <= 1 + 2 * faults.n
  BY FaultAssumption DEF Inv, TypeOK, Charged
<1>9. /\ Cardinality(Posting)' <= Cardinality(Posting)
      /\ Cardinality(Failing)' <= Cardinality(Failing)
  BY <1>3, <1>4, <1>5, CountKeeps
\* A task that is in Clearing afterwards and was not before.
<1>10. ASSUME NEW q \in Task, q # p, Clears(q)', ~Clears(q)
       PROVE  /\ ex[q].key = EnrichKey /\ ex[q].pc = "clear"
              /\ Holds(q) /\ att[EnrichKey].lease = "live"
  BY <1>1, <1>3, <1>10 DEF Clears, Enriching, Latest
<1>11. CASE Clears(p) /\ \E q \in Task : q # p /\ Clears(q)' /\ ~Clears(q)
  <2>1. PICK q \in Task : q # p /\ Clears(q)' /\ ~Clears(q)
    BY <1>11
  <2>2. ASSUME NEW r \in Task, ex[r].key = EnrichKey, Holds(r) PROVE r = q
    BY <1>10, <2>1, <2>2 DEF Holds, OwnProcesses
  <2>3. Clearing' \subseteq (Clearing \ {p}) \cup {q}
    BY <1>6, <1>10, <2>2 DEF Clearing
  <2>4. Cardinality(Clearing)' <= Cardinality(Clearing)
    <3>1. Cardinality(Clearing \ {p}) <= Cardinality(Clearing) - 1
      BY <1>3, <1>11, CountLoses DEF Clearing
    <3>2. Cardinality(Clearing') <= Cardinality(Clearing \ {p}) + 1
      BY <1>3, <2>3, CountGains
    <3>3. Cardinality(Clearing \ {p}) \in Nat
      BY <1>3, CountTypes
    <3>. QED
      BY <3>1, <3>2, <3>3, ChargeTypes
  <2>5. \A r \in Task : ~Good(r)
    BY <1>10, <2>1, <2>2 DEF Good, Enriching
  <2>6. Vacancy' = Vacancy
    BY <1>7, <2>5 DEF Vacancy, Open
  <2>. QED
    BY <1>1, <1>8, <1>9, <2>4, <2>6, ChargeTypes DEF Charges
<1>12. CASE Clears(p) /\ ~\E q \in Task : q # p /\ Clears(q)' /\ ~Clears(q)
  <2>1. Clearing' \subseteq Clearing \ {p}
    BY <1>6, <1>12 DEF Clearing
  <2>2. Cardinality(Clearing)' <= Cardinality(Clearing) - 1
    BY <1>3, <1>12, <2>1, CountLoses DEF Clearing
  <2>. QED
    BY <1>1, <1>8, <1>9, <2>2, ChargeTypes DEF Charges
<1>13. CASE ~Clears(p)
  <2>1. Holds(p) /\ att[EnrichKey].lease = "live"
    BY <1>1, <1>13 DEF Clears, Enriching
  <2>2. ASSUME NEW q \in Task, q # p, ex[q].key = EnrichKey PROVE ~Holds(q)
    BY <1>3, <2>1, <2>2 DEF Holds
  <2>3. Clearing' \subseteq Clearing
    BY <1>6, <1>10, <2>2 DEF Clearing
  <2>4. \A r \in Task : ~Good(r)
    BY <1>1, <2>2 DEF Good, Enriching
  <2>5. Open' => Open
    BY <1>7, <2>4 DEF Open
  <2>. QED
    BY <1>1, <1>4, <1>5, <2>3, <2>5, EnrichShrinks
<1>. QED
  BY <1>11, <1>12, <1>13

LEMMA EnrichLease ==
    ASSUME OwnProcesses, Inv, Inv', Charged, NEW p \in Task,
           Claim(p) \/ ClaimRefused(p) \/ ReleaseLease(p) \/ ClearLease(p)
    PROVE  Charges' <= 1 + 2 * faults'.n
<1>0. ex[p].key \in Key /\ UNCHANGED <<posts, faults>>
  BY WorkTypes DEF Claim, ClaimRefused, ReleaseLease, ClearLease
<1>1. ~Good(p)
  BY DEF Claim, ClaimRefused, ReleaseLease, ClearLease, Good, Enriching
<1>2. CASE Claim(p)
  <2>1. CASE ex[p].key = EnrichKey
    BY <1>2, <2>1, EnrichClaim
  <2>2. CASE ex[p].key # EnrichKey
    <3>1. Touches(p) /\ ex'[p].key = ex[p].key /\ att'[EnrichKey] = att[EnrichKey]
      BY <1>0, <1>2, <2>2, ClaimEffect, KeyTypes DEF Inv, Goes, SameWork, Writes
    <3>. QED
      BY <1>0, <1>1, <2>2, <3>1, EnrichAside
  <2>. QED
    BY <2>1, <2>2
<1>3. CASE ClaimRefused(p)
  <2>1. Touches(p) /\ Starting(p)' /\ UNCHANGED att
    BY <1>3, StopEffect DEF ClaimRefused, Inv, Stops, Starting, Idle
  <2>. QED
    BY <1>0, <1>1, <2>1, EnrichAside
<1>4. CASE ReleaseLease(p)
  <2>1. UNCHANGED att /\ ex[p].pc = "release"
    BY <1>4 DEF ReleaseLease
  <2>2. CASE Holds(p) /\ GoTo(p, "clear")
    <3>1. Goes(p, "clear")
      BY <2>2, GoToEffect DEF Inv, Place
    <3>2. ~Posts(p)' /\ (Fails(p)' => Fails(p)) /\ (Clears(p)' => Clears(p))
      BY <2>1, <2>2, <3>1
         DEF Goes, SameWork, Posts, Fails, Clears, Enriching, Latest, Holds
    <3>. QED
      BY <1>0, <1>1, <2>1, <3>1, <3>2, EnrichQuiet DEF Goes
  <2>3. CASE AfterRelease(p)
    BY <1>0, <2>1, <2>3, AfterReleaseEffect, EnrichAfter DEF Inv
  <2>. QED
    BY <1>4, <2>2, <2>3 DEF ReleaseLease, Holds
<1>5. CASE ClearLease(p)
  <2>1. CASE ex[p].key = EnrichKey /\ Latest(p)
    BY <1>5, <2>1, EnrichClear
  <2>2. CASE ~(ex[p].key = EnrichKey /\ Latest(p))
    <3>1. AfterReleases(p) /\ ex[p].pc = "clear" /\ att'[EnrichKey] = att[EnrichKey]
      BY <1>0, <1>5, <2>2, ClearEffect, KeyTypes DEF Inv, ClearLease, Writes
    <3>. QED
      BY <1>0, <3>1, EnrichAfter
  <2>. QED
    BY <2>1, <2>2
<1>. QED
  BY <1>2, <1>3, <1>4, <1>5

LEMMA EnrichCalls ==
    ASSUME Inv, Inv', Charged, NEW p \in Task,
           CallDiscord(p) \/ CallFails(p) \/ CallAnswerLost(p) \/ ThreadExists(p)
    PROVE  Charges' <= 1 + 2 * faults'.n
<1>0. ex[p].key \in Key /\ UNCHANGED att
  BY WorkTypes DEF CallDiscord, CallFails, CallAnswerLost, ThreadExists, At
<1>1. CASE ex[p].key = EnrichKey
  <2>1. ~ThreadExists(p)
    BY <1>1, KeyTypes DEF ThreadExists, At, EnrichKey, Kind
  <2>. QED
    BY <1>1, <2>1, EnrichCall
<1>2. CASE ex[p].key # EnrichKey
  <2>1. Touches(p) /\ ex'[p].key = ex[p].key
    <3>1. CASE CallDiscord(p)
      BY <1>0, <3>1, CallEffect DEF Inv, Goes, SameWork
    <3>2. CASE ~CallDiscord(p)
      BY <3>2, ReleasingEffect
         DEF CallFails, CallAnswerLost, ThreadExists, Inv, Then, Releases, SameWork
    <3>. QED
      BY <3>1, <3>2
  <2>2. faults'.n = faults.n \/ Faulted
    BY FaultEffect DEF CallDiscord, CallFails, CallAnswerLost, ThreadExists, Inv
  <2>3. posts' = posts
    BY <1>0, <1>2, DeliverEffect
       DEF CallDiscord, CallFails, CallAnswerLost, ThreadExists, Delivers
  <2>4. ~Good(p)
    BY <1>2 DEF Good, Enriching
  <2>. QED
    BY <1>0, <1>2, <2>1, <2>2, <2>3, <2>4, EnrichAside
<1>. QED
  BY <1>1, <1>2

\* The record of an enrichment closes it, as the folder still has its main message.
LEMMA EnrichRead ==
    ASSUME Inv, Inv', Charged, NEW p \in Task, RecordEnrich(p)
    PROVE  Charges' <= 1 + 2 * faults'.n
<1>1. ex[p].key = EnrichKey /\ ex[p].pc = "record" /\ UNCHANGED <<att, posts, faults>>
  BY WorkTypes, KeyTypes DEF RecordEnrich, At
<1>2. Goes(p, "write")
  <2>1. HasMain
    BY <1>1 DEF Charged, Settled
  <2>. QED
    BY <2>1, GoToEffect DEF RecordEnrich, Inv, Place
<1>3. ~Posts(p)' /\ ~Fails(p)' /\ ~Clears(p)'
  BY <1>2 DEF Goes, Posts, Fails, Clears, Enriching
<1>4. Good(p) => Good(p)'
  BY <1>1, <1>2 DEF Goes, SameWork, Good, Enriching, Latest, Holds
<1>. QED
  BY <1>1, <1>2, <1>3, <1>4, EnrichQuiet DEF Goes

LEMMA EnrichRecord ==
    ASSUME Inv, Inv', Charged, NEW p \in Task, WriteEnrich(p)
    PROVE  Charges' <= 1 + 2 * faults'.n
<1>1. /\ ex[p].key = EnrichKey /\ ex[p].pc = "write" /\ Stops(p) /\ Succeed(p)
      /\ UNCHANGED <<posts, faults>>
  BY WorkTypes, KeyTypes, StopEffect DEF WriteEnrich, At, Inv
<1>2. CASE Marks(EnrichKey, "succeeded")
  <2>1. ~Posts(p)' /\ ~Fails(p)' /\ ~Clears(p)'
    BY <1>1 DEF Stops, Idle, Posts, Fails, Clears, Enriching
  <2>2. ASSUME NEW q \in Task, q # p
        PROVE  (Posts(q)' => Posts(q)) /\ (Fails(q)' => Fails(q)) /\ (Clears(q)' => Clears(q))
    BY <1>1, <1>2, <2>2 DEF Stops, Touches, Marks, Posts, Fails, Clears, Enriching, Latest, Holds
  <2>3. Posting' \subseteq Posting /\ Failing' \subseteq Failing /\ Clearing' \subseteq Clearing
    BY <2>1, <2>2 DEF Posting, Failing, Clearing
  <2>4. ~Open'
    BY <1>2 DEF Open, Marks
  <2>. QED
    BY <1>1, <2>3, <2>4, EnrichShrinks
<1>3. CASE ~(Latest(p) /\ att[EnrichKey].status = "reserved") /\ UNCHANGED att
  <2>1. ~Good(p)
    BY <1>3 DEF Good
  <2>. QED
    BY <1>1, <1>3, <2>1, EnrichAside DEF Stops, Starting, Idle
<1>. QED
  BY <1>1, <1>2, <1>3, SucceedEffect, KeyTypes DEF Inv

\* The failure that was read is still to be written, of an enrichment or of another key.
LEMMA EnrichFailing ==
    ASSUME Inv, Inv', Charged, NEW p \in Task, RecordFailure(p)
    PROVE  Charges' <= 1 + 2 * faults'.n
<1>1. /\ ex[p].pc = "fail" /\ ex[p].key \in Key /\ UNCHANGED <<att, posts, faults>>
  BY WorkTypes, FailureEffect DEF RecordFailure, Inv
<1>2. ~Good(p)
  BY <1>1 DEF Good, Enriching
<1>3. CASE Stops(p)
  BY <1>1, <1>2, <1>3, EnrichAside DEF Stops, Starting, Idle
<1>4. CASE Goes(p, "fail_attempt") \/ Goes(p, "fail_folder")
  <2>1. Touches(p) /\ ~Posts(p)' /\ ~Clears(p)'
    BY <1>4 DEF Goes, Posts, Clears, Enriching
  <2>2. Fails(p)' => Fails(p)
    BY <1>1, <1>4 DEF Goes, SameWork, Fails, Enriching, Latest
  <2>. QED
    BY <1>1, <1>2, <2>1, <2>2, EnrichQuiet
<1>. QED
  BY <1>3, <1>4, FailureEffect DEF Inv

\* A failed attempt may be one that had succeeded, or that of a task which is to succeed:
\* the charge of p pays for the enrichment that is open again.
LEMMA EnrichFailure ==
    ASSUME Inv, Inv', Charged, NEW p \in Task, WriteFailure(p)
    PROVE  Charges' <= 1 + 2 * faults'.n
<1>1. ex[p].key \in Key /\ ex[p].pc \in {"fail_attempt", "fail_folder"}
  BY WorkTypes DEF WriteFailure
<1>2. Stops(p) /\ posts' = posts /\ faults'.n = faults.n
  BY <1>1, WriteFailureEffect DEF Inv, Rewrites
<1>3. Touches(p) /\ Starting(p)' /\ ~Good(p)
  BY <1>1, <1>2 DEF Stops, Starting, Idle, Good, Enriching
<1>4. CASE att'[EnrichKey] = att[EnrichKey]
  BY <1>2, <1>3, <1>4, EnrichAside
<1>5. CASE ex[p].key = EnrichKey /\ Latest(p) /\ Marks(EnrichKey, "failed")
  <2>0. ex[p].pc = "fail_attempt"
    BY <1>1, <1>5, KeyTypes DEF Inv, Work, PublishKey, EnrichKey
  <2>1. Fails(p) /\ ~Posts(p)' /\ ~Fails(p)' /\ ~Clears(p)'
    BY <1>3, <1>5, <2>0 DEF Posts, Fails, Clears, Enriching, Starting
  <2>2. ASSUME NEW q \in Task, q # p
        PROVE  (Posts(q)' => Posts(q)) /\ (Fails(q)' => Fails(q)) /\ (Clears(q)' => Clears(q))
    BY <1>3, <1>5, <2>2 DEF Touches, Marks, Posts, Fails, Clears, Enriching, Latest, Holds
  <2>3. /\ Posting' \subseteq Posting /\ Failing' \subseteq Failing \ {p} /\ p \in Failing
        /\ Clearing' \subseteq Clearing
        /\ Posting \in SUBSET Task /\ Failing \in SUBSET Task /\ Clearing \in SUBSET Task
    BY <2>1, <2>2 DEF Posting, Failing, Clearing
  <2>4. /\ Cardinality(Posting)' <= Cardinality(Posting)
        /\ Cardinality(Failing)' <= Cardinality(Failing) - 1
        /\ Cardinality(Clearing)' <= Cardinality(Clearing)
    BY <2>3, CountKeeps, CountLoses
  <2>5. posts \in Int /\ faults.n \in Int /\ Charges <= 1 + 2 * faults.n
    BY FaultAssumption DEF Inv, TypeOK, Charged
  <2>. QED
    BY <1>2, <2>4, <2>5, ChargeTypes DEF Charges
<1>6. att'[EnrichKey] = att[EnrichKey]
          \/ (ex[p].key = EnrichKey /\ Latest(p) /\ Marks(EnrichKey, "failed"))
  BY <1>1, WriteFailureEffect, KeyTypes DEF Inv, Marks, Writes
<1>. QED
  BY <1>4, <1>5, <1>6

LEMMA EnrichOther ==
    ASSUME Inv, Inv', Charged, NEW p \in Task,
           \/ StartPublish(p) \/ StartEnrich(p) \/ StartResume(p)
           \/ ReservePublish(p) \/ ReservePublishHit(p) \/ ReserveThread(p) \/ ReserveThreadHit(p)
           \/ ReserveEnrich(p) \/ CreateRefused(p)
    PROVE  Charges' <= 1 + 2 * faults'.n
<1>1. CASE StartPublish(p) \/ StartEnrich(p) \/ StartResume(p)
  BY <1>1, StartAttempt, EnrichAside DEF Starting, Good, Enriching
<1>2. CASE \/ ReservePublish(p) \/ ReservePublishHit(p) \/ ReserveThread(p)
           \/ ReserveThreadHit(p) \/ ReserveEnrich(p) \/ CreateRefused(p)
  BY <1>2, ReserveAttempt, EnrichAside DEF Starting, Good, Enriching
<1>. QED
  BY <1>1, <1>2

\* The records of the main message and of its thread.
LEMMA EnrichRecords ==
    ASSUME Inv, Inv', Charged, NEW p \in Task,
           RecordMain(p) \/ RecordThread(p) \/ WriteMain(p) \/ WriteThread(p)
    PROVE  Charges' <= 1 + 2 * faults'.n
<1>1. /\ ex[p].key \in Key /\ ex[p].key # EnrichKey /\ UNCHANGED <<posts, faults>>
  BY WorkTypes, KeyTypes DEF RecordMain, RecordThread, WriteMain, WriteThread, At
<1>2. ~Good(p)
  BY <1>1 DEF Good, Enriching
<1>3. att'[EnrichKey] = att[EnrichKey]
  BY <1>1, SucceedEffect, KeyTypes
     DEF RecordMain, RecordThread, WriteMain, WriteThread, Inv, Marks, Writes
<1>4. Touches(p) /\ (Starting(p)' \/ ex'[p].key = ex[p].key)
  <2>1. CASE RecordMain(p)
    BY <2>1, StopEffect, GoToEffect
       DEF RecordMain, Inv, Stops, Goes, SameWork, Starting, Idle, Place
  <2>2. CASE RecordThread(p)
    BY <2>2, ReleasingEffect, GoToEffect
       DEF RecordThread, Inv, Then, Place, Releases, Goes, SameWork
  <2>3. CASE WriteMain(p)
    <3>1. ex[p].msg \in Msg
      BY <2>3, WorkTypes, KeyTypes, FaultAssumption
         DEF WriteMain, At, Inv, Work, Returning, TypeOK, Msg
    <3>. QED
      BY <2>3, <3>1, KeyTypes, ReservingEffect DEF WriteMain, Inv, Reserves, Starting
  <2>4. CASE WriteThread(p)
    BY <2>4, ReleasingEffect DEF WriteThread, Inv, Then, Releases, SameWork
  <2>. QED
    BY <2>1, <2>2, <2>3, <2>4
<1>. QED
  BY <1>1, <1>2, <1>3, <1>4, EnrichAside

LEMMA EnrichDbError ==
    ASSUME Inv, Inv', Charged, NEW p \in Task, DbError(p)
    PROVE  Charges' <= 1 + 2 * faults'.n
<1>1. Faulted /\ UNCHANGED <<att, posts>>
  BY DbErrorEffect DEF Inv
<1>2. CASE ex[p].pc \in {"release", "clear"} /\ AfterReleases(p)
  BY <1>1, <1>2, EnrichAfter
<1>3. CASE ThreadRecord(p) /\ Releases(p, "end")
  <2>1. ex[p].key # EnrichKey
    BY <1>3, KeyTypes DEF ThreadRecord, At
  <2>. QED
    BY <1>1, <1>3, <2>1, EnrichAside DEF Releases, SameWork
<1>4. CASE Stops(p)
  BY <1>1, <1>4, EnrichAside DEF Stops, Starting, Idle
<1>. QED
  BY <1>2, <1>3, <1>4, DbErrorEffect DEF Inv

LEMMA EnrichCrash ==
    ASSUME Inv, Inv', Charged, NEW h \in Holder, Crash(h)
    PROVE  Charges' <= 1 + 2 * faults'.n
<1>1. Faulted /\ UNCHANGED <<att, posts>>
  BY FaultEffect DEF Crash, Inv
<1>2. ASSUME NEW q \in Task
      PROVE  (Posts(q)' => Posts(q)) /\ (Fails(q)' => Fails(q)) /\ (Clears(q)' => Clears(q))
  <2>1. ex'[q] = ex[q] \/ ex'[q] = Idle
    BY DEF Crash
  <2>. QED
    BY <1>1, <2>1 DEF Posts, Fails, Clears, Enriching, Latest, Holds, Idle
<1>3. Posting' \subseteq Posting /\ Failing' \subseteq Failing /\ Clearing' \subseteq Clearing
  BY <1>2 DEF Posting, Failing, Clearing
<1>. QED
  BY <1>1, <1>3, EnrichShrinks

\* A lease that expires under a call makes one more task able to post, and one to clear.
LEMMA EnrichExpire ==
    ASSUME OwnProcesses, Inv, Inv', Charged, NEW k \in Key, ExpireLease(k)
    PROVE  Charges' <= 1 + 2 * faults'.n
<1>1. /\ Writes(k) /\ UNCHANGED <<ex, posts>>
      /\ att'[k].num = att[k].num /\ att'[k].status = att[k].status
      /\ att'[k].holder = att[k].holder /\ att[k].lease = "live"
      /\ (UnderLease(k) /\ Faulted) \/ (~UnderLease(k) /\ UNCHANGED faults)
  BY ExpireEffect DEF Inv, ExpireLease
<1>2. CASE k # EnrichKey
  <2>1. att'[EnrichKey] = att[EnrichKey]
    BY <1>1, <1>2, KeyTypes DEF Writes
  <2>2. ASSUME NEW q \in Task
        PROVE  /\ Posts(q)' <=> Posts(q)
               /\ Fails(q)' <=> Fails(q)
               /\ Clears(q)' <=> Clears(q)
               /\ Good(q)' <=> Good(q)
    BY <1>1, <2>1 DEF Posts, Fails, Clears, Good, Enriching, Latest, Holds
  <2>3. Posting' \subseteq Posting /\ Failing' \subseteq Failing /\ Clearing' \subseteq Clearing
    BY <2>2 DEF Posting, Failing, Clearing
  <2>4. Open' => Open
    BY <2>1, <2>2 DEF Open
  <2>. QED
    BY <1>1, <2>3, <2>4, EnrichShrinks
<1>3. CASE k = EnrichKey
  <2>1. ASSUME NEW q \in Task
        PROVE  (Posts(q)' <=> Posts(q)) /\ (Fails(q)' <=> Fails(q))
    BY <1>1, <1>3 DEF Posts, Fails, Enriching, Latest
  <2>2. Posting' \subseteq Posting /\ Failing' \subseteq Failing
    BY <2>1 DEF Posting, Failing
  <2>3. ASSUME NEW q \in Task, Clears(q)', ~Clears(q)
        PROVE  Enriching(q, {"call", "release", "clear"}) /\ Latest(q) /\ Holds(q)
    BY <1>1, <1>3, <2>3 DEF Clears, Enriching, Latest, Holds
  <2>4. CASE ~UnderLease(k)
    <3>1. ASSUME NEW q \in Task,
                 Enriching(q, {"call", "release", "clear", "record", "write"}), Latest(q), Holds(q)
          PROVE  FALSE
      BY <1>3, <2>4, <3>1 DEF UnderLease, Enriching, Holds
    <3>2. Clearing' \subseteq Clearing
      BY <2>3, <3>1 DEF Clearing, Enriching
    <3>3. Open' => Open
      BY <1>1, <1>3, <3>1 DEF Open, Good, Enriching
    <3>. QED
      BY <1>1, <2>2, <2>4, <3>2, <3>3, EnrichShrinks
  <2>5. CASE Faulted
    <3>1. \E q \in Task : Clearing' \subseteq Clearing \cup {q}
      <4>1. CASE \E q \in Task : Clears(q)' /\ ~Clears(q)
        <5>1. PICK q \in Task : Clears(q)' /\ ~Clears(q)
          BY <4>1
        <5>2. ASSUME NEW r \in Task, Clears(r)', ~Clears(r) PROVE r = q
          BY <2>3, <5>1, <5>2 DEF Enriching, Holds, OwnProcesses
        <5>. QED
          BY <5>1, <5>2 DEF Clearing
      <4>2. CASE ~\E q \in Task : Clears(q)' /\ ~Clears(q)
        <5>1. Clearing' \subseteq Clearing
          BY <4>2 DEF Clearing
        <5>2. \E q \in Task : TRUE
          BY <1>1, <2>5 DEF UnderLease, Faulted, Inv, TypeOK
        <5>. QED
          BY <5>1, <5>2
      <4>. QED
        BY <4>1, <4>2
    <3>2. /\ Cardinality(Posting)' <= Cardinality(Posting)
          /\ Cardinality(Failing)' <= Cardinality(Failing)
          /\ Cardinality(Clearing)' <= Cardinality(Clearing) + 1
      <4>1. /\ Posting \in SUBSET Task /\ Failing \in SUBSET Task /\ Clearing \in SUBSET Task
        BY DEF Posting, Failing, Clearing
      <4>. QED
        BY <2>2, <3>1, <4>1, CountKeeps, CountGains
    <3>3. posts \in Int /\ faults.n \in Int /\ Charges <= 1 + 2 * faults.n
      BY FaultAssumption DEF Inv, TypeOK, Charged
    <3>. QED
      BY <1>1, <2>5, <3>2, <3>3, ChargeTypes DEF Charges, Faulted
  <2>. QED
    BY <1>1, <2>4, <2>5
<1>. QED
  BY <1>2, <1>3

\* What is stale stays so.
LEMMA StaleStays ==
    ASSUME Inv, [Next]_vars, faults'.stale = FALSE
    PROVE  faults.stale = FALSE
<1>1. CASE UNCHANGED faults \/ Faulted
  BY <1>1 DEF Faulted
<1>2. ASSUME NEW p \in Task, CreateAttempt(p) PROVE faults.stale = FALSE
  <2>1. ex[p].key \in Key
    BY <1>2, WorkTypes DEF CreateAttempt, Creating
  <2>. QED
    BY <1>2, <2>1, CreateEffect DEF Inv, Rewrites
<1>3. ASSUME NEW p \in Task, WriteFailure(p) PROVE faults.stale = FALSE
  <2>1. ex[p].key \in Key
    BY <1>3, WorkTypes DEF WriteFailure
  <2>. QED
    BY <1>3, <2>1, WriteFailureEffect DEF Inv, Rewrites
<1>4. ASSUME NEW kind, Fault(kind) PROVE Faulted
  BY <1>4, FaultEffect DEF Inv
<1>. QED
  BY <1>1, <1>2, <1>3, <1>4
     DEF Next, Step, StartPublish, StartEnrich, StartResume, Start, ReservePublish,
         ReservePublishHit, ReserveThread, ReserveThreadHit, ReserveEnrich, CreateRefused, Claim,
         ClaimRefused, ReleaseLease, ClearLease, CallDiscord, ThreadExists, RecordMain,
         RecordThread, RecordEnrich, RecordFailure, WriteMain, WriteThread, WriteEnrich, CallFails,
         CallAnswerLost, DbError, Crash, ExpireLease, vars

\* An enrichment is attempted only of a folder found to have its main message.
LEMMA SettledNext ==
    ASSUME Inv, Settled, [Next]_vars, faults'.stale = FALSE
    PROVE  Settled'
<1>. SUFFICES ASSUME NEW p \in Task, ex'[p].key = EnrichKey, ex'[p].pc # "reserve"
              PROVE  HasMain'
  BY DEF Settled
<1>1. CASE ex[p].key = EnrichKey /\ ex[p].pc # "reserve"
  BY <1>1, MainKept DEF Settled
<1>2. CASE HasMain
  BY <1>2, MainKept
<1>3. CASE ~(ex[p].key = EnrichKey /\ ex[p].pc # "reserve")
  <2>1. ASSUME NEW q \in Task, Touches(q) PROVE q = p \/ ex'[p] = ex[p]
    BY <2>1 DEF Touches
  <2>2. ASSUME NEW q \in Task, Stops(q) PROVE FALSE
    BY <1>3, <2>2, KeyTypes DEF Stops, Touches, Idle, EnrichKey, NoKey
  <2>3. ASSUME NEW q \in Task, NEW k, Reserves(q, k) PROVE FALSE
    BY <1>3, <2>3 DEF Reserves, Touches
  <2>4. ASSUME NEW q \in Task, NEW pc, Goes(q, pc) \/ Releases(q, pc), ex[q].pc # "reserve"
        PROVE  FALSE
    BY <1>3, <2>4 DEF Goes, Releases, Touches, SameWork
  <2>5. ASSUME NEW q \in Task, AfterReleases(q), ex[q].pc # "reserve" PROVE FALSE
    BY <2>2, <2>3, <2>4, <2>5 DEF AfterReleases, AfterThreads
  <2>6. ASSUME NEW q \in Task, StartPublish(q) \/ StartEnrich(q) \/ StartResume(q) PROVE FALSE
    BY <1>3, <2>6, StartAttempt DEF Touches
  <2>7. ASSUME NEW q \in Task,
               \/ ReservePublish(q) \/ ReservePublishHit(q) \/ ReserveThread(q)
               \/ ReserveThreadHit(q) \/ ReserveEnrich(q) \/ CreateRefused(q)
        PROVE  HasMain'
    BY <1>2, <1>3, <2>7, ReserveAttempt DEF Touches
  <2>8. ASSUME NEW q \in Task,
               Claim(q) \/ ClaimRefused(q) \/ ReleaseLease(q) \/ ClearLease(q)
        PROVE  FALSE
    <3>1. ex[q].key \in Key /\ ex[q].pc # "reserve"
      BY <2>8, WorkTypes DEF Claim, ClaimRefused, ReleaseLease, ClearLease
    <3>. QED
      BY <2>2, <2>4, <2>5, <2>8, <3>1, ClaimEffect, StopEffect, GoToEffect, AfterReleaseEffect,
         ClearEffect DEF Inv, ClaimRefused, ReleaseLease, Place
  <2>9. ASSUME NEW q \in Task,
               CallDiscord(q) \/ CallFails(q) \/ CallAnswerLost(q) \/ ThreadExists(q)
        PROVE  FALSE
    <3>1. ex[q].key \in Key /\ ex[q].pc = "call"
      BY <2>9, WorkTypes DEF CallDiscord, CallFails, CallAnswerLost, ThreadExists, At
    <3>2. CASE CallDiscord(q)
      BY <1>3, <3>1, <3>2, CallEffect DEF Inv, Goes, SameWork, Touches
    <3>3. CASE ~CallDiscord(q)
      BY <2>4, <2>9, <3>1, <3>3, ReleasingEffect
         DEF CallFails, CallAnswerLost, ThreadExists, Inv, Then
    <3>. QED
      BY <3>2, <3>3
  <2>10. ASSUME NEW q \in Task,
                \/ RecordMain(q) \/ RecordThread(q) \/ RecordEnrich(q) \/ RecordFailure(q)
                \/ WriteMain(q) \/ WriteThread(q) \/ WriteEnrich(q) \/ WriteFailure(q)
         PROVE  FALSE
    <3>1. CASE WriteMain(q)
      <4>1. ex[q].msg \in Msg
        BY <3>1, WorkTypes, KeyTypes, FaultAssumption
           DEF WriteMain, At, Inv, Work, Returning, TypeOK, Msg
      <4>. QED
        BY <2>3, <3>1, <4>1, ReservingEffect, KeyTypes DEF WriteMain, Inv
    <3>2. CASE RecordThread(q) \/ WriteThread(q)
      BY <2>4, <3>2, ReleasingEffect, GoToEffect
         DEF RecordThread, WriteThread, Inv, Then, Place, At
    <3>3. CASE RecordMain(q) \/ RecordEnrich(q)
      BY <2>2, <2>4, <3>3, StopEffect, GoToEffect DEF RecordMain, RecordEnrich, Inv, Place, At
    <3>4. CASE RecordFailure(q)
      BY <2>2, <2>4, <3>4, FailureEffect DEF Inv
    <3>5. CASE WriteEnrich(q) \/ WriteFailure(q)
      BY <2>2, <3>5, StopEffect DEF WriteEnrich, WriteFailure, Inv
    <3>. QED
      BY <2>10, <3>1, <3>2, <3>3, <3>4, <3>5
  <2>11. ASSUME NEW q \in Task, DbError(q) PROVE FALSE
    BY <2>2, <2>4, <2>5, <2>11, DbErrorEffect DEF Inv, ThreadRecord, At
  <2>12. ASSUME NEW h \in Holder, Crash(h) PROVE FALSE
    BY <1>3, <2>12, KeyTypes DEF Crash, Idle, EnrichKey, NoKey
  <2>13. CASE UNCHANGED ex
    BY <1>3, <2>13
  <2>14. ASSUME NEW q \in Task, CreateAttempt(q) PROVE HasMain'
    <3>1. ex[q].key \in Key /\ ex[q].pc \in {"create", "open"}
      BY <2>14, WorkTypes DEF CreateAttempt, Creating
    <3>2. PICK n \in Num : Joins(q, "claim", n)
      BY <2>14, <3>1, CreateEffect DEF Inv
    <3>. QED
      BY <1>1, <1>3, <3>1, <3>2 DEF Joins, Touches
  <2>. QED
    BY <2>6, <2>7, <2>8, <2>9, <2>10, <2>11, <2>12, <2>13, <2>14
       DEF Next, Step, ExpireLease, vars
<1>. QED
  BY <1>1, <1>3

LEMMA EnrichNext == ASSUME OwnProcesses PROVE Inv /\ EnrichInv /\ [Next]_vars => EnrichInv'
<1>. SUFFICES ASSUME Inv, Charged, [Next]_vars, faults'.stale = FALSE PROVE Charged'
  BY StaleStays DEF EnrichInv
<1>1. Inv' /\ Settled'
  BY NextInv, SettledNext DEF Charged
<1>2. CASE UNCHANGED vars
  <2>1. ASSUME NEW q \in Task
        PROVE  (Posts(q)' => Posts(q)) /\ (Fails(q)' => Fails(q)) /\ (Clears(q)' => Clears(q))
               /\ (Good(q) => Good(q)')
    BY <1>2 DEF vars, Posts, Fails, Clears, Good, Enriching, Latest, Holds
  <2>2. Posting' \subseteq Posting /\ Failing' \subseteq Failing /\ Clearing' \subseteq Clearing
    BY <2>1 DEF Posting, Failing, Clearing
  <2>3. Open' => Open
    BY <1>2, <2>1 DEF vars, Open
  <2>4. Charges' <= 1 + 2 * faults'.n
    BY <1>1, <1>2, <2>2, <2>3, EnrichShrinks DEF vars
  <2>. QED
    BY <1>1, <2>4 DEF Charged
<1>3. CASE Next
  <2>1. Charges' <= 1 + 2 * faults'.n
    BY <1>1, <1>3, EnrichOther, EnrichCreate, EnrichLease, EnrichCalls, EnrichRecords, EnrichRead,
       EnrichRecord, EnrichFailing, EnrichFailure, EnrichDbError, EnrichCrash, EnrichExpire
       DEF Next, Step
  <2>. QED
    BY <1>1, <2>1 DEF Charged
<1>. QED
  BY <1>2, <1>3

\* Discord shows a message again only where a fault explains it: the main message of
\* commands that do not overlap once per fault; the enrichment of tasks in processes of
\* their own twice per fault, and when they overlap as long as no status was written over
\* a main message that was not there when the row was read.
THEOREM DuplicatesPerFaultHolds == ASSUME OwnProcesses PROVE Spec => []DuplicatesPerFault
<1>1. Spec => []OneMainPerFault
  BY OneMainPerFaultHolds
<1>2. Inv /\ SerialInv /\ EnrichInv => OneEnrichmentPerFault
  <2>. SUFFICES ASSUME Inv, SerialInv, EnrichInv, Unharmed PROVE posts <= 1 + 2 * faults.n
    BY DEF OneEnrichmentPerFault
  <2>1. posts \in Int /\ faults.n \in Int
    BY FaultAssumption DEF Inv, TypeOK
  <2>2. faults.stale = FALSE
    BY DEF Unharmed, SerialInv, Inv, TypeOK
  <2>. QED
    BY <2>1, <2>2, ChargeTypes DEF EnrichInv, Charged, Charges
<1>3. Spec => []OneEnrichmentPerFault
  BY InitInv, SerialInit, EnrichInit, NextInv, SerialNext, EnrichNext, <1>2, PTL DEF Spec
<1>4. OneMainPerFault /\ OneEnrichmentPerFault => DuplicatesPerFault
  BY DEF DuplicatesPerFault
<1>. QED
  BY <1>1, <1>3, <1>4, PTL

=============================================================================
