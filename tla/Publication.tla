---------------------------- MODULE Publication ----------------------------
(***************************************************************************)
(* The Discord publication of one open folder: the orchestrator of         *)
(* packages/database/src/publication-orchestrator.ts, the rows it keeps    *)
(* through publication-repository.ts, and the Discord server behind        *)
(* apps/bot/src/publication/discord-publication-adapter.ts.                *)
(*                                                                         *)
(* A folder gets one main message, then one thread started from it, then   *)
(* enrichment messages in the thread.  Every operation reserves a          *)
(* PublicationAttempt row, claims a lease on it, calls Discord and records *)
(* the answer.  Tasks run that program side by side: the cycle of the      *)
(* worker, the /radar-admin resume and cycle commands of the bot, and the  *)
(* catch-up script.  HolderOf gives the executionHolderId of the process a *)
(* task runs in: two commands of the bot share one.                        *)
(*                                                                         *)
(* A repository call reads its rows without locking them and then updates  *)
(* them by id (a transaction of the default isolation), so that it takes   *)
(* two steps, and what it read may be stale when it writes.  Only claiming *)
(* a lease is one conditional update.                                      *)
(***************************************************************************)
EXTENDS Integers, FiniteSets

CONSTANTS
    Task,         \* the concurrent runs of process() and resume()
    Holder,       \* execution holder ids
    NoHolder,     \* the null executionHolderId
    HolderOf,     \* HolderOf[p]: the holder id of the process of task p
    Commands,     \* Commands[p]: what p may be asked for (a cycle: everything,
                  \* the catch-up script: no resume, an admin resume: only that)
    Settings,     \* the worlds looked at.  exclusive: no two tasks overlap, as
                  \* when all run in cycles under the pipeline lock; faults
                  \* (bound): how many faults happen
    FaultKinds,   \* the kinds of fault that may happen
    MaxMsgs       \* bound: main messages, and enrichment messages, sent

ASSUME TaskAssumption ==
    /\ IsFiniteSet(Task)
    /\ HolderOf \in [Task -> Holder]
    /\ Commands \in [Task -> SUBSET {"publish", "enrich", "resume"}]
    /\ NoHolder \notin Holder
    /\ Settings \subseteq [exclusive : BOOLEAN, faults : Nat]

ASSUME FaultAssumption ==
    /\ FaultKinds \subseteq {"crash", "discord_error", "lost_answer", "db_error", "slow_call"}
    /\ MaxMsgs \in Nat

NoMsg == 0
Msg == 1 .. MaxMsgs
Num == 1 .. Cardinality(Task) + 1

\* The idempotency keys.  One enrichment, of one event fingerprint, is modelled.
PublishKey   == <<"publish", NoMsg>>
EnrichKey    == <<"enrich", NoMsg>>
ThreadKey(m) == <<"create_thread", m>>
Key  == {PublishKey, EnrichKey} \cup {ThreadKey(m) : m \in Msg}
NoKey == <<"none", NoMsg>>
Kind(k) == k[1]

VARIABLES
    set,      \* the world of this behaviour
    pub,      \* the FolderPublication row; "absent" before it is created
    att,      \* att[k]: the latest PublicationAttempt of key k
    ex,       \* ex[p]: where task p is
    sent,     \* main messages on Discord, numbered 1 .. sent
    threads,  \* the messages on Discord a thread was started from
    posts,    \* enrichment messages in the threads
    faults    \* n: faults so far; slow: a call outlived its lease; stale: a
              \* status was written over another main message than the row had
              \* when it was read (both history, for the properties)

vars == <<set, pub, att, ex, sent, threads, posts, faults>>

\* "inconsistent" is declared by the code and never written.
PubRow == [status : {"absent", "pending", "partial", "main_published", "failed"},
           main : Msg \cup {NoMsg}, thread : Msg \cup {NoMsg}]
\* Earlier attempts of a key are all failed, as a new one is created only when
\* none is reserved or succeeded; so the latest one says it all.
AttRow == [num : Num \cup {0},
           status : {"absent", "reserved", "succeeded", "failed"},
           holder : Holder \cup {NoHolder}, lease : {"none", "live", "expired"}]
\* num: the attempt worked on; while one is being created, the one seen last.
\* msg: the main message just sent, or the one the row had when it was read (what a
\* status is written over).  then: what follows the release of the lease.
TaskState == [pc : {"idle", "reserve", "create", "open", "claim", "call", "release",
                    "clear", "record", "write", "fail", "fail_attempt", "fail_folder"},
              cmd : {"none", "publish", "resume", "enrich"},
              key : Key \cup {NoKey}, num : Num \cup {0}, msg : Msg \cup {NoMsg},
              then : {"end", "record", "fail", "continue"}]

TypeOK ==
    /\ pub \in PubRow
    /\ att \in [Key -> AttRow]
    /\ ex \in [Task -> TaskState]
    /\ sent \in 0 .. MaxMsgs
    /\ threads \subseteq Msg
    /\ posts \in 0 .. MaxMsgs
    /\ faults \in [n : Nat, slow : BOOLEAN, stale : BOOLEAN]

Idle == [pc |-> "idle", cmd |-> "none", key |-> NoKey, num |-> 0,
         msg |-> NoMsg, then |-> "end"]

Init ==
    /\ set \in Settings
    /\ pub = [status |-> "absent", main |-> NoMsg, thread |-> NoMsg]
    /\ att = [k \in Key |-> [num |-> 0, status |-> "absent", holder |-> NoHolder,
                             lease |-> "none"]]
    /\ ex = [p \in Task |-> Idle]
    /\ sent = 0
    /\ threads = {}
    /\ posts = 0
    /\ faults = [n |-> 0, slow |-> FALSE, stale |-> FALSE]

-----------------------------------------------------------------------------
Fault(kind) ==
    /\ kind \in FaultKinds
    /\ faults.n < set.faults
    /\ faults' = [faults EXCEPT !.n = @ + 1, !.slow = @ \/ kind = "slow_call"]

HasMain == pub.main # NoMsg /\ pub.status \in {"partial", "main_published"}
MainRead == IF HasMain THEN pub.main ELSE NoMsg

At(p, pc, kind) == ex[p].pc = pc /\ Kind(ex[p].key) = kind
GoTo(p, pc)     == ex' = [ex EXCEPT ![p].pc = pc]
Stop(p)         == ex' = [ex EXCEPT ![p] = Idle]
Reserving(p, k) == ex' = [ex EXCEPT ![p].pc = "reserve", ![p].key = k, ![p].num = 0]
Releasing(p, next) == ex' = [ex EXCEPT ![p].pc = "release", ![p].then = next]

\* What follows the creation of the thread: an enrichment goes on to its message.
AfterThread(p) == IF ex[p].cmd = "enrich" THEN Reserving(p, EnrichKey) ELSE Stop(p)

\* The attempt task p works on is still the latest one of its key.
Latest(p) == att[ex[p].key].num = ex[p].num

\* The status is written by the id of the row, whatever the row holds by now.
WriteStatus(p, status) ==
    /\ pub' = [pub EXCEPT !.status = status]
    /\ faults' = [faults EXCEPT !.stale = @ \/ pub.main # ex[p].msg]

-----------------------------------------------------------------------------
(* process() and resume() read the publication and choose the operation. *)

Start(p, c, k) ==
    /\ ex[p].pc = "idle" /\ c \in Commands[p]
    /\ set.exclusive => \A q \in Task : ex[q].pc = "idle"
    /\ ex' = [ex EXCEPT ![p] = [Idle EXCEPT !.pc = "reserve", !.cmd = c, !.key = k]]
    /\ UNCHANGED <<set, pub, att, sent, threads, posts, faults>>

\* runPublish skips a folder that has its main message, partial ones included.
StartPublish(p) == ~HasMain /\ Start(p, "publish", PublishKey)

\* runEnrich creates the missing thread of a partial publication first.
StartEnrich(p) ==
    /\ HasMain
    /\ Start(p, "enrich", IF pub.thread # NoMsg THEN EnrichKey ELSE ThreadKey(pub.main))

\* resumePartial: a pending publication is a failed precondition.
StartResume(p) ==
    /\ pub.status = "partial" /\ pub.main # NoMsg
    /\ Start(p, "resume", ThreadKey(pub.main))

-----------------------------------------------------------------------------
(* The reservations. *)

ActiveAttempt(k) == att[k].status \in {"reserved", "succeeded"}

\* attemptNumber + 1.  A number only has to differ from those tasks still use.
Unused(k, n) == n # att[k].num /\ \A q \in Task : ex[q].key = k => ex[q].num # n
NextNum(k, n) == Unused(k, n) /\ \A m \in Num : m < n => ~Unused(k, m)

\* An active attempt of the key is taken over, else the next one is to be created.
ReadAttempt(p, k, next) ==
    ex' = [ex EXCEPT ![p].pc = IF ActiveAttempt(k) THEN "claim" ELSE next,
                     ![p].num = att[k].num, ![p].msg = MainRead]

\* Mutant of ReservePublish: the main message is not looked for again.
ReservePublishUnchecked(p) ==
    /\ At(p, "reserve", "publish")
    /\ ReadAttempt(p, PublishKey, "open")
    /\ UNCHANGED <<set, pub, att, sent, threads, posts, faults>>

\* reservePublish finds no main message: a folder that is not pending becomes so
\* with its new attempt.
ReservePublish(p) ==
    /\ At(p, "reserve", "publish")
    /\ ~HasMain
    /\ ReadAttempt(p, PublishKey, IF pub.status = "pending" THEN "create" ELSE "open")
    /\ UNCHANGED <<set, pub, att, sent, threads, posts, faults>>

\* reservePublish finds the main message another task has published since: a
\* missing thread is completed, a complete publication is skipped.  When no
\* attempt is credited with the message it throws.
ReservePublishHit(p) ==
    /\ At(p, "reserve", "publish")
    /\ HasMain
    /\ IF att[PublishKey].status = "succeeded" /\ pub.thread = NoMsg
       THEN Reserving(p, ThreadKey(pub.main))
       ELSE Stop(p)
    /\ UNCHANGED <<set, pub, att, sent, threads, posts, faults>>

\* Mutant of ThreadDone: a failed attempt counts as one that was made.
ThreadDoneOnce(k) ==
    \/ att[k].status \in {"succeeded", "failed"}
    \/ att[k].status = "reserved" /\ pub.status = "main_published"

\* The thread is known to exist.
ThreadDone(k) ==
    \/ att[k].status = "succeeded"
    \/ att[k].status = "reserved" /\ pub.status = "main_published"

\* reserveOperation for a thread.
ReserveThread(p) ==
    /\ At(p, "reserve", "create_thread")
    /\ HasMain /\ ~ThreadDone(ex[p].key)
    /\ ReadAttempt(p, ex[p].key, "create")
    /\ UNCHANGED <<set, pub, att, sent, threads, posts, faults>>

ReserveThreadHit(p) ==
    /\ At(p, "reserve", "create_thread")
    /\ HasMain => ThreadDone(ex[p].key)
    /\ IF HasMain THEN AfterThread(p) ELSE Stop(p)
    /\ UNCHANGED <<set, pub, att, sent, threads, posts, faults>>

\* reserveOperation for the enrichment; one already succeeded is skipped.
ReserveEnrich(p) ==
    /\ At(p, "reserve", "enrich")
    /\ IF ~HasMain \/ att[EnrichKey].status = "succeeded"
       THEN Stop(p)
       ELSE ReadAttempt(p, EnrichKey, "create")
    /\ UNCHANGED <<set, pub, att, sent, threads, posts, faults>>

Creating(p) == ex[p].pc \in {"create", "open"}
Creatable(p) == Latest(p) /\ ~ActiveAttempt(ex[p].key)

\* The writes of a reservation.
CreateAttempt(p) ==
    /\ Creating(p) /\ Creatable(p)
    /\ \E n \in Num :
          /\ NextNum(ex[p].key, n)
          /\ att' = [att EXCEPT ![ex[p].key] = [num |-> n, status |-> "reserved",
                                              holder |-> NoHolder, lease |-> "none"]]
          /\ ex' = [ex EXCEPT ![p].pc = "claim", ![p].num = n]
    /\ IF ex[p].pc = "open" THEN WriteStatus(p, "pending") ELSE UNCHANGED <<pub, faults>>
    /\ UNCHANGED <<set, sent, threads, posts>>

\* The unique indexes, on active attempts and on numbers, refuse the slower of two
\* reservations, which is rolled back.
CreateRefused(p) ==
    /\ Creating(p) /\ ~Creatable(p)
    /\ Stop(p)
    /\ UNCHANGED <<set, pub, att, sent, threads, posts, faults>>

-----------------------------------------------------------------------------
(* The execution lease. *)

\* Mutant of Claimable: any holder may claim a reserved attempt.
ClaimableByAll(p) == Latest(p) /\ att[ex[p].key].status = "reserved"

Claimable(p) ==
    LET a == att[ex[p].key]
    IN /\ Latest(p) /\ a.status = "reserved"
       /\ a.holder = NoHolder \/ a.lease = "expired" \/ a.holder = HolderOf[p]

\* claimExecution is one conditional update; its own holder passes it again.
Claim(p) ==
    /\ ex[p].pc = "claim" /\ Claimable(p)
    /\ att' = [att EXCEPT ![ex[p].key].holder = HolderOf[p],
                          ![ex[p].key].lease = "live"]
    /\ GoTo(p, "call")
    /\ UNCHANGED <<set, pub, sent, threads, posts, faults>>

ClaimRefused(p) ==
    /\ ex[p].pc = "claim" /\ ~Claimable(p)
    /\ Stop(p)
    /\ UNCHANGED <<set, pub, att, sent, threads, posts, faults>>

\* What a task does once releaseDiscordExecution returned.
AfterRelease(p) ==
    CASE ex[p].then = "continue" -> AfterThread(p)
      [] ex[p].then = "end"      -> Stop(p)
      [] OTHER                   -> GoTo(p, ex[p].then)

\* clearExecutionLease reads the attempt and stops unless the caller holds it ...
ReleaseLease(p) ==
    /\ ex[p].pc = "release"
    /\ IF Latest(p) /\ att[ex[p].key].holder = HolderOf[p]
       THEN GoTo(p, "clear")
       ELSE AfterRelease(p)
    /\ UNCHANGED <<set, pub, att, sent, threads, posts, faults>>

\* ... then clears it by id, whoever holds it by now.
ClearLease(p) ==
    /\ ex[p].pc = "clear"
    /\ att' = IF Latest(p)
              THEN [att EXCEPT ![ex[p].key].holder = NoHolder, ![ex[p].key].lease = "none"]
              ELSE att
    /\ AfterRelease(p)
    /\ UNCHANGED <<set, pub, sent, threads, posts, faults>>

\* Some task still works under the lease of key k.
UnderLease(k) ==
    \E p \in Task : /\ ex[p].key = k /\ Latest(p) /\ HolderOf[p] = att[k].holder
                    /\ ex[p].pc \in {"call", "release", "clear", "record", "write",
                                      "fail", "fail_attempt", "fail_folder"}

\* Two minutes pass.  That is a fault when a call takes longer.
ExpireLease(k) ==
    /\ att[k].lease = "live"
    /\ IF UnderLease(k) THEN Fault("slow_call") ELSE UNCHANGED faults
    /\ att' = [att EXCEPT ![k].lease = "expired"]
    /\ UNCHANGED <<set, pub, ex, sent, threads, posts>>

-----------------------------------------------------------------------------
(* The Discord calls. *)

Deliver(p) ==
    CASE Kind(ex[p].key) = "publish" ->
            sent < MaxMsgs /\ sent' = sent + 1 /\ UNCHANGED <<threads, posts>>
      [] Kind(ex[p].key) = "create_thread" ->
            /\ ex[p].key[2] \notin threads
            /\ threads' = threads \cup {ex[p].key[2]}
            /\ UNCHANGED <<sent, posts>>
      [] Kind(ex[p].key) = "enrich" ->
            posts < MaxMsgs /\ posts' = posts + 1 /\ UNCHANGED <<sent, threads>>

\* Mutant of CallDiscord: the answer to a main message is taken for an error.
CallDiscordUnread(p) ==
    /\ ex[p].pc = "call"
    /\ Deliver(p)
    /\ IF Kind(ex[p].key) = "publish" THEN Releasing(p, "fail") ELSE GoTo(p, "record")
    /\ UNCHANGED <<set, pub, att, faults>>

\* The call succeeds.  The lease of the main message is released before the
\* message is recorded; those of the thread and of the enrichment are not.
CallDiscord(p) ==
    /\ ex[p].pc = "call"
    /\ Deliver(p)
    /\ IF Kind(ex[p].key) = "publish"
       THEN ex' = [ex EXCEPT ![p].pc = "release", ![p].then = "record", ![p].msg = sent + 1]
       ELSE GoTo(p, "record")
    /\ UNCHANGED <<set, pub, att, faults>>

\* Mutant of CallFails: the error of a call is not noticed.
CallFailsRecorded(p) ==
    /\ ex[p].pc = "call"
    /\ Fault("discord_error")
    /\ GoTo(p, "record")
    /\ UNCHANGED <<set, pub, att, sent, threads, posts>>

\* Discord refuses, or the call fails before it has an effect.
CallFails(p) ==
    /\ ex[p].pc = "call"
    /\ Fault("discord_error")
    /\ Releasing(p, "fail")
    /\ UNCHANGED <<set, pub, att, sent, threads, posts>>

\* Discord does what it was asked to and the caller sees an error.
CallAnswerLost(p) ==
    /\ ex[p].pc = "call"
    /\ Fault("lost_answer")
    /\ Deliver(p)
    /\ Releasing(p, "fail")
    /\ UNCHANGED <<set, pub, att>>

\* A message has one thread: starting a second one is an error.
ThreadExists(p) ==
    /\ At(p, "call", "create_thread")
    /\ ex[p].key[2] \in threads
    /\ Releasing(p, "fail")
    /\ UNCHANGED <<set, pub, att, sent, threads, posts, faults>>

-----------------------------------------------------------------------------
(* The records: what is read and asserted first, then what is written. *)

\* recordMainPublicationSuccess throws unless the folder is pending or partial;
\* the message is then known to nobody.
RecordMain(p) ==
    /\ At(p, "record", "publish")
    /\ IF pub.status \in {"pending", "partial"} THEN GoTo(p, "write") ELSE Stop(p)
    /\ UNCHANGED <<set, pub, att, sent, threads, posts, faults>>

\* recordThreadCreated, whatever the main message is by now.
RecordThread(p) ==
    /\ At(p, "record", "create_thread")
    /\ IF pub.main # NoMsg /\ pub.status \in {"pending", "partial", "main_published"}
       THEN GoTo(p, "write") ELSE Releasing(p, "end")
    /\ UNCHANGED <<set, pub, att, sent, threads, posts, faults>>

\* recordEnrichmentPublished.
RecordEnrich(p) ==
    /\ At(p, "record", "enrich")
    /\ IF HasMain THEN GoTo(p, "write") ELSE Stop(p)
    /\ UNCHANGED <<set, pub, att, sent, threads, posts, faults>>

\* The attempt is read once the row of the folder is updated, which other records
\* wait for: reserved -> succeeded; any other attempt keeps its status.
Succeed(p) ==
    att' = IF Latest(p) /\ att[ex[p].key].status = "reserved"
           THEN [att EXCEPT ![ex[p].key].status = "succeeded"] ELSE att

WriteMain(p) ==
    /\ At(p, "write", "publish")
    /\ pub' = [status |-> "partial", main |-> ex[p].msg, thread |-> NoMsg]
    /\ Succeed(p)
    /\ Reserving(p, ThreadKey(ex[p].msg))
    /\ UNCHANGED <<set, sent, threads, posts, faults>>

WriteThread(p) ==
    /\ At(p, "write", "create_thread")
    /\ pub' = [pub EXCEPT !.status = "main_published", !.thread = ex[p].key[2]]
    /\ Succeed(p)
    /\ Releasing(p, "continue")
    /\ UNCHANGED <<set, sent, threads, posts, faults>>

\* The lease of the enrichment is left to expire.
WriteEnrich(p) ==
    /\ At(p, "write", "enrich")
    /\ Succeed(p)
    /\ Stop(p)
    /\ UNCHANGED <<set, pub, sent, threads, posts, faults>>

FailTo(p, pc) == ex' = [ex EXCEPT ![p].pc = pc, ![p].msg = MainRead]

\* Mutant of RecordFailure: the folder is failed whatever it already has.
RecordFailureAlways(p) ==
    /\ ex[p].pc = "fail"
    /\ FailTo(p, IF Kind(ex[p].key) = "publish" THEN "fail_folder" ELSE "fail_attempt")
    /\ UNCHANGED <<set, pub, att, sent, threads, posts, faults>>

\* recordFailure, which throws (to no effect) on a succeeded attempt.  A pending
\* folder without a main message is failed with the attempt.
RecordFailure(p) ==
    /\ ex[p].pc = "fail"
    /\ IF Latest(p) /\ att[ex[p].key].status = "succeeded"
       THEN Stop(p)
       ELSE FailTo(p, IF /\ Kind(ex[p].key) = "publish"
                         /\ pub.main = NoMsg /\ pub.status = "pending"
                      THEN "fail_folder" ELSE "fail_attempt")
    /\ UNCHANGED <<set, pub, att, sent, threads, posts, faults>>

\* The attempt is failed even if it has succeeded since it was read.
WriteFailure(p) ==
    /\ ex[p].pc \in {"fail_attempt", "fail_folder"}
    /\ att' = IF Latest(p) THEN [att EXCEPT ![ex[p].key].status = "failed"] ELSE att
    /\ IF ex[p].pc = "fail_folder" THEN WriteStatus(p, "failed") ELSE UNCHANGED <<pub, faults>>
    /\ Stop(p)
    /\ UNCHANGED <<set, sent, threads, posts>>

-----------------------------------------------------------------------------
(* What else goes wrong. *)

ThreadRecord(p) == At(p, "record", "create_thread") \/ At(p, "write", "create_thread")

\* A repository call fails and is rolled back (recordFailure locks the attempt before
\* the folder and the other records the folder first, so a deadlock may be the reason).
\* Release is best effort; a thread that cannot be recorded still has its lease
\* released; any other error ends the command.
DbError(p) ==
    /\ Fault("db_error")
    /\ \/ ex[p].pc \in {"release", "clear"} /\ AfterRelease(p)
       \/ ThreadRecord(p) /\ Releasing(p, "end")
       \/ /\ ex[p].pc \in {"reserve", "create", "open", "claim", "record", "write",
                           "fail", "fail_attempt", "fail_folder"}
          /\ ~ThreadRecord(p)
          /\ Stop(p)
    /\ UNCHANGED <<set, pub, att, sent, threads, posts>>

\* A process dies with all its tasks; one of the same holder id may start again,
\* as the id is made of the process id.
Crash(h) ==
    /\ \E p \in Task : HolderOf[p] = h /\ ex[p].pc # "idle"
    /\ Fault("crash")
    /\ ex' = [p \in Task |-> IF HolderOf[p] = h THEN Idle ELSE ex[p]]
    /\ UNCHANGED <<set, pub, att, sent, threads, posts>>

-----------------------------------------------------------------------------
Step(p) ==
    \/ ReservePublish(p) \/ ReservePublishHit(p)
    \/ ReserveThread(p) \/ ReserveThreadHit(p) \/ ReserveEnrich(p)
    \/ CreateAttempt(p) \/ CreateRefused(p)
    \/ Claim(p) \/ ClaimRefused(p)
    \/ ReleaseLease(p) \/ ClearLease(p)
    \/ CallDiscord(p) \/ ThreadExists(p)
    \/ RecordMain(p) \/ RecordThread(p) \/ RecordEnrich(p) \/ RecordFailure(p)
    \/ WriteMain(p) \/ WriteThread(p) \/ WriteEnrich(p) \/ WriteFailure(p)

Next ==
    \/ \E p \in Task :
          \/ StartPublish(p) \/ StartEnrich(p) \/ StartResume(p)
          \/ Step(p)
          \/ CallFails(p) \/ CallAnswerLost(p)
          \/ DbError(p)
    \/ \E h \in Holder : Crash(h)
    \/ \E k \in Key : ExpireLease(k)

Spec == Init /\ [][Next]_vars

\* Every command runs to its end, each cycle resumes what is partial
\* (resumePublications), and the lease of a task that is gone expires.  A call
\* that hangs, an error and a crash are not required.
Fairness ==
    /\ \A p \in Task : WF_vars(Step(p))
    /\ SF_vars(\E p \in Task : StartResume(p))
    /\ WF_vars(\E k \in Key : ~UnderLease(k) /\ ExpireLease(k))

FairSpec == Spec /\ Fairness

-----------------------------------------------------------------------------
\* What is known of an overlap of two commands: none, or none that did harm yet.
Unharmed == set.exclusive \/ ~faults.stale

\* The status of a folder says what its row holds: no main message while absent,
\* pending or failed, a main message and no thread while partial, both once
\* main_published.  So it is whatever fails and however late the answers are, when
\* commands do not overlap; when they do, until recordFailure or reservePublish write
\* a status over a main message that was recorded after they had read the row.
StatusCoherent ==
    Unharmed =>
        /\ pub.main = NoMsg <=> pub.status \in {"absent", "pending", "failed"}
        /\ pub.thread = NoMsg <=> pub.status # "main_published"

\* The row never runs ahead of Discord: a recorded main message was sent, a
\* recorded thread was created.
RecordsAreReal ==
    /\ pub.main <= sent
    /\ pub.thread \in threads \cup {NoMsg}

\* A folder that has its main message keeps one, whatever fails, when commands do not
\* overlap.  When they do, only a stale read takes a publication back: a late failure
\* that reads the row once the message is recorded does not, be it of a task whose
\* lease was taken over or of an older attempt.
MainIsKept == [][Unharmed' => (HasMain => HasMain')]_vars

\* One active executor (schema.prisma, executionLeaseExpiresAt): whatever else
\* fails, and as long as no call outlives its lease, two tasks in processes of
\* their own never call Discord under the same attempt.
InCall(p) == ex[p].pc = "call" /\ Latest(p)
OneExecutor ==
    ~faults.slow =>
        \A p, q \in Task : InCall(p) /\ InCall(q) /\ ex[p].key = ex[q].key => p = q

\* "never double-publish" (publication-orchestrator.ts): one main message.
NeverDoublePublish == sent <= 1

\* What remains of it with every kind of fault: each fault costs at most one
\* duplicate of the main message.
OneMainPerFault == set.exclusive => sent <= 1 + faults.n

\* An enrichment is posted once, but for two more times per fault, even when
\* several tasks are asked for it at once: its lease outlives the record.  (Once a
\* stale write has taken the main message back, nobody records what was posted.)
OneEnrichmentPerFault == Unharmed => posts <= 1 + 2 * faults.n

\* Both: Discord shows a message again only where a fault explains it.
DuplicatesPerFault == OneMainPerFault /\ OneEnrichmentPerFault

\* Commands that do not overlap, whatever fails, implement PublicationRecord: the
\* snowflakes are recorded once, in order, before the next call depends on them.
Record == INSTANCE PublicationRecord
              WITH messages <- IF set.exclusive THEN 1 .. sent ELSE {},
                   threads  <- IF set.exclusive THEN threads ELSE {},
                   posts    <- IF set.exclusive THEN posts ELSE 0,
                   main     <- IF set.exclusive THEN pub.main ELSE NoMsg,
                   thread   <- IF set.exclusive THEN pub.thread ELSE NoMsg
RecordSpec == Record!Spec

\* The resumes of later cycles give every partial publication its thread on Discord,
\* whatever happened to the tasks that worked on it.  Side by side, the thread that
\* is recorded may be the one of a main message that is not, and a stale write may
\* have taken the folder out of the reach of the resumes.
PartialGetsThread ==
    pub.status = "partial" ~>
        \/ pub.main \in threads
        \/ ~set.exclusive /\ (pub.thread \in threads \/ faults.stale)

\* The types, and a row that agrees with itself and with Discord.
RowInv == TypeOK /\ StatusCoherent /\ RecordsAreReal
=============================================================================
