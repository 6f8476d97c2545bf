------------------------------- MODULE AdminOps -------------------------------
(***************************************************************************)
(* The commands of /radar-admin that change something, in the process of   *)
(* the bot: the handlers of apps/bot/src/admin, the facade                 *)
(* admin-ops-service.ts, and the AdminOperationLog rows it leaves.         *)
(*                                                                         *)
(* What a command calls (a cycle, the resumption of a publication, an      *)
(* analysis) is one step here, with any of its results: other modules are  *)
(* about them.  What the operation came to is kept in ops apart from the   *)
(* answer the facade is given, from which the outcome of the audit row is  *)
(* made.  The row is written after it, by a call that may fail, before or  *)
(* after the row is stored.                                                *)
(***************************************************************************)
EXTENDS Integers, Sequences

CONSTANTS
    Slot,        \* the commands there can be at a time
    Folder,
    NoFolder,    \* of an operation that does not resume a publication
    MaxOps,      \* bound: operations in all
    MaxBatches,  \* bound: batches in all
    MaxFaults    \* bound: failing writes of the log, and deaths of the bot

ASSUME AdminAssumption ==
    MaxOps \in Nat /\ MaxBatches \in Nat /\ MaxFaults \in Nat /\ NoFolder \notin Folder

VARIABLES
    cmd,       \* cmd[s]: the command in slot s
    ops,       \* what the operations came to, in the order they ended
    log,       \* log[n]: the outcomes the audit rows of the n-th operation claim
    batches,   \* the batches, in the order their publications were listed
    faults

adminVars == <<cmd, ops, log, batches, faults>>

Commands == {"cycle", "resume", "resume_all", "reanalyse"}
Outcome == {"succeeded", "failed", "skipped", "rejected"}
\* partly: no failure was answered, and yet the publication is not whole, or the lock
\* of the cycle was lost before its run was ended.
Came == {"reached", "partly", "failed", "skipped", "rejected"}

\* todo: the folders still to be resumed.  members: the operations of the batch, with
\* what resumePublication returned.  b: the batch.  pc: a write of the log that fails
\* leads to another one after "audit", and ends the command after "audit_last".
Free == [pc |-> "free", op |-> "cycle", todo |-> {}, n |-> 0, claim |-> "failed",
         members |-> {}, b |-> 0]

AdminInit ==
    /\ cmd = [s \in Slot |-> Free]
    /\ ops = <<>> /\ log = [n \in 1 .. MaxOps |-> <<>>] /\ batches = <<>>
    /\ faults = 0

At(s, pc, o) == cmd[s].pc = pc /\ cmd[s].op \in o
End(s) == cmd' = [cmd EXCEPT ![s] = Free]

-----------------------------------------------------------------------------
\* The handler lets an administrator in, and defers its reply.
Accept(s, o) ==
    /\ cmd[s].pc = "free"
    /\ \E asked \in IF o = "resume" THEN {{f} : f \in Folder} ELSE {{}} :
         cmd' = [cmd EXCEPT ![s] = [Free EXCEPT !.pc = "call", !.op = o, !.todo = asked]]
    /\ UNCHANGED <<ops, log, batches, faults>>

\* The operation, of folder f, came to came; its row is going to claim claim.
Ends(s, f, came, claim, pc) ==
    /\ Len(ops) < MaxOps
    /\ ops' = Append(ops, [came |-> came, folder |-> f])
    /\ cmd' = [cmd EXCEPT ![s].pc = pc, ![s].todo = @ \ {f},
                           ![s].n = Len(ops) + 1, ![s].claim = claim]
    /\ UNCHANGED <<log, batches, faults>>

\* Mutant of CycleOutcome: only the rejection code is looked at.
CycleOutcomeOfCode(status, rejection) ==
    IF rejection = "concurrent_lock" THEN "skipped"
    ELSE IF rejection # "none" THEN "failed"
    ELSE "succeeded"

CycleOutcome(status, rejection) ==
    IF rejection = "concurrent_lock" THEN "skipped"
    ELSE IF status = "failed" \/ rejection # "none" THEN "failed"
    ELSE "succeeded"

\* What runCycle answers and what the cycle came to.  A lock it notices to be lost fails
\* the cycle; one that only the release finds lost does not.  status "none": no run was
\* created.
CycleResults ==
    {<<status, "none", came>> : status \in {"completed", "degraded"},
                                came \in {"reached", "partly"}}
        \cup {<<"failed", rejection, "failed">> :
                 rejection \in {"none", "registry_invalid", "invariant_violated",
                                "persistence_unavailable"}}
        \cup {<<"none", "concurrent_lock", "skipped">>}

RunCycle(s) ==
    /\ At(s, "call", {"cycle"})
    /\ \E r \in CycleResults :
         Ends(s, NoFolder, r[3], CycleOutcome(r[1], r[2]), "audit_last")

ReanalysisOutcome(status) ==
    CASE status = "failed"  -> "failed"
      [] status = "skipped" -> "skipped"
      [] OTHER              -> "succeeded"

\* Rejected without its confirmation or while an inference is running; answered by the
\* analysis; or it throws.
ForceReanalysis(s) ==
    /\ At(s, "call", {"reanalyse"})
    /\ \/ Ends(s, NoFolder, "rejected", "rejected", "audit_last")
       \/ \E r \in {<<"analyzed", "reached">>, <<"reused", "reached">>,
                    <<"skipped", "skipped">>, <<"failed", "failed">>} :
             Ends(s, NoFolder, r[2], ReanalysisOutcome(r[1]), "audit")
       \/ Ends(s, NoFolder, "failed", "failed", "audit_last")

\* resumeAllRetryable lists the partial publications, as the cycles and the commands
\* left them; when there are none it audits that.
ListRetryable(s) ==
    /\ At(s, "call", {"resume_all"}) /\ cmd[s].b = 0
    /\ Len(batches) < MaxBatches
    /\ \E partial \in SUBSET Folder :
         /\ batches' = Append(batches, [folders |-> partial, members |-> {}, row |-> "none"])
         /\ cmd' = [cmd EXCEPT ![s].todo = partial, ![s].b = Len(batches) + 1,
                               ![s].pc = IF partial = {} THEN "summary" ELSE "call"]
    /\ UNCHANGED <<ops, log, faults>>

ResumeOutcome(kind) ==
    CASE kind = "failed"  -> "failed"
      [] kind = "skipped" -> "skipped"
      [] OTHER            -> "succeeded"

\* What resume answers, and what became of the publication: its thread is recorded; it
\* is not; it is credited by the attempt while the row lacks it; the folder is closed or
\* the publication was complete already; or it cannot be resumed.
ResumeResults == {<<"succeeded", "reached">>, <<"partial", "partly">>,
                  <<"succeeded", "partly">>, <<"skipped", "skipped">>, <<"failed", "failed">>}

\* resumePublication, for the folder asked for or the next one.
ResumePublication(s, f) ==
    /\ At(s, "call", {"resume", "resume_all"}) /\ f \in cmd[s].todo
    /\ \/ \E r \in ResumeResults : Ends(s, f, r[2], ResumeOutcome(r[1]), "audit")
       \/ Ends(s, f, "failed", "failed", "audit_last")

\* What the operation reads first cannot be read.
CallFails(s) ==
    /\ \/ At(s, "call", {"resume_all"}) /\ cmd[s].b = 0
       \/ At(s, "call", {"reanalyse"})
    /\ faults < MaxFaults /\ faults' = faults + 1
    /\ End(s)
    /\ UNCHANGED <<ops, log, batches>>

-----------------------------------------------------------------------------
(* The audit.                                                              *)

Auditing == {"audit", "audit_last"}

\* What follows once the row of a resumption is written: the next folder, or the row of
\* the batch.
Audited(s) ==
    LET c == cmd[s]
    IN  IF c.op # "resume_all" THEN End(s)
        ELSE cmd' = [cmd EXCEPT ![s] = [c EXCEPT
                        !.pc = IF c.todo = {} THEN "summary" ELSE "call",
                        !.members = @ \cup {<<c.n, c.claim>>},
                        !.n = 0, !.claim = "failed"]]

Row(s) == log' = [log EXCEPT ![cmd[s].n] = Append(@, cmd[s].claim)]

\* Mutant of Record: a rejection is answered without a row.
RecordDone(s) ==
    /\ cmd[s].pc \in Auditing
    /\ IF cmd[s].claim = "rejected" THEN UNCHANGED log ELSE Row(s)
    /\ Audited(s)
    /\ UNCHANGED <<ops, batches, faults>>

Record(s) ==
    /\ cmd[s].pc \in Auditing
    /\ Row(s)
    /\ Audited(s)
    /\ UNCHANGED <<ops, batches, faults>>

\* recordOperation throws.  Where it is called inside the try of the operation, the
\* catch records a failure; elsewhere the command ends with a generic error.
RecordFails(s) ==
    /\ cmd[s].pc \in Auditing /\ faults < MaxFaults
    /\ faults' = faults + 1
    /\ Row(s) \/ UNCHANGED log
    /\ IF cmd[s].pc = "audit"
       THEN cmd' = [cmd EXCEPT ![s].pc = "audit_last", ![s].claim = "failed"]
       ELSE End(s)
    /\ UNCHANGED <<ops, batches>>

\* Mutant of Summary: one success is enough.
SummaryAnySuccess(claims) ==
    IF "succeeded" \in claims THEN "succeeded"
    ELSE IF "failed" \in claims THEN "failed"
    ELSE "skipped"

Summary(claims) ==
    IF "failed" \in claims THEN "failed"
    ELSE IF "succeeded" \in claims THEN "succeeded"
    ELSE "skipped"

\* The row of the whole batch, stored or not; a failure ends the command all the same.
RecordSummary(s) ==
    LET c == cmd[s]
        written == [batches EXCEPT ![c.b].members = {m[1] : m \in c.members},
                                   ![c.b].row = Summary({m[2] : m \in c.members})]
    IN  /\ At(s, "summary", {"resume_all"})
        /\ \/ batches' = written /\ UNCHANGED faults
           \/ /\ faults < MaxFaults /\ faults' = faults + 1
              /\ batches' \in {written, batches}
        /\ End(s)
        /\ UNCHANGED <<ops, log>>

\* The bot dies, and forgets what it was doing.
Crash ==
    /\ faults < MaxFaults /\ faults' = faults + 1
    /\ cmd' = [s \in Slot |-> Free]
    /\ UNCHANGED <<ops, log, batches>>

AdminNext ==
    \/ \E s \in Slot :
          \/ \E o \in Commands : Accept(s, o)
          \/ RunCycle(s) \/ ForceReanalysis(s) \/ ListRetryable(s) \/ CallFails(s)
          \/ \E f \in Folder : ResumePublication(s, f)
          \/ Record(s) \/ RecordFails(s) \/ RecordSummary(s)
    \/ Crash

AdminSpec == AdminInit /\ [][AdminNext]_adminVars
-----------------------------------------------------------------------------
OpIndex == 1 .. MaxOps
Operation == [came : Came, folder : Folder \cup {NoFolder}]
Batch == [folders : SUBSET Folder, members : SUBSET OpIndex, row : Outcome \cup {"none"}]
Command == [pc : {"free", "call", "audit", "audit_last", "summary"}, op : Commands,
            todo : SUBSET Folder, n : 0 .. MaxOps, claim : Outcome,
            members : SUBSET (OpIndex \X Outcome), b : 0 .. MaxBatches]

AdminTypeOK ==
    /\ cmd \in [Slot -> Command]
    /\ \A s \in Slot : cmd[s].pc \in Auditing => cmd[s].n \in DOMAIN ops
    /\ \A s \in Slot : cmd[s].b # 0 => cmd[s].b \in DOMAIN batches
    /\ ops \in Seq(Operation) /\ Len(ops) <= MaxOps
    /\ log \in [OpIndex -> Seq(Outcome)]
    /\ batches \in Seq(Batch) /\ Len(batches) <= MaxBatches
    /\ faults \in 0 .. MaxFaults

(***************************************************************************)
(* A row that claims success is one of an operation that reached its goal, *)
(* or of one whose answer hides that it did not: a resumption that leaves  *)
(* the publication partial, a cycle whose lock only its release found      *)
(* lost.  A cycle that was refused or failed, an analysis that was         *)
(* rejected or threw, is never recorded as a success, whatever writes of   *)
(* the log failed on the way (admin-ops-service.ts).  A row that claims a  *)
(* failure need not be true: see RecordFails.                              *)
(***************************************************************************)
SuccessIsTrue ==
    \A n \in DOMAIN ops : \A i \in DOMAIN log[n] :
        log[n][i] = "succeeded" => ops[n].came \in {"reached", "partly"}

Final(n) == log[n][Len(log[n])]

\* The row of batch b, against the rows of the operations it consists of.
Agrees(b) ==
    /\ {ops[n].folder : n \in b.members} = b.folders
    /\ \A n \in b.members : log[n] # <<>>
    /\ b.row = "failed" <=> \E n \in b.members : Final(n) = "failed"
    /\ b.row = "skipped" <=> \A n \in b.members : Final(n) = "skipped"

(***************************************************************************)
(* The row of a batch agrees with the rows of its members: it covers one   *)
(* operation of each publication that was listed, each of them left a row, *)
(* and it claims what their last rows come to together, whatever writes    *)
(* failed, whoever resumed the same publications at the same time.         *)
(***************************************************************************)
BatchIsTrue ==
    \A i \in DOMAIN batches : batches[i].row # "none" => Agrees(batches[i])

UnderWay(n) == \E s \in Slot : cmd[s].pc \in Auditing /\ cmd[s].n = n
BatchUnderWay(i) == \E s \in Slot : cmd[s].b = i

\* The outcome that tells what an operation came to, as its answer has it.
Tells(came, claim) ==
    /\ claim = "succeeded" <=> came \in {"reached", "partly"}
    /\ came \notin {"reached", "partly"} => claim = came

(***************************************************************************)
(* As long as no write fails and the bot lives, every operation that ended *)
(* left one row, rejections included, which tells what it came to; and     *)
(* every batch left its row, one without publications included.            *)
(***************************************************************************)
OneRowEach ==
    faults = 0 =>
        /\ \A n \in DOMAIN ops : \/ UnderWay(n)
                                 \/ \E claim \in Outcome : /\ log[n] = <<claim>>
                                                           /\ Tells(ops[n].came, claim)
        /\ \A i \in DOMAIN batches : BatchUnderWay(i) \/ batches[i].row # "none"

(***************************************************************************)
(* The types, and a log whose rows, of operations and of batches, claim no *)
(* success beside a failure.                                               *)
(***************************************************************************)
LogInv == AdminTypeOK /\ SuccessIsTrue /\ BatchIsTrue
=============================================================================
