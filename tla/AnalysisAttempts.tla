--------------------------- MODULE AnalysisAttempts ---------------------------
(***************************************************************************)
(* The analyses of one folder and the AnalysisAttempt rows they leave:     *)
(* packages/database/src/analysis-orchestrator.ts, analyze() of            *)
(* packages/analysis/src/analysis-service.ts, and the repository           *)
(* analysis-attempt-repository.ts.                                         *)
(*                                                                         *)
(* A cycle attaches an article to the folder, then analyses it; the forced *)
(* reanalysis of /radar-admin and the catch-up script analyse the folder   *)
(* as it is.  No transaction covers an analysis: it reads the publication, *)
(* then the folder, infers for minutes, counts the holds and the attempts, *)
(* and creates its row under the next number, which another analysis may   *)
(* have taken.                                                             *)
(*                                                                         *)
(* The aggregate fingerprint of a content of the folder is modelled by the *)
(* number of articles attached so far.                                     *)
(***************************************************************************)
EXTENDS AnalysisDecision, Sequences, FiniteSets

CONSTANTS
    Task,
    KindOf,       \* KindOf[t]: "cycle", "reanalyse" or "catch_up"
    MaxVersion,   \* bound: articles attached
    MaxAnalyses,  \* bound: analyses made
    Settings      \* the worlds looked at.  tasks: those that run; exclusive:
                  \* they do not overlap.  importance: "ordinary"; "major", a
                  \* rule of the deterministic fallback matches; "critical",
                  \* and so does evaluateImportance.  answers: the scores and
                  \* the worthiness the model may give.  tries: how often a
                  \* number is tried, 5.  versions, analyses: bounds

Importances == {"ordinary", "major", "critical"}

ASSUME AttemptsAssumption ==
    /\ IsFiniteSet(Task)
    /\ KindOf \in [Task -> {"cycle", "reanalyse", "catch_up"}]
    /\ MaxVersion \in Nat \ {0} /\ MaxAnalyses \in Nat
    /\ \A s \in Settings :
          /\ s.tasks \subseteq Task /\ s.exclusive \in BOOLEAN
          /\ s.importance \in Importances
          /\ s.answers \subseteq [composite : Score, worthiness : Worthiness, facts : Nat]
          /\ s.tries \in Nat \ {0}
          /\ s.versions \in 1 .. MaxVersion /\ s.analyses \in 0 .. MaxAnalyses

VARIABLES
    set,        \* the setting of this behaviour
    version,    \* articles attached to the folder
    attempts,   \* attempts[v]: the rows of fingerprint v, in the order they were created
    main,       \* the folder has its main message
    clock,      \* orders analyzedAt
    ex          \* ex[t]: where analysis t is

vars == <<set, version, attempts, main, clock, ex>>

Version == 1 .. MaxVersion
Terminal == {"publish", "enrich_thread_only", "reject_editorial"}

\* A row: accepted, or rejected as a technical failure (hold) or a skip (none).
Row(num, decision, accepted, at) ==
    [num |-> num, decision |-> decision, accepted |-> accepted, at |-> at]

\* What an inference ends with.
Success(scores) == [outcome |-> "ok", composite |-> scores.composite,
                    worthiness |-> scores.worthiness, facts |-> scores.facts]
Failure(why) == [outcome |-> why, composite |-> 0, worthiness |-> "none", facts |-> 0]
Outcomes == {Success(a) : a \in set.answers} \cup {Failure("failed"), Failure("wrong_model")}

\* fixed: the number a failure insists on, 0 when each try counts anew.
\* since: how many attempts there were at its first try.
Idle == [pc |-> "idle", version |-> 0, main |-> FALSE, material |-> FALSE, at |-> 0,
         holds |-> 0, answer |-> Failure("none"), row |-> Row(0, "none", FALSE, 0),
         fixed |-> 0, num |-> 0, tries |-> 0, since |-> 0]

Init ==
    /\ set \in Settings
    /\ version = 0
    /\ attempts = [v \in Version |-> <<>>]
    /\ main = FALSE
    /\ clock = 0
    /\ ex = [t \in Task |-> Idle]

-----------------------------------------------------------------------------
(* The repository.                                                         *)

\* Mutant of CountAttempts: the attempts of the folder, whatever their fingerprint.
CountAttemptsOfFolder(v) == Len(attempts[v]) + IF v = 1 THEN 0 ELSE Len(attempts[1])

CountAttempts(v) == Len(attempts[v])

CountHolds(v) ==
    Cardinality({i \in DOMAIN attempts[v] : attempts[v][i].decision = "hold"})

AcceptedRows(v) == {i \in DOMAIN attempts[v] : attempts[v][i].accepted}

\* Row i is the latest by analyzedAt, then by creation.
LatestAccepted(v, i) ==
    /\ i \in AcceptedRows(v)
    /\ \A j \in AcceptedRows(v) :
        \/ attempts[v][j].at < attempts[v][i].at
        \/ attempts[v][j].at = attempts[v][i].at /\ j <= i

Taken(v, num) == \E i \in DOMAIN attempts[v] : attempts[v][i].num = num
-----------------------------------------------------------------------------
(* Before the inference.                                                   *)

At(t, pc) == ex[t].pc = pc
Active == {t \in Task : ex[t].pc # "idle"}
Stop(t) == ex' = [ex EXCEPT ![t] = Idle]

\* A cycle has attached an article; the others take the folder as it is, and the
\* catch-up script only one without a main message.
Begin(t) ==
    /\ t \in set.tasks /\ At(t, "idle")
    /\ set.exclusive => Active = {}
    /\ clock + Cardinality(Active) < set.analyses
    /\ IF KindOf[t] = "cycle"
       THEN /\ version < set.versions
            /\ version' = version + 1
            /\ ex' = [ex EXCEPT ![t].pc = "main", ![t].version = version + 1]
       ELSE /\ version > 0 /\ (KindOf[t] = "catch_up" => ~main)
            /\ ex' = [ex EXCEPT ![t].pc = "main"]
            /\ UNCHANGED version
    /\ UNCHANGED <<set, attempts, main, clock>>

\* getPublicationByFolder: what is known of the publication from now on.
ReadMain(t) ==
    /\ At(t, "main")
    /\ ex' = [ex EXCEPT ![t].pc = "folder", ![t].main = main]
    /\ UNCHANGED <<set, version, attempts, main, clock>>

\* evaluateImportance.
CriticalImportance == set.importance = "critical"

\* The issue was attach_enrich: to be analysed anew it must be material.
Enriches(t) == KindOf[t] = "cycle" /\ ex[t].version > 1

\* The decision of row i for the folder as it is now stands.
Stands(t, i) ==
    /\ KindOf[t] = "cycle"
    /\ LatestAccepted(version, i)
    /\ attempts[version][i].decision \in Terminal

Reusable(t) == \E i \in DOMAIN attempts[version] : Stands(t, i)

\* The members are read, which gives the fingerprint.  A terminal decision for it
\* is reused, unless the reanalysis is forced.
Reuse(t) ==
    /\ At(t, "folder")
    /\ \E i \in DOMAIN attempts[version] :
         /\ Stands(t, i)
         /\ ex' = [ex EXCEPT ![t].pc = "publish", ![t].version = version,
                             ![t].row = attempts[version][i]]
    /\ UNCHANGED <<set, version, attempts, main, clock>>

\* A row is to be recorded without an inference: for an immaterial enrichment, a
\* context that is too large, or a critical announcement, which does not wait for
\* the model.
Conclude(t, decision, accepted) ==
    /\ At(t, "folder") /\ ~Reusable(t)
    /\ ex' = [ex EXCEPT ![t].pc = "count", ![t].version = version,
                        ![t].row = Row(0, decision, accepted, clock)]
    /\ clock' = clock + 1
    /\ UNCHANGED <<set, version, attempts, main>>

NotMaterial(t)     == Enriches(t) /\ Conclude(t, "none", FALSE)
ContextTooLarge(t) == Conclude(t, "hold", FALSE)
PublishCritical(t) ==
    CriticalImportance /\ ~ex[t].main /\ Conclude(t, "publish", TRUE)

ToInfer(t) ==
    /\ At(t, "folder") /\ ~Reusable(t)
    /\ CriticalImportance => ex[t].main
    /\ ex' = [ex EXCEPT ![t].pc = "infer", ![t].version = version,
                        ![t].material = Enriches(t)]
    /\ UNCHANGED <<set, version, attempts, main, clock>>

-----------------------------------------------------------------------------
(* The inference and what is made of it.                                   *)

Infer(t, outcome) ==
    /\ At(t, "infer")
    /\ ex' = [ex EXCEPT ![t].pc = "holds", ![t].answer = outcome, ![t].at = clock]
    /\ clock' = clock + 1
    /\ UNCHANGED <<set, version, attempts, main>>

ReadHolds(t) ==
    /\ At(t, "holds")
    /\ ex' = [ex EXCEPT ![t].pc = "number", ![t].holds = CountHolds(ex[t].version)]
    /\ UNCHANGED <<set, version, attempts, main, clock>>

FallbackMatches(t) == set.importance # "ordinary" /\ ~ex[t].main

\* A failure keeps the number it reads here.
ReadNumber(t) ==
    LET a == ex[t].answer
        Conclusion(decision, accepted, fixed) ==
            ex' = [ex EXCEPT ![t].pc = "count", ![t].fixed = fixed,
                             ![t].row = Row(0, decision, accepted, ex[t].at)]
    IN  /\ At(t, "number")
        /\ IF a.outcome = "failed" /\ FallbackMatches(t)
             THEN Conclusion("publish", TRUE, 0)
           ELSE IF a.outcome # "ok"
             THEN Conclusion("hold", FALSE, CountAttempts(ex[t].version) + 1)
           ELSE Conclusion(DecidePublication(a.composite, a.worthiness, ex[t].main,
                               ex[t].material, a.facts, ex[t].holds), TRUE, 0)
        /\ UNCHANGED <<set, version, attempts, main, clock>>

-----------------------------------------------------------------------------
(* recordAttemptWithConflictRetry.                                         *)

\* Mutant of Count: the number of the first try is kept.
CountOnce(t) ==
    LET n == CountAttempts(ex[t].version)
    IN  /\ At(t, "count")
        /\ ex' = [ex EXCEPT ![t].pc = "create",
                            ![t].num = IF ex[t].fixed # 0 THEN ex[t].fixed
                                       ELSE IF ex[t].tries # 0 THEN ex[t].num ELSE n + 1,
                            ![t].since = IF ex[t].tries = 0 THEN n ELSE ex[t].since]
        /\ UNCHANGED <<set, version, attempts, main, clock>>

\* Each try counts the attempts again.
Count(t) ==
    LET n == CountAttempts(ex[t].version)
    IN  /\ At(t, "count")
        /\ ex' = [ex EXCEPT ![t].pc = "create",
                            ![t].num = IF ex[t].fixed # 0 THEN ex[t].fixed ELSE n + 1,
                            ![t].since = IF ex[t].tries = 0 THEN n ELSE ex[t].since]
        /\ UNCHANGED <<set, version, attempts, main, clock>>

\* recordAnalysisAttempt creates the row ...
Create(t) ==
    LET v == ex[t].version
    IN  /\ At(t, "create") /\ ~Taken(v, ex[t].num)
        /\ attempts' = [attempts EXCEPT ![v] = Append(@, [ex[t].row EXCEPT !.num = ex[t].num])]
        /\ ex' = [ex EXCEPT ![t].pc = "publish"]
        /\ UNCHANGED <<set, version, main, clock>>

\* ... or finds its number taken: the last try throws.
Conflict(t) ==
    /\ At(t, "create") /\ Taken(ex[t].version, ex[t].num)
    /\ ex' = [ex EXCEPT ![t].pc = IF ex[t].tries + 1 = set.tries THEN "lost" ELSE "count",
                        ![t].tries = @ + 1]
    /\ UNCHANGED <<set, version, attempts, main, clock>>

\* The caller publishes what was decided, as far as Discord and the publication
\* orchestrator let it; the forced reanalysis does not.
Publish(t) ==
    /\ At(t, "publish")
    /\ \/ UNCHANGED main
       \/ KindOf[t] # "reanalyse" /\ ex[t].row.decision = "publish" /\ main' = TRUE
    /\ Stop(t)
    /\ UNCHANGED <<set, version, attempts, clock>>

\* The row could not be numbered, a call of the database fails, or the process dies.
Abandon(t) ==
    /\ ~At(t, "idle")
    /\ Stop(t)
    /\ UNCHANGED <<set, version, attempts, main, clock>>

Next ==
    \E t \in Task :
        \/ Begin(t) \/ ReadMain(t) \/ Reuse(t)
        \/ NotMaterial(t) \/ ContextTooLarge(t) \/ PublishCritical(t) \/ ToInfer(t)
        \/ \E a \in Outcomes : Infer(t, a)
        \/ ReadHolds(t) \/ ReadNumber(t)
        \/ Count(t) \/ Create(t) \/ Conflict(t)
        \/ Publish(t) \/ Abandon(t)

Spec == Init /\ [][Next]_vars
-----------------------------------------------------------------------------
Decision == Terminal \cup {"hold", "none"}
RowType == [num : Nat, decision : Decision, accepted : BOOLEAN, at : 0 .. MaxAnalyses]

TypeOK ==
    /\ set \in Settings
    /\ version \in 0 .. MaxVersion
    /\ attempts \in [Version -> Seq(RowType)]
    /\ main \in BOOLEAN
    /\ clock \in 0 .. MaxAnalyses
    /\ ex \in [Task ->
          [pc : {"idle", "main", "folder", "infer", "holds", "number", "count", "create",
                 "publish", "lost"},
           version : 0 .. MaxVersion, main : BOOLEAN, material : BOOLEAN,
           at : 0 .. MaxAnalyses, holds : Nat,
           answer : Outcomes \cup {Failure("none")}, row : RowType, fixed : Nat, num : Nat,
           tries : 0 .. set.tries, since : Nat]]

(***************************************************************************)
(* The attempts of a fingerprint are numbered 1, 2, 3 ... in the order     *)
(* they are created, whatever number each analysis had in mind: the next   *)
(* one after the count is always free, so that a count cannot lead every   *)
(* later analysis to a number that is taken.                               *)
(***************************************************************************)
NumbersFollow == \A v \in Version : \A i \in DOMAIN attempts[v] : attempts[v][i].num = i

(***************************************************************************)
(* An analysis that gives up numbering its row (analysis-service.ts,       *)
(* recordAttemptWithConflictRetry) was overtaken at every try: as many     *)
(* others were recorded since its first one.  An inference that failed     *)
(* insists on its number and is left out.                                  *)
(***************************************************************************)
LostOnlyToOthers ==
    \A t \in Task :
        ex[t].tries > 0 /\ ex[t].fixed = 0 =>
            CountAttempts(ex[t].version) >= ex[t].since + ex[t].tries

(***************************************************************************)
(* "Anti-blocage : 2 hold déjà enregistrés -> reject_editorial"            *)
(* (analysis-decision.ts): the same content is put off twice at most, and  *)
(* once more by each other analysis under way when the holds were counted. *)
(***************************************************************************)
HoldsBounded ==
    \A v \in Version :
        Cardinality({i \in AcceptedRows(v) : attempts[v][i].decision = "hold"})
            <= 1 + (IF set.exclusive THEN 1 ELSE Cardinality(set.tasks))

(***************************************************************************)
(* The types, attempts without a gap, and a bound on the delays.           *)
(***************************************************************************)
AttemptsInv == TypeOK /\ NumbersFollow /\ HoldsBounded
=============================================================================
