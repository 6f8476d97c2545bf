--------------------------- MODULE MatchingStage ---------------------------
(***************************************************************************)
(* The matching of articles to folders inside pipeline cycles: the stage   *)
(* of runCycle (packages/database/src/pipeline-orchestrator.ts) that loads *)
(* the candidate folders once, evaluates each new or updated article       *)
(* against that snapshot, and persists the decision in one transaction     *)
(* (matching-persistence-service.ts).                                      *)
(*                                                                         *)
(* A folder is named by the article that created it, its primary member:   *)
(* it is created with that member, in one transaction.  Folders stay open: *)
(* no code sets another status, so that only their number limits which are *)
(* candidates.                                                             *)
(***************************************************************************)
EXTENDS Matching, SequencesExt

CONSTANTS
    Article,
    Cycle,
    Idle,       \* no article in hand
    Settings    \* the worlds looked at.  cycles: those that may run; of two,
                \* one runs on after its lock was stolen.  texts: what an
                \* article may say.  take: how many folders are candidates,
                \* latest active first (500).  batch, edits: bounds, on the
                \* new or updated articles of a cycle, and on the articles
                \* republished with another text

ASSUME StageAssumption ==
    /\ IsFiniteSet(Article) /\ Idle \notin Article /\ None \notin Article
    /\ \A s \in Settings :
          /\ s.cycles \subseteq Cycle /\ s.take \in Nat \ {0}
          /\ s.batch \in Nat \ {0} /\ s.edits \in Nat
          /\ \A t \in s.texts : IsFiniteSet(t.names)

VARIABLES
    set,        \* the setting of this behaviour
    text,       \* text[a]: what the row of article a says
    saved,      \* articles that have a row
    members,    \* members[f]: the articles of folder f, in order of attachment;
                \* <<>> while f does not exist
    recent,     \* the folders, by lastActivityAt, latest first
    decisions,  \* decisions[a]: the issues of the decisions recorded for a
    cyc,        \* cyc[c]: the phase of cycle c, the texts of its eligible
                \* articles, its candidates, and what it found undecided
    edits

vars == <<set, text, saved, members, recent, decisions, cyc, edits>>

NoTexts == [a \in {} |-> None]
Asleep == [phase |-> "off", eligible |-> NoTexts, candidates |-> NoTexts,
           hand |-> Idle, said |-> None]

Folders == {recent[i] : i \in DOMAIN recent}
Members(f) == {members[f][i] : i \in DOMAIN members[f]}
Placed == UNION {Members(f) : f \in Folders}
FolderPrint(f) ==
    MergeFingerprints([i \in DOMAIN members[f] |-> FingerprintOf(text[members[f][i]])])

Init ==
    /\ set \in Settings
    /\ text \in [Article -> set.texts]
    /\ saved = {}
    /\ members = [f \in Article |-> <<>>]
    /\ recent = <<>>
    /\ decisions = [a \in Article |-> {}]
    /\ cyc = [c \in Cycle |-> Asleep]
    /\ edits = 0

-----------------------------------------------------------------------------
\* The sources are collected: articles are created, and a row whose article is
\* published anew is updated.  Only these are eligible for the cycle.
Collect(c, new, edited, t) ==
    /\ c \in set.cycles /\ cyc[c].phase = "off"
    /\ new \cap saved = {} /\ edited \subseteq saved
    /\ new \cup edited # {} /\ Cardinality(new \cup edited) <= set.batch
    /\ edits + Cardinality(edited) <= set.edits
    /\ \A a \in edited : t # text[a]
    /\ edits' = edits + Cardinality(edited)
    /\ saved' = saved \cup new
    /\ text' = [a \in Article |-> IF a \in edited THEN t ELSE text[a]]
    /\ cyc' = [cyc EXCEPT ![c] = [Asleep EXCEPT
                   !.phase = "collected",
                   !.eligible = [a \in new \cup edited |-> text'[a]]]]
    /\ UNCHANGED <<set, members, recent, decisions>>

Latest == {recent[i] : i \in {j \in DOMAIN recent : j <= set.take}}

LoadCandidates(c) ==
    /\ cyc[c].phase = "collected"
    /\ cyc' = [cyc EXCEPT ![c].phase = "matching",
                          ![c].candidates = [f \in Latest |-> FolderPrint(f)]]
    /\ UNCHANGED <<set, text, saved, members, recent, decisions, edits>>

\* getArticleMembership and hasMatchingDecisionForArticle.
AlreadyProcessed(a) == a \in Placed \/ decisions[a] # {}

\* The next eligible article, with the text it was saved with.
Consider(c, a) ==
    LET left == cyc[c].eligible
    IN  /\ cyc[c].phase = "matching" /\ cyc[c].hand = Idle
        /\ a \in DOMAIN left
        /\ cyc' = [cyc EXCEPT
               ![c].eligible = [b \in DOMAIN left \ {a} |-> left[b]],
               ![c].hand = IF AlreadyProcessed(a) THEN Idle ELSE a,
               ![c].said = IF AlreadyProcessed(a) THEN None ELSE left[a]]
        /\ UNCHANGED <<set, text, saved, members, recent, decisions, edits>>

-----------------------------------------------------------------------------
\* persistDecision, by issue.
Touch(f) == recent' = <<f>> \o RemoveFirst(recent, f)

PersistCreateDossier(a) ==
    /\ members' = [members EXCEPT ![a] = <<a>>]
    /\ Touch(a)

PersistAttachEnrich(a, f) ==
    /\ members' = [members EXCEPT ![f] = Append(@, a)]
    /\ Touch(f)

RolledBackNever(p, a) == FALSE

\* An article is a member of one folder at most: the transaction that would
\* place it again is rolled back.
RolledBack(p, a) == p.issue \in {"create_dossier", "attach_enrich"} /\ a \in Placed

PersistDecision(a, p) ==
    IF RolledBack(p, a)
    THEN UNCHANGED <<members, recent, decisions>>
    ELSE /\ CASE p.issue = "create_dossier" -> PersistCreateDossier(a)
              [] p.issue = "attach_enrich" -> PersistAttachEnrich(a, p.folder)
              [] OTHER -> UNCHANGED <<members, recent>>
         /\ decisions' = [decisions EXCEPT ![a] = @ \cup {p.issue}]

Process(c) ==
    LET a == cyc[c].hand
    IN  /\ a # Idle
        /\ PersistDecision(a, EvaluateArticle(cyc[c].said, cyc[c].candidates))
        /\ cyc' = [cyc EXCEPT ![c].hand = Idle, ![c].said = None]
        /\ UNCHANGED <<set, text, saved, edits>>

EndCycle(c) ==
    /\ cyc[c].phase = "matching" /\ cyc[c].hand = Idle /\ cyc[c].eligible = NoTexts
    /\ cyc' = [cyc EXCEPT ![c] = Asleep]
    /\ UNCHANGED <<set, text, saved, members, recent, decisions, edits>>

\* The process dies, the lock is lost or a read fails: the eligible articles
\* were only in memory.
Abort(c) ==
    /\ cyc[c].phase # "off"
    /\ cyc' = [cyc EXCEPT ![c] = Asleep]
    /\ UNCHANGED <<set, text, saved, members, recent, decisions, edits>>

Next ==
    \E c \in Cycle :
        \/ \E new, edited \in SUBSET Article, t \in set.texts : Collect(c, new, edited, t)
        \/ LoadCandidates(c)
        \/ \E a \in Article : Consider(c, a)
        \/ Process(c)
        \/ EndCycle(c)
        \/ Abort(c)

Spec == Init /\ [][Next]_vars

-----------------------------------------------------------------------------
TypeOK ==
    /\ text \in [Article -> set.texts]
    /\ saved \subseteq Article
    /\ members \in [Article -> Seq(saved)]
    /\ Folders = {f \in Article : members[f] # <<>>}
    /\ recent \in Seq(saved) /\ IsInjective(recent)
    /\ decisions \in [Article -> SUBSET Issue]
    /\ edits \in 0 .. set.edits
    /\ \A c \in Cycle :
          /\ cyc[c].phase \in {"off", "collected", "matching"}
          /\ DOMAIN cyc[c].eligible \subseteq saved
          /\ DOMAIN cyc[c].candidates \subseteq Folders
          /\ cyc[c].hand \in saved \cup {Idle}

\* Every cycle sees the folders as they are: it brings one article, and no other
\* cycle runs beside it.
OneAtATime == (\A c, d \in set.cycles : c = d) /\ set.batch = 1 /\ set.edits = 0

(***************************************************************************)
(* The members of a folder tell of one event: no two of them name          *)
(* different products or different versions, though the first members may  *)
(* name none.  It takes cycles of one article: candidates that a cycle has *)
(* itself outdated let two versions in.                                    *)
(***************************************************************************)
OneEventPerFolder ==
    OneAtATime =>
      \A f \in Folders : \A a, b \in Members(f) :
        /\ ~Differ(text[a].product, text[b].product)
        /\ ~Differ(text[a].version, text[b].version)

(***************************************************************************)
(* A folder is created only for an event no folder is about yet: the       *)
(* article could be attached to none of those that are the latest active   *)
(* at that time, as long as a cycle brings one article.  An event whose    *)
(* folder is not among the 500 latest gets another folder.                 *)
(***************************************************************************)
CreatesOnlyWhenNew ==
    [][OneAtATime => \A a \in Article : a \in Folders' \ Folders =>
          \A f \in Latest : ~Attachable(FingerprintOf(text[a]), FolderPrint(f))]_vars

(***************************************************************************)
(* Even when two cycles process an article side by side, it is placed in   *)
(* one folder at most, once, and one decision says so; a folder is led by  *)
(* the article it was created for.                                         *)
(***************************************************************************)
PlacedOnce ==
    /\ \A f, g \in Folders : f # g => Members(f) \cap Members(g) = {}
    /\ \A f \in Folders :
          /\ IsInjective(members[f])
          /\ members[f][1] = f
          /\ \A a \in Members(f) :
                decisions[a] \cap {"create_dossier", "attach_enrich"}
                  = IF a = f THEN {"create_dossier"} ELSE {"attach_enrich"}

(***************************************************************************)
(* What decides that an article tells of the event of a folder: no         *)
(* conflict, and the same page, or an entity in common with the nature of  *)
(* the announcement or the version.  Dates, categories and the product add *)
(* nothing, whatever the fourteen days of matching-thresholds.ts suggest.  *)
(***************************************************************************)
SameEvent(p, q) ==
    /\ ~BlockingConflict(p, q)
    /\ \/ SameUrl(p, q)
       \/ SameEntities(p, q) /\ (SameNature(p, q) \/ SameVersion(p, q))

ProximityNeverDecides ==
    \A a \in saved, f \in Folders :
        LET p == FingerprintOf(text[a])
        IN  Attachable(p, FolderPrint(f)) <=> SameEvent(p, FolderPrint(f))

(***************************************************************************)
(* The types; each article in one folder, whatever two cycles do to the    *)
(* same articles; and no folder found by its dates alone.                  *)
(***************************************************************************)
MatchingInv == TypeOK /\ PlacedOnce /\ ProximityNeverDecides
=============================================================================
