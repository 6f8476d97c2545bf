--------------------------- MODULE PipelineCycle ---------------------------
(***************************************************************************)
(* One pipeline cycle after another, from the feeds to Discord: runCycle   *)
(* of packages/database/src/pipeline-orchestrator.ts, with the rows it     *)
(* keeps through raw-feed-repository.ts, normalized-article-repository.ts  *)
(* and the matching, analysis and publication stages.                      *)
(*                                                                         *)
(* Cycles do not overlap here (PipelineLock), a matching decision is one   *)
(* of its outcomes (MatchingStage), and so is a publication (Publication). *)
(* What is at stake is what a fault in the middle of a cycle loses: the    *)
(* state of a source is stored before its articles, and the list of the    *)
(* articles to match is only in memory.                                    *)
(*                                                                         *)
(* An ETag is modelled by the items of the feed it stands for.  A folder   *)
(* is named by the article that created or last enriched it.               *)
(***************************************************************************)
EXTENDS Integers, Sequences, FiniteSets

CONSTANTS
    Source,
    Article,
    Home,        \* Home[a]: the source that publishes a
    Nobody,      \* no source or article in hand
    Backoff,     \* the delays of backoffScheduleMs, in ticks
    MaxVersion,  \* bound: of the versions of an article
    Settings     \* the worlds looked at: the kinds of fault that may happen,
                 \* how many do (a bound), and the versions of an article,
                 \* 1 when none is edited

ASSUME CycleAssumption ==
    /\ Home \in [Article -> Source]
    /\ Nobody \notin Source \cup Article
    /\ Backoff \in Seq(Nat) /\ Backoff # <<>>
    /\ MaxVersion \in Nat \ {0}
    /\ \A s \in Settings :
          /\ s.kinds \subseteq {"crash", "lock_lost", "registry", "fetch", "db",
                                "analysis", "discord"}
          /\ s.faults \in Nat /\ s.versions \in 1 .. MaxVersion

VARIABLES
    set,        \* the setting of this behaviour
    feed,       \* feed[s]: the items <<article, version>> listed by s now
    st,         \* st[s]: the CollectedSourceState row of s
    rows,       \* rows[a]: the version of the article row, 0 when there is none
    decided,    \* decided[a]: "no", "skipped" or "placed" by a matching decision
    analysed,   \* analysed[a]: "no", "failed", or the decision for its folder,
                \* "hold" (for all that is not published) or "publish"
    published,  \* published[a]: "none", "partial" or "done", of its folder
    cyc,        \* the cycle that runs; got: the articles it is to bring to an end
    status,     \* how the last cycle ended
    faults

db == <<st, rows, decided, analysed, published>>
vars == <<set, feed, db, cyc, status, faults>>

NoEtag == {Nobody}

Off == [phase |-> "off", todo |-> {}, src |-> Nobody, items |-> {}, eligible |-> {},
        art |-> Nobody, resume |-> {}, got |-> {}, degraded |-> FALSE, lost |-> FALSE]

Init ==
    /\ set \in Settings
    /\ feed = [s \in Source |-> {}]
    /\ st = [s \in Source |-> [etag |-> NoEtag, failures |-> 0, due |-> 0]]
    /\ rows = [a \in Article |-> 0]
    /\ decided = [a \in Article |-> "no"]
    /\ analysed = [a \in Article |-> "no"]
    /\ published = [a \in Article |-> "none"]
    /\ cyc = Off
    /\ status = "none"
    /\ faults = 0

Fault(kind) ==
    /\ kind \in set.kinds /\ faults < set.faults
    /\ faults' = faults + 1

At(phase) == cyc.phase = phase

-----------------------------------------------------------------------------
(* The world: feeds change, time passes between cycles.                    *)

Listed(a) == \E v \in 1 .. MaxVersion : <<a, v>> \in feed[Home[a]]

\* A source lists an article, or a later version of it.
List(a, v) ==
    /\ v <= set.versions /\ rows[a] < v
    /\ \A i \in feed[Home[a]] : i[1] = a => i[2] < v
    /\ feed' = [feed EXCEPT ![Home[a]] = {i \in @ : i[1] # a} \cup {<<a, v>>}]
    /\ UNCHANGED <<set, db, cyc, status, faults>>

\* An old article leaves the feed.
Drop(a) ==
    /\ Listed(a)
    /\ feed' = [feed EXCEPT ![Home[a]] = {i \in @ : i[1] # a}]
    /\ UNCHANGED <<set, db, cyc, status, faults>>

Tick ==
    /\ At("off")
    /\ \E s \in Source : st[s].due > 0
    /\ st' = [s \in Source |-> [st[s] EXCEPT !.due = IF @ > 0 THEN @ - 1 ELSE 0]]
    /\ UNCHANGED <<set, feed, rows, decided, analysed, published, cyc, status, faults>>

-----------------------------------------------------------------------------
(* The cycle: the sources, one after the other.                            *)

\* The lock is acquired and the registry read.
Start ==
    /\ At("off")
    /\ cyc' = [Off EXCEPT !.phase = "sources", !.todo = Source]
    /\ UNCHANGED <<set, feed, db, status, faults>>

\* releaseAndFinalize.
EndAs(s) == cyc' = Off /\ status' = s

RegistryInvalid ==
    /\ At("off") /\ Fault("registry")
    /\ EndAs("failed")
    /\ UNCHANGED <<set, feed, db>>

\* The heartbeat finds the lock lost.
LockLost ==
    /\ ~At("off") /\ ~cyc.lost /\ Fault("lock_lost")
    /\ cyc' = [cyc EXCEPT !.lost = TRUE, !.degraded = TRUE]
    /\ UNCHANGED <<set, feed, db, status>>

NextSourceNeverFailed(s) ==
    /\ At("sources") /\ ~cyc.lost /\ s \in cyc.todo
    /\ cyc' = IF st[s].failures > 0
              THEN [cyc EXCEPT !.todo = @ \ {s}]
              ELSE [cyc EXCEPT !.todo = @ \ {s}, !.src = s, !.phase = "fetching"]
    /\ UNCHANGED <<set, feed, db, status, faults>>

\* A source out of its backoff is fetched, any other is skipped.
NextSource(s) ==
    /\ At("sources") /\ ~cyc.lost /\ s \in cyc.todo
    /\ cyc' = IF st[s].due > 0
              THEN [cyc EXCEPT !.todo = @ \ {s}]
              ELSE [cyc EXCEPT !.todo = @ \ {s}, !.src = s, !.phase = "fetching"]
    /\ UNCHANGED <<set, feed, db, status, faults>>

ToSources(c) == [c EXCEPT !.phase = "sources", !.src = Nobody, !.items = {}]
Degraded(c)  == [c EXCEPT !.degraded = TRUE]

ComputeNextEligibleAt(failures) ==
    Backoff[IF failures > Len(Backoff) THEN Len(Backoff) ELSE failures]

\* The backoff may fail to be saved as well, which is noted and no more.
RecordSourceBackoff(s) ==
    LET n == st[s].failures + 1
    IN  \/ st' = [st EXCEPT ![s].failures = n, ![s].due = ComputeNextEligibleAt(n)]
        \/ "db" \in set.kinds /\ UNCHANGED st

Cleared(row) == [row EXCEPT !.failures = 0, !.due = 0]

CollectFailsStored ==
    /\ At("fetching") /\ Fault("fetch")
    /\ st' = [st EXCEPT ![cyc.src].etag = feed[cyc.src]]
    /\ cyc' = Degraded(ToSources(cyc))
    /\ UNCHANGED <<set, feed, rows, decided, analysed, published, status>>

CollectFails ==
    /\ At("fetching") /\ Fault("fetch")
    /\ RecordSourceBackoff(cyc.src)
    /\ cyc' = Degraded(ToSources(cyc))
    /\ UNCHANGED <<set, feed, rows, decided, analysed, published, status>>

\* 304: the state is saved and the backoff cleared; an error on the way counts
\* as a failed collection.
NotModified ==
    /\ At("fetching") /\ feed[cyc.src] = st[cyc.src].etag
    /\ \/ /\ st' = [st EXCEPT ![cyc.src] = Cleared(@)]
          /\ cyc' = ToSources(cyc)
          /\ UNCHANGED faults
       \/ /\ Fault("db")
          /\ RecordSourceBackoff(cyc.src)
          /\ cyc' = Degraded(ToSources(cyc))
    /\ UNCHANGED <<set, feed, rows, decided, analysed, published, status>>

\* 200: the snapshot and the state are saved, and the backoff is cleared,
\* before any article is.  An error leaves what was saved and gives up.
Collected ==
    /\ At("fetching") /\ feed[cyc.src] # st[cyc.src].etag
    /\ \/ /\ st' = [st EXCEPT ![cyc.src] = [Cleared(@) EXCEPT !.etag = feed[cyc.src]]]
          /\ cyc' = [cyc EXCEPT !.phase = "saving", !.items = feed[cyc.src]]
          /\ UNCHANGED faults
       \/ /\ Fault("db")
          /\ \/ st' = st
             \/ st' = [st EXCEPT ![cyc.src].etag = feed[cyc.src]]
          /\ cyc' = Degraded(ToSources(cyc))
    /\ UNCHANGED <<set, feed, rows, decided, analysed, published, status>>

\* An article that is new or changed is eligible; a row that is not saved is
\* skipped.
SaveArticle(i) ==
    /\ At("saving") /\ i \in cyc.items
    /\ \/ /\ rows' = [rows EXCEPT ![i[1]] = i[2]]
          /\ cyc' = [cyc EXCEPT !.items = @ \ {i},
                                !.eligible = @ \cup {a \in {i[1]} : rows[a] # i[2]},
                                !.got = @ \cup {a \in {i[1]} : rows[a] # i[2]}]
          /\ UNCHANGED faults
       \/ /\ Fault("db")
          /\ cyc' = Degraded([cyc EXCEPT !.items = @ \ {i}, !.got = @ \cup {i[1]}])
          /\ UNCHANGED rows
    /\ UNCHANGED <<set, feed, st, decided, analysed, published, status>>

SourceDone ==
    /\ At("saving") /\ cyc.items = {}
    /\ cyc' = ToSources(cyc)
    /\ UNCHANGED <<set, feed, db, status, faults>>

\* The candidates are loaded.
SourcesDone ==
    /\ At("sources") /\ cyc.todo = {} /\ ~cyc.lost
    /\ cyc' = [cyc EXCEPT !.phase = "articles"]
    /\ UNCHANGED <<set, feed, db, status, faults>>

\* The checks of the lock, between sources and between articles.
StopRobbed ==
    /\ cyc.lost
    /\ \/ At("sources")
       \/ At("articles") /\ cyc.art = Nobody
       \/ At("resume") /\ cyc.resume = {}
    /\ EndAs("failed")
    /\ UNCHANGED <<set, feed, db, faults>>

\* A read outside the try blocks fails: the state of a source, the candidates,
\* the membership or the decision of an article.
ReadFails ==
    /\ ~cyc.lost
    /\ \/ At("sources")
       \/ At("articles") /\ cyc.art = Nobody /\ cyc.eligible # {}
    /\ Fault("db")
    /\ EndAs("failed")
    /\ UNCHANGED <<set, feed, db>>

-----------------------------------------------------------------------------
(* The articles, one after the other, through to Discord.                  *)

NextArticle(a) ==
    /\ At("articles") /\ cyc.art = Nobody /\ ~cyc.lost /\ a \in cyc.eligible
    /\ cyc' = IF decided[a] = "no"
              THEN [cyc EXCEPT !.eligible = @ \ {a}, !.art = a]
              ELSE [cyc EXCEPT !.eligible = @ \ {a}, !.got = @ \ {a}]
    /\ UNCHANGED <<set, feed, db, status, faults>>

Put(phase) == cyc' = [cyc EXCEPT !.phase = phase]
ArticleDone(c) == [c EXCEPT !.phase = "articles", !.art = Nobody]

Match ==
    /\ At("articles") /\ cyc.art # Nobody
    /\ \/ /\ decided' = [decided EXCEPT ![cyc.art] = "skipped"]
          /\ cyc' = ArticleDone(cyc)
       \/ /\ decided' = [decided EXCEPT ![cyc.art] = "placed"]
          /\ Put("analysing")
    /\ UNCHANGED <<set, feed, st, rows, analysed, published, status, faults>>

MatchFailsUnnoticed ==
    /\ At("articles") /\ cyc.art # Nobody /\ Fault("db")
    /\ cyc' = ArticleDone(cyc)
    /\ UNCHANGED <<set, feed, db, status>>

MatchFails ==
    /\ At("articles") /\ cyc.art # Nobody /\ Fault("db")
    /\ cyc' = Degraded(ArticleDone(cyc))
    /\ UNCHANGED <<set, feed, db, status>>

\* A failed analysis is recorded with the decision hold, an error of the
\* database leaves none.
Analyse ==
    /\ At("analysing")
    /\ \/ /\ \E d \in {"hold", "publish"} : analysed' = [analysed EXCEPT ![cyc.art] = d]
          /\ Put("publishing")
          /\ UNCHANGED faults
       \/ /\ Fault("analysis")
          /\ analysed' = [analysed EXCEPT ![cyc.art] = "failed"]
          /\ cyc' = Degraded([cyc EXCEPT !.phase = "publishing"])
       \/ /\ Fault("db")
          /\ cyc' = Degraded(ArticleDone(cyc))
          /\ UNCHANGED analysed
    /\ UNCHANGED <<set, feed, st, rows, decided, published, status>>

\* maybePublish: deferred when Discord is not available.
MaybePublish ==
    /\ At("publishing")
    /\ \/ /\ published' = [published EXCEPT ![cyc.art] =
                               IF analysed[cyc.art] = "publish" THEN "done" ELSE @]
          /\ cyc' = ArticleDone(cyc)
          /\ UNCHANGED faults
       \/ /\ Fault("discord")
          /\ \/ UNCHANGED published
             \/ /\ analysed[cyc.art] = "publish"
                /\ published' = [published EXCEPT ![cyc.art] = "partial"]
          /\ cyc' = Degraded(ArticleDone(cyc))
    /\ UNCHANGED <<set, feed, st, rows, decided, analysed, status>>

PartialUnsent == {a \in Article : published[a] = "none"}

Partial == {a \in Article : published[a] = "partial"}

\* The publications to resume are listed: with Discord away they are deferred.
ArticlesDone ==
    /\ At("articles") /\ cyc.art = Nobody /\ cyc.eligible = {} /\ ~cyc.lost
    /\ \/ /\ cyc' = [cyc EXCEPT !.phase = "resume", !.resume = Partial]
          /\ UNCHANGED faults
       \/ /\ Fault("discord")
          /\ cyc' = [cyc EXCEPT !.phase = "resume", !.degraded = @ \/ Partial # {}]
       \/ /\ Fault("db")
          /\ cyc' = Degraded([cyc EXCEPT !.phase = "resume"])
    /\ UNCHANGED <<set, feed, db, status>>

\* resumePublications does not look at the lock between two folders.
Resume(a) ==
    /\ At("resume") /\ a \in cyc.resume
    /\ \/ /\ published' = [published EXCEPT ![a] = "done"]
          /\ cyc' = [cyc EXCEPT !.resume = @ \ {a}]
          /\ UNCHANGED faults
       \/ /\ Fault("discord")
          /\ cyc' = Degraded([cyc EXCEPT !.resume = @ \ {a}])
          /\ UNCHANGED published
    /\ UNCHANGED <<set, feed, st, rows, decided, analysed, status>>

DecideFinalStatus(degraded) == IF degraded THEN "degraded" ELSE "completed"

\* The old snapshots are purged, if the database lets them, and the lock is released.
Finish ==
    /\ At("resume") /\ cyc.resume = {} /\ ~cyc.lost
    /\ \/ EndAs(DecideFinalStatus(cyc.degraded)) /\ UNCHANGED faults
       \/ EndAs(DecideFinalStatus(TRUE)) /\ Fault("db")
    /\ UNCHANGED <<set, feed, db>>

Crash ==
    /\ ~At("off") /\ Fault("crash")
    /\ EndAs("failed")
    /\ UNCHANGED <<set, feed, db>>

-----------------------------------------------------------------------------
CycleStep ==
    \/ \E s \in Source : NextSource(s)
    \/ CollectFails \/ NotModified \/ Collected
    \/ \E i \in Article \X (1 .. MaxVersion) : SaveArticle(i)
    \/ SourceDone \/ SourcesDone \/ StopRobbed \/ ReadFails
    \/ \E a \in Article : NextArticle(a) \/ Resume(a)
    \/ Match \/ MatchFails \/ Analyse \/ MaybePublish
    \/ ArticlesDone \/ Finish

Next ==
    \/ \E a \in Article, v \in 1 .. MaxVersion : List(a, v)
    \/ \E a \in Article : Drop(a)
    \/ Tick \/ Start \/ RegistryInvalid \/ LockLost \/ Crash
    \/ CycleStep

Spec == Init /\ [][Next]_vars

\* The scheduler starts cycles for ever, a cycle gets on with its work, time
\* passes between cycles.  Nothing makes a feed list or drop an article.
Fairness == WF_vars(Start) /\ WF_vars(CycleStep) /\ SF_vars(Tick)
FairSpec == Spec /\ Fairness

-----------------------------------------------------------------------------
TypeOK ==
    /\ set \in Settings
    /\ \A s \in Source : feed[s] \subseteq {i \in Article \X (1 .. MaxVersion) : Home[i[1]] = s}
    /\ \A s \in Source :
          /\ st[s].etag = NoEtag \/ st[s].etag \subseteq Article \X (1 .. MaxVersion)
          /\ st[s].failures \in 0 .. set.faults
          /\ st[s].due \in {0} \cup UNION {0 .. Backoff[i] : i \in DOMAIN Backoff}
    /\ rows \in [Article -> 0 .. MaxVersion]
    /\ decided \in [Article -> {"no", "skipped", "placed"}]
    /\ analysed \in [Article -> {"no", "failed", "hold", "publish"}]
    /\ published \in [Article -> {"none", "partial", "done"}]
    /\ status \in {"none", "completed", "degraded", "failed"}
    /\ faults \in 0 .. set.faults
    /\ cyc.phase \in {"off", "sources", "fetching", "saving", "articles", "analysing",
                     "publishing", "resume"}
    /\ cyc.eligible \subseteq {a \in Article : rows[a] # 0}
    /\ (cyc.src # Nobody) <=> (cyc.phase \in {"fetching", "saving"})
    /\ cyc.art # Nobody => cyc.phase \in {"articles", "analysing", "publishing"}

(***************************************************************************)
(* A run recorded as completed lost nothing: every article it found new or *)
(* changed was saved and matched, and those it placed were analysed, and   *)
(* published when the analysis said so.  Any fault on the way marks the    *)
(* run as degraded or failed.                                              *)
(***************************************************************************)
CompletedLostNothing ==
    [][status' = "completed" /\ cyc' # cyc /\ cyc' = Off =>
          \A a \in cyc.got :
              /\ rows[a] # 0 /\ decided[a] # "no"
              /\ decided[a] = "placed" => analysed[a] \in {"hold", "publish"}
              /\ analysed[a] = "publish" => published[a] = "done"]_vars

\* What loses the articles a cycle has in hand, or the state of their source.
Interrupting == {"crash", "lock_lost", "db"}
Uninterrupted == set.kinds \cap Interrupting = {}

(***************************************************************************)
(* As long as nothing interrupts a cycle after the state of a source is    *)
(* stored, an ETag stands for articles that all are saved and matched once *)
(* the cycle is over: the 304 it brings hides none.                        *)
(***************************************************************************)
StoredIsDecided ==
    Uninterrupted /\ At("off") => \A s \in Source : st[s].etag # NoEtag =>
        \A i \in st[s].etag : rows[i[1]] >= i[2] /\ decided[i[1]] # "no"

(***************************************************************************)
(* However often its source is refused, skipped for its backoff or not     *)
(* reached, an article that stays in the feed is matched in the end,       *)
(* unless a cycle was interrupted.                                         *)
(***************************************************************************)
ListedIsDecided ==
    \A a \in Article : <>[](Uninterrupted /\ Listed(a)) => <>(decided[a] # "no")

(***************************************************************************)
(* A partial publication is completed in the end by the cycles that        *)
(* follow, whatever happens to some of them.                               *)
(***************************************************************************)
PartialIsResumed ==
    \A a \in Article : published[a] = "partial" ~> published[a] = "done"

(***************************************************************************)
(* The types, and no article hidden behind an ETag.                        *)
(***************************************************************************)
PipelineInv == TypeOK /\ StoredIsDecided
=============================================================================
