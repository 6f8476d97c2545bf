------------------------- MODULE PipelineCycleProofs -------------------------
(***************************************************************************)
(* Why a completed cycle has lost nothing, and why a 304 hides no article  *)
(* when no cycle is interrupted, for any number of sources, articles,      *)
(* versions and faults.                                                    *)
(*                                                                         *)
(* What a cycle got is accounted for (GotInv): as long as the cycle is not *)
(* degraded, each article it found new or changed is in its hands, or      *)
(* brought to its end in the database.  Every fault degrades the cycle or  *)
(* ends it as failed, so that the account is right when it completes.      *)
(*                                                                         *)
(* The ETag of a source is stored before its articles.  Without an         *)
(* interruption, what it stands for is saved or among the items at hand,   *)
(* and a row that is saved is matched or at hand (HiddenInv); when the     *)
(* cycle is over nothing is at hand.                                       *)
(***************************************************************************)
EXTENDS PipelineCycle, TLAPS

Item == Article \X (1 .. MaxVersion)
ItemsOf(s) == {i \in Item : Home[i[1]] = s}

Phase == {"off", "sources", "fetching", "saving", "articles", "analysing", "publishing",
          "resume"}
Cycles ==
    [phase : Phase, todo : SUBSET Source, src : Source \cup {Nobody}, items : SUBSET Item,
     eligible : SUBSET Article, art : Article \cup {Nobody}, resume : SUBSET Article,
     got : SUBSET Article, degraded : BOOLEAN, lost : BOOLEAN]

DueTime == {0} \cup UNION {0 .. Backoff[i] : i \in DOMAIN Backoff}
SourceRow == [etag : {NoEtag} \cup SUBSET Item, failures : Nat, due : DueTime]

Typed ==
    /\ set \in Settings
    /\ feed \in [Source -> SUBSET Item]
    /\ st \in [Source -> SourceRow]
    /\ rows \in [Article -> 0 .. MaxVersion]
    /\ decided \in [Article -> {"no", "skipped", "placed"}]
    /\ analysed \in [Article -> {"no", "failed", "hold", "publish"}]
    /\ published \in [Article -> {"none", "partial", "done"}]
    /\ status \in {"none", "completed", "degraded", "failed"}
    /\ faults \in 0 .. set.faults
    /\ cyc \in Cycles

\* A feed lists articles of its source, each in one version.
OneVersion(items) == \A i, j \in items : i[1] = j[1] => i = j
OwnItems(s, items) == items \subseteq ItemsOf(s) /\ OneVersion(items)

FeedInv ==
    \A s \in Source :
        /\ OwnItems(s, feed[s])
        /\ st[s].etag # NoEtag => OwnItems(s, st[s].etag)
        /\ st[s].failures <= faults

\* What a cycle has in hand at each of its places.
Control ==
    /\ cyc.phase = "off" => cyc.lost = FALSE /\ cyc.degraded = FALSE /\ cyc.got = {}
    /\ cyc.src # Nobody <=> cyc.phase \in {"fetching", "saving"}
    /\ cyc.art # Nobody => cyc.phase \in {"articles", "analysing", "publishing"}
    /\ cyc.phase \in {"analysing", "publishing"} => cyc.art # Nobody
    /\ cyc.items # {} => cyc.phase = "saving"
    /\ cyc.phase = "saving" =>
          cyc.items \subseteq st[cyc.src].etag /\ OwnItems(cyc.src, cyc.items)
    /\ cyc.phase \in {"resume", "off"} => cyc.eligible = {}
    /\ cyc.lost => cyc.degraded
    /\ \A a \in cyc.eligible : rows[a] # 0
    /\ ~cyc.degraded => \A a \in cyc.got : rows[a] # 0

\* Only what was placed is analysed; the article in hand is matched, then analysed.
DecidedInv ==
    /\ \A a \in Article : decided[a] # "placed" => analysed[a] = "no"
    /\ cyc.art # Nobody =>
          decided[cyc.art] = IF cyc.phase = "articles" THEN "no" ELSE "placed"

HiddenInv ==
    Uninterrupted =>
        /\ ~cyc.lost
        /\ \A a \in Article : rows[a] # 0 =>
              decided[a] # "no" \/ a \in cyc.eligible \/ cyc.art = a
        /\ \A s \in Source : st[s].etag # NoEtag =>
              \A i \in st[s].etag : rows[i[1]] >= i[2] \/ i \in cyc.items

\* Brought to its end; on its way there.
Ended(a) ==
    /\ decided[a] # "no"
    /\ decided[a] = "placed" => analysed[a] \in {"hold", "publish"}
    /\ analysed[a] = "publish" => published[a] = "done"

InHand(a) ==
    \/ a \in cyc.eligible
    \/ cyc.art = a /\ (cyc.phase = "publishing" => analysed[a] \in {"hold", "publish"})

GotInv == ~cyc.degraded => \A a \in cyc.got : InHand(a) \/ Ended(a)

Inv == Typed /\ FeedInv /\ Control /\ DecidedInv /\ HiddenInv /\ GotInv

-----------------------------------------------------------------------------
(* What the definitions mean.                                              *)

LEMMA ItemOf ==
    ASSUME NEW i \in Item
    PROVE  i[1] \in Article /\ i[2] \in 1 .. MaxVersion /\ i[2] \in Nat /\ i[2] >= 1
BY CycleAssumption DEF Item

LEMMA OffIsCycle ==
    /\ Off \in Cycles
    /\ Off.phase = "off" /\ Off.items = {} /\ Off.eligible = {} /\ Off.got = {}
    /\ Off.art = Nobody /\ Off.src = Nobody /\ Off.lost = FALSE /\ Off.degraded = FALSE
    /\ Off.todo = {} /\ Off.resume = {}
BY DEF Off, Cycles, Phase

LEMMA InitInv == Init => Inv
<1>. SUFFICES ASSUME Init PROVE Inv
  OBVIOUS
<1>1. [etag |-> NoEtag, failures |-> 0, due |-> 0] \in SourceRow
  BY DEF SourceRow, DueTime
<1>2. MaxVersion \in Nat /\ set.faults \in Nat /\ set \in Settings
  BY CycleAssumption DEF Init
<1>3. Typed
  BY <1>1, <1>2, OffIsCycle DEF Init, Typed
<1>4. FeedInv
  BY DEF Init, FeedInv, OwnItems, OneVersion
<1>5. Control
  BY OffIsCycle DEF Init, Control
<1>6. DecidedInv /\ GotInv
  BY OffIsCycle DEF Init, DecidedInv, GotInv
<1>7. HiddenInv
  BY OffIsCycle DEF Init, HiddenInv
<1>. QED
  BY <1>3, <1>4, <1>5, <1>6, <1>7 DEF Inv

-----------------------------------------------------------------------------
(* The feeds change.                                                       *)

LEMMA FeedChanges ==
    ASSUME Inv, NEW s \in Source, NEW items \in SUBSET Item, OwnItems(s, items),
           feed' = [feed EXCEPT ![s] = items],
           UNCHANGED <<set, db, cyc, status, faults>>
    PROVE  Inv'
<1>1. Typed'
  BY DEF Inv, Typed, db
<1>2. FeedInv'
  <2>. SUFFICES ASSUME NEW u \in Source
                PROVE  /\ OwnItems(u, feed'[u])
                       /\ st'[u].etag # NoEtag => OwnItems(u, st'[u].etag)
                       /\ st'[u].failures <= faults'
    BY DEF FeedInv, OwnItems
  <2>1. feed'[u] = IF u = s THEN items ELSE feed[u]
    BY DEF Inv, Typed
  <2>. QED
    BY <2>1 DEF Inv, FeedInv, db
<1>3. Control' /\ DecidedInv'
  BY DEF Inv, Control, DecidedInv, OwnItems, OneVersion, db
<1>4. HiddenInv'
  BY DEF Inv, HiddenInv, Uninterrupted, db
<1>5. GotInv'
  BY DEF Inv, GotInv, InHand, Ended, db
<1>. QED
  BY <1>1, <1>2, <1>3, <1>4, <1>5 DEF Inv

LEMMA ListInv ==
    ASSUME Inv, NEW a \in Article, NEW v \in 1 .. MaxVersion, List(a, v)
    PROVE  Inv'
<1> DEFINE s == Home[a]
           kept == {i \in feed[s] : i[1] # a}
           items == kept \cup {<<a, v>>}
<1>1. s \in Source /\ feed[s] \subseteq Item /\ OwnItems(s, feed[s])
  BY CycleAssumption DEF Inv, Typed, FeedInv
<1>2. <<a, v>> \in Item /\ <<a, v>>[1] = a /\ Home[a] = s
  BY DEF Item
<1>3. items \in SUBSET Item /\ OwnItems(s, items)
  BY <1>1, <1>2 DEF OwnItems, OneVersion, ItemsOf
<1>4. feed' = [feed EXCEPT ![s] = items]
  BY <1>1 DEF List, Inv, Typed
<1>5. UNCHANGED <<set, db, cyc, status, faults>>
  BY DEF List
<1>. QED
  BY <1>1, <1>3, <1>4, <1>5, FeedChanges

LEMMA DropInv ==
    ASSUME Inv, NEW a \in Article, Drop(a)
    PROVE  Inv'
<1> DEFINE s == Home[a]
           items == {i \in feed[s] : i[1] # a}
<1>1. s \in Source /\ feed[s] \subseteq Item /\ OwnItems(s, feed[s])
  BY CycleAssumption DEF Inv, Typed, FeedInv
<1>2. items \in SUBSET Item /\ OwnItems(s, items)
  BY <1>1 DEF OwnItems, OneVersion
<1>3. feed' = [feed EXCEPT ![s] = items]
  BY <1>1 DEF Drop, Inv, Typed
<1>4. UNCHANGED <<set, db, cyc, status, faults>>
  BY DEF Drop
<1>. QED
  BY <1>1, <1>2, <1>3, <1>4, FeedChanges

-----------------------------------------------------------------------------
(* The steps that keep the articles in the hands of the cycle, and what is *)
(* known of them: between sources, a fetch without a new feed, a backoff.  *)

\* A fault is counted.
Counts == faults' \in 0 .. set.faults /\ faults' >= faults

LEMMA FaultCounts ==
    ASSUME Typed, NEW kind, Fault(kind)
    PROVE  Counts /\ faults' = faults + 1 /\ kind \in set.kinds
BY CycleAssumption DEF Typed, Fault, Counts

LEMMA SameCounts ==
    ASSUME Typed, UNCHANGED faults
    PROVE  Counts
BY CycleAssumption DEF Typed, Counts

\* The rows of the sources keep their ETag.
Backs ==
    /\ st' \in [Source -> SourceRow]
    /\ \A s \in Source : st'[s].etag = st[s].etag /\ st'[s].failures <= faults'

LEMMA SameBacks ==
    ASSUME Inv, UNCHANGED st, Counts
    PROVE  Backs
<1>1. ASSUME NEW s \in Source PROVE st[s].failures <= faults'
  <2>1. st[s].failures \in Nat /\ faults \in Nat /\ faults' \in Nat
    BY CycleAssumption DEF Inv, Typed, SourceRow, Counts
  <2>. QED
    BY <2>1 DEF Inv, FeedInv, Counts
<1>. QED
  BY <1>1 DEF Backs, Inv, Typed

\* The cycle goes to another place and has the same articles in hand.
Walks ==
    /\ cyc' \in Cycles
    /\ cyc'.eligible = cyc.eligible /\ cyc'.art = cyc.art /\ cyc'.items = cyc.items
    /\ cyc'.got = cyc.got
    /\ cyc.degraded => cyc'.degraded
    /\ cyc'.phase = "off" => cyc'.degraded = cyc.degraded
    /\ cyc'.lost => cyc'.degraded /\ (cyc.lost \/ ~Uninterrupted) /\ cyc'.phase # "off"
    /\ \/ cyc'.phase = cyc.phase /\ cyc'.src = cyc.src
       \/ /\ cyc.art = Nobody /\ cyc.items = {}
          /\ cyc'.phase \in {"sources", "fetching", "articles", "resume"}
          /\ cyc'.src # Nobody <=> cyc'.phase = "fetching"
          /\ cyc'.phase = "resume" => cyc.eligible = {}

LEMMA WalksInv ==
    ASSUME Inv, UNCHANGED <<set, feed, rows, decided, analysed, published>>,
           status' = status, Counts, Backs, Walks
    PROVE  Inv'
<1>1. Typed'
  BY DEF Inv, Typed, Counts, Backs, Walks
<1>2. FeedInv'
  BY DEF Inv, FeedInv, OwnItems, Backs
<1>3. Control'
  <2>1. cyc'.phase = "saving" => cyc'.phase = cyc.phase /\ cyc'.src = cyc.src /\ cyc.src \in Source
    BY DEF Walks, Inv, Typed, Cycles, Control
  <2>2. cyc'.phase = "saving" =>
            cyc'.items \subseteq st'[cyc'.src].etag /\ OwnItems(cyc'.src, cyc'.items)
    BY <2>1 DEF Walks, Backs, Inv, Control
  <2>3. /\ \A a \in cyc'.eligible : rows'[a] # 0
        /\ ~cyc'.degraded => \A a \in cyc'.got : rows'[a] # 0
    BY DEF Walks, Inv, Control
  <2>4. /\ cyc'.phase = "off" => cyc'.lost = FALSE /\ cyc'.degraded = FALSE /\ cyc'.got = {}
        /\ cyc'.lost => cyc'.degraded
    BY DEF Walks, Inv, Control, Typed, Cycles
  <2>5. /\ cyc'.src # Nobody <=> cyc'.phase \in {"fetching", "saving"}
        /\ cyc'.art # Nobody => cyc'.phase \in {"articles", "analysing", "publishing"}
        /\ cyc'.phase \in {"analysing", "publishing"} => cyc'.art # Nobody
        /\ cyc'.items # {} => cyc'.phase = "saving"
        /\ cyc'.phase \in {"resume", "off"} => cyc'.eligible = {}
    BY DEF Walks, Inv, Control
  <2>. QED
    BY <2>2, <2>3, <2>4, <2>5 DEF Control, OwnItems
<1>4. DecidedInv'
  BY DEF Inv, DecidedInv, Walks
<1>5. HiddenInv'
  BY DEF Inv, HiddenInv, Uninterrupted, Walks, Backs
<1>6. GotInv'
  BY DEF Inv, GotInv, InHand, Ended, Walks
<1>. QED
  BY <1>1, <1>2, <1>3, <1>4, <1>5, <1>6 DEF Inv

LEMMA TickInv ==
    ASSUME Inv, Tick
    PROVE  Inv'
<1>1. UNCHANGED <<set, feed, rows, decided, analysed, published, cyc, status, faults>>
  BY DEF Tick
<1>2. Counts
  BY <1>1, SameCounts DEF Inv
<1>3. ASSUME NEW s \in Source
      PROVE  /\ st'[s] \in SourceRow
             /\ st'[s].etag = st[s].etag /\ st'[s].failures <= faults'
  <2> DEFINE d == st[s].due
             e == IF d > 0 THEN d - 1 ELSE 0
  <2>1. st'[s] = [st[s] EXCEPT !.due = e]
    BY DEF Tick
  <2>2. st[s] \in SourceRow /\ d \in DueTime
    BY DEF Inv, Typed, SourceRow
  <2>3. e \in DueTime
    <3>1. CASE d = 0
      BY <3>1 DEF DueTime
    <3>2. CASE d # 0
      <4>1. PICK i \in DOMAIN Backoff : d \in 0 .. Backoff[i]
        BY <2>2, <3>2 DEF DueTime
      <4>2. Backoff[i] \in Nat
        BY CycleAssumption
      <4>3. e \in 0 .. Backoff[i]
        BY <4>1, <4>2
      <4>. QED
        BY <4>3 DEF DueTime
    <3>. QED
      BY <3>1, <3>2
  <2> HIDE DEF d, e
  <2>4. st'[s] \in SourceRow /\ st'[s].etag = st[s].etag /\ st'[s].failures = st[s].failures
    BY <2>1, <2>2, <2>3 DEF SourceRow
  <2>. QED
    BY <1>1, <2>4 DEF Inv, FeedInv
<1>4. Backs
  <2>1. DOMAIN st' = Source /\ st' = [s \in Source |-> st'[s]]
    BY DEF Tick
  <2>. QED
    BY <1>3, <2>1 DEF Backs
<1>5. Walks
  BY <1>1 DEF Walks, Inv, Typed, Control
<1>. QED
  BY <1>1, <1>2, <1>4, <1>5, WalksInv

LEMMA StartInv ==
    ASSUME Inv, Start
    PROVE  Inv'
<1>1. UNCHANGED <<set, feed, db, status, faults>> /\ cyc.phase = "off"
  BY DEF Start, At
<1>2. Counts /\ Backs
  BY <1>1, SameCounts, SameBacks DEF Inv, db
<1>3. cyc' \in Cycles /\ cyc'.phase = "sources" /\ cyc'.items = {} /\ cyc'.eligible = {}
      /\ cyc'.got = {} /\ cyc'.art = Nobody /\ cyc'.src = Nobody /\ cyc'.lost = FALSE
      /\ cyc'.degraded = FALSE
  <2>1. cyc' = [Off EXCEPT !.phase = "sources", !.todo = Source]
    BY DEF Start
  <2>. QED
    BY <2>1 DEF Off, Cycles, Phase
<1>4. /\ cyc.items = {} /\ cyc.eligible = {} /\ cyc.got = {} /\ cyc.art = Nobody
      /\ cyc.lost = FALSE /\ cyc.degraded = FALSE
  BY <1>1 DEF Inv, Control
<1>5. Walks
  BY <1>1, <1>3, <1>4 DEF Walks
<1>. QED
  BY <1>1, <1>2, <1>5, WalksInv DEF db

LEMMA LockLostInv ==
    ASSUME Inv, LockLost
    PROVE  Inv'
<1>1. UNCHANGED <<set, feed, db, status>> /\ cyc.phase # "off"
  BY DEF LockLost, At
<1>2. Counts /\ "lock_lost" \in set.kinds
  BY FaultCounts DEF LockLost, Inv
<1>3. Backs
  BY <1>1, <1>2, SameBacks DEF db
<1>4. ~Uninterrupted
  BY <1>2 DEF Uninterrupted, Interrupting
<1>5. /\ cyc' \in Cycles /\ cyc'.phase = cyc.phase /\ cyc'.src = cyc.src
      /\ cyc'.items = cyc.items /\ cyc'.eligible = cyc.eligible /\ cyc'.art = cyc.art
      /\ cyc'.got = cyc.got /\ cyc'.degraded = TRUE /\ cyc'.lost = TRUE
  BY DEF LockLost, Inv, Typed, Cycles
<1>6. Walks
  BY <1>1, <1>4, <1>5 DEF Walks
<1>. QED
  BY <1>1, <1>2, <1>3, <1>6, WalksInv DEF db

LEMMA NextSourceInv ==
    ASSUME Inv, NEW s \in Source, NextSource(s)
    PROVE  Inv'
<1>1. UNCHANGED <<set, feed, db, status, faults>> /\ cyc.phase = "sources" /\ cyc \in Cycles
  BY DEF NextSource, At, Inv, Typed
<1>2. Counts /\ Backs
  BY <1>1, SameCounts, SameBacks DEF Inv, db
<1>3. /\ cyc' \in Cycles
      /\ cyc'.items = cyc.items /\ cyc'.eligible = cyc.eligible /\ cyc'.art = cyc.art
      /\ cyc'.got = cyc.got /\ cyc'.degraded = cyc.degraded /\ cyc'.lost = cyc.lost
      /\ \/ cyc'.phase = cyc.phase /\ cyc'.src = cyc.src
         \/ cyc'.phase = "fetching" /\ cyc'.src = s
  <2>1. CASE st[s].due > 0
    <3>1. cyc' = [cyc EXCEPT !.todo = cyc.todo \ {s}]
      BY <1>1, <2>1 DEF NextSource, Cycles
    <3>. QED
      BY <1>1, <3>1 DEF Cycles
  <2>2. CASE ~(st[s].due > 0)
    <3>1. cyc' = [cyc EXCEPT !.todo = cyc.todo \ {s}, !.src = s, !.phase = "fetching"]
      BY <1>1, <2>2 DEF NextSource, Cycles
    <3>. QED
      BY <1>1, <3>1 DEF Cycles, Phase
  <2>. QED
    BY <2>1, <2>2
<1>4. cyc.items = {} /\ cyc.art = Nobody /\ cyc.lost => cyc.degraded
  BY <1>1 DEF Inv, Control
<1>5. s # Nobody
  BY CycleAssumption
<1>6. Walks
  BY <1>1, <1>3, <1>4, <1>5 DEF Walks, Inv, Control
<1>. QED
  BY <1>1, <1>2, <1>6, WalksInv DEF db

\* The cycle goes back to the sources.
LEMMA ToSourcesOf ==
    ASSUME NEW c \in Cycles
    PROVE  /\ ToSources(c) \in Cycles
           /\ ToSources(c).phase = "sources" /\ ToSources(c).src = Nobody
           /\ ToSources(c).items = {} /\ ToSources(c).eligible = c.eligible
           /\ ToSources(c).art = c.art /\ ToSources(c).got = c.got
           /\ ToSources(c).degraded = c.degraded /\ ToSources(c).lost = c.lost
BY DEF ToSources, Cycles, Phase

LEMMA DegradedOf ==
    ASSUME NEW c \in Cycles
    PROVE  /\ Degraded(c) \in Cycles
           /\ Degraded(c).phase = c.phase /\ Degraded(c).src = c.src
           /\ Degraded(c).items = c.items /\ Degraded(c).eligible = c.eligible
           /\ Degraded(c).art = c.art /\ Degraded(c).got = c.got
           /\ Degraded(c).resume = c.resume
           /\ Degraded(c).degraded = TRUE /\ Degraded(c).lost = c.lost
BY DEF Degraded, Cycles

LEMMA BackToSources ==
    ASSUME Inv, cyc.items = {}, cyc.phase \in {"fetching", "saving"},
           cyc' = ToSources(cyc) \/ cyc' = Degraded(ToSources(cyc))
    PROVE  Walks
<1>1. cyc \in Cycles /\ cyc.art = Nobody /\ (cyc.lost => cyc.degraded)
  BY DEF Inv, Typed, Control
<1>2. /\ cyc' \in Cycles /\ cyc'.phase = "sources" /\ cyc'.src = Nobody
      /\ cyc'.items = {} /\ cyc'.eligible = cyc.eligible /\ cyc'.art = cyc.art
      /\ cyc'.got = cyc.got /\ cyc'.lost = cyc.lost
      /\ cyc'.degraded = cyc.degraded \/ cyc'.degraded = TRUE
  <2> DEFINE c == ToSources(cyc)
  <2>1. /\ c \in Cycles /\ c.phase = "sources" /\ c.src = Nobody
        /\ c.items = {} /\ c.eligible = cyc.eligible /\ c.art = cyc.art
        /\ c.got = cyc.got /\ c.lost = cyc.lost /\ c.degraded = cyc.degraded
    BY <1>1, ToSourcesOf
  <2>2. cyc' = c \/ cyc' = Degraded(c)
    OBVIOUS
  <2> HIDE DEF c
  <2>. QED
    BY <2>1, <2>2, DegradedOf
<1>. QED
  BY <1>1, <1>2 DEF Walks

LEMMA SourceDoneInv ==
    ASSUME Inv, SourceDone
    PROVE  Inv'
<1>1. UNCHANGED <<set, feed, db, status, faults>>
  BY DEF SourceDone
<1>2. Counts /\ Backs
  BY <1>1, SameCounts, SameBacks DEF Inv, db
<1>3. Walks
  BY BackToSources DEF SourceDone, At
<1>. QED
  BY <1>1, <1>2, <1>3, WalksInv DEF db

LEMMA SourcesDoneInv ==
    ASSUME Inv, SourcesDone
    PROVE  Inv'
<1>1. UNCHANGED <<set, feed, db, status, faults>> /\ cyc.phase = "sources" /\ cyc \in Cycles
  BY DEF SourcesDone, At, Inv, Typed
<1>2. Counts /\ Backs
  BY <1>1, SameCounts, SameBacks DEF Inv, db
<1>3. /\ cyc' \in Cycles
      /\ cyc'.items = cyc.items /\ cyc'.eligible = cyc.eligible /\ cyc'.art = cyc.art
      /\ cyc'.got = cyc.got /\ cyc'.degraded = cyc.degraded /\ cyc'.lost = cyc.lost
      /\ cyc'.phase = "articles" /\ cyc'.src = cyc.src
  BY <1>1 DEF SourcesDone, Cycles, Phase
<1>4. cyc.items = {} /\ cyc.art = Nobody /\ cyc.src = Nobody /\ (cyc.lost => cyc.degraded)
  BY <1>1 DEF Inv, Control
<1>5. Walks
  BY <1>1, <1>3, <1>4 DEF Walks
<1>. QED
  BY <1>1, <1>2, <1>5, WalksInv DEF db

-----------------------------------------------------------------------------
(* A fetch.                                                                *)

LEMMA DelayOf ==
    ASSUME NEW n \in Nat, n >= 1
    PROVE  ComputeNextEligibleAt(n) \in DueTime
<1> DEFINE i == IF n > Len(Backoff) THEN Len(Backoff) ELSE n
<1>1. Len(Backoff) \in Nat /\ Len(Backoff) >= 1 /\ DOMAIN Backoff = 1 .. Len(Backoff)
  BY CycleAssumption
<1>2. i \in DOMAIN Backoff /\ Backoff[i] \in Nat
  BY <1>1, CycleAssumption
<1>3. Backoff[i] \in 0 .. Backoff[i]
  BY <1>2
<1>. QED
  BY <1>2, <1>3 DEF ComputeNextEligibleAt, DueTime

\* A failure more than before, and no more of them than faults.
LEMMA BackoffBacks ==
    ASSUME Inv, NEW s \in Source, RecordSourceBackoff(s), Counts, faults' = faults + 1
    PROVE  Backs
<1>1. CASE UNCHANGED st
  BY <1>1, SameBacks
<1>2. CASE st' = [st EXCEPT ![s].failures = st[s].failures + 1,
                            ![s].due = ComputeNextEligibleAt(st[s].failures + 1)]
  <2> DEFINE n == st[s].failures + 1
             d == ComputeNextEligibleAt(n)
             row == [st[s] EXCEPT !.failures = n, !.due = d]
  <2>1. st \in [Source -> SourceRow] /\ st[s] \in SourceRow /\ st[s].failures \in Nat
        /\ st[s].failures <= faults /\ faults \in Nat
    BY CycleAssumption DEF Inv, Typed, FeedInv, SourceRow
  <2>2. n \in Nat /\ n <= faults' /\ d \in DueTime
    BY <2>1, DelayOf
  <2>3. st' = [st EXCEPT ![s] = row]
    BY <1>2, <2>1
  <2> HIDE DEF n, d
  <2>4. row \in SourceRow /\ row.etag = st[s].etag /\ row.failures = n
    BY <2>1, <2>2 DEF SourceRow
  <2>5. ASSUME NEW u \in Source, u # s
        PROVE  st[u].failures <= faults'
    <3>1. st[u].failures \in Nat /\ st[u].failures <= faults
      BY DEF Inv, Typed, FeedInv, SourceRow
    <3>. QED
      BY <2>1, <3>1
  <2>. QED
    BY <2>1, <2>2, <2>3, <2>4, <2>5 DEF Backs
<1>. QED
  BY <1>1, <1>2 DEF RecordSourceBackoff

\* The source in hand.
LEMMA Fetching ==
    ASSUME Inv, cyc.phase \in {"fetching", "saving"}
    PROVE  /\ cyc.src \in Source /\ cyc.art = Nobody
           /\ cyc.phase = "fetching" => cyc.items = {}
BY DEF Inv, Typed, Cycles, Control

LEMMA CollectFailsInv ==
    ASSUME Inv, CollectFails
    PROVE  Inv'
<1>1. UNCHANGED <<set, feed, rows, decided, analysed, published, status>>
      /\ cyc.phase = "fetching"
  BY DEF CollectFails, At
<1>2. Counts /\ faults' = faults + 1
  BY FaultCounts DEF CollectFails, Inv
<1>3. Backs
  BY <1>1, <1>2, Fetching, BackoffBacks DEF CollectFails
<1>4. Walks
  BY <1>1, Fetching, BackToSources DEF CollectFails
<1>. QED
  BY <1>1, <1>2, <1>3, <1>4, WalksInv

\* The backoff is cleared.
LEMMA ClearedOf ==
    ASSUME NEW row \in SourceRow
    PROVE  /\ Cleared(row) \in SourceRow
           /\ Cleared(row).etag = row.etag /\ Cleared(row).failures = 0
BY DEF Cleared, SourceRow, DueTime

LEMMA NotModifiedInv ==
    ASSUME Inv, NotModified
    PROVE  Inv'
<1>1. UNCHANGED <<set, feed, rows, decided, analysed, published, status>>
      /\ cyc.phase = "fetching"
  BY DEF NotModified, At
<1>2. Walks
  BY <1>1, Fetching, BackToSources DEF NotModified
<1>3. Counts /\ Backs
  <2>1. CASE st' = [st EXCEPT ![cyc.src] = Cleared(@)] /\ UNCHANGED faults
    <3>1. Counts
      BY <2>1, SameCounts DEF Inv
    <3>2. st \in [Source -> SourceRow] /\ cyc.src \in Source
      BY <1>1, Fetching DEF Inv, Typed
    <3>3. ASSUME NEW s \in Source
          PROVE  st'[s] \in SourceRow /\ st'[s].etag = st[s].etag /\ st'[s].failures <= faults'
      <4>1. faults \in Nat /\ st[s].failures <= faults
        BY CycleAssumption DEF Inv, Typed, FeedInv
      <4>. QED
        BY <2>1, <3>2, <4>1, ClearedOf
    <3>. QED
      BY <2>1, <3>1, <3>2, <3>3 DEF Backs
  <2>2. CASE Fault("db") /\ RecordSourceBackoff(cyc.src)
    BY <1>1, <2>2, FaultCounts, Fetching, BackoffBacks DEF Inv
  <2>. QED
    BY <2>1, <2>2 DEF NotModified
<1>. QED
  BY <1>1, <1>2, <1>3, WalksInv

(* A new feed: its ETag is stored, and what it stands for is in hand.      *)
LEMMA StoredBacks ==
    ASSUME Inv, NEW s \in Source, NEW row \in SourceRow, row.etag = feed[s],
           row.failures <= faults', UNCHANGED <<set, feed>>, Counts,
           st' = [st EXCEPT ![s] = row]
    PROVE  FeedInv' /\ st' \in [Source -> SourceRow]
<1>1. st \in [Source -> SourceRow] /\ faults \in Nat /\ faults' \in Nat
  BY CycleAssumption DEF Inv, Typed, Counts
<1>2. ASSUME NEW u \in Source
      PROVE  /\ OwnItems(u, feed[u])
             /\ st'[u].etag # NoEtag => OwnItems(u, st'[u].etag)
             /\ st'[u].failures <= faults'
  <2>1. /\ OwnItems(u, feed[u]) /\ (st[u].etag # NoEtag => OwnItems(u, st[u].etag))
        /\ st[u].failures <= faults /\ st[u].failures \in Nat
    BY <1>1 DEF Inv, FeedInv, SourceRow
  <2>2. CASE u = s
    BY <1>1, <2>1, <2>2
  <2>3. CASE u # s
    <3>1. st'[u] = st[u]
      BY <1>1, <2>3
    <3>2. st[u].failures <= faults'
      BY <1>1, <2>1 DEF Counts
    <3>. QED
      BY <2>1, <3>1, <3>2
  <2>. QED
    BY <2>2, <2>3
<1>. QED
  BY <1>1, <1>2 DEF FeedInv, OwnItems

LEMMA CollectedInv ==
    ASSUME Inv, Collected
    PROVE  Inv'
<1> DEFINE s == cyc.src
<1>1. /\ UNCHANGED <<set, feed, rows, decided, analysed, published, status>>
      /\ cyc.phase = "fetching"
  BY DEF Collected, At
<1>2. /\ s \in Source /\ cyc.art = Nobody /\ cyc.items = {} /\ cyc \in Cycles
      /\ st \in [Source -> SourceRow] /\ st[s] \in SourceRow /\ feed[s] \in SUBSET Item
      /\ OwnItems(s, feed[s]) /\ (cyc.lost => cyc.degraded)
  BY <1>1, Fetching DEF Inv, Typed, FeedInv, Control
<1>3. CASE /\ st' = [st EXCEPT ![s] = [Cleared(@) EXCEPT !.etag = feed[s]]]
           /\ cyc' = [cyc EXCEPT !.phase = "saving", !.items = feed[s]]
           /\ UNCHANGED faults
  <2>1. Counts /\ faults \in Nat
    BY <1>3, SameCounts, CycleAssumption DEF Inv, Typed
  <2>2. PICK row \in SourceRow : /\ row.etag = feed[s] /\ row.failures = 0
                                 /\ st' = [st EXCEPT ![s] = row]
    <3> DEFINE c == Cleared(st[s])
               row == [c EXCEPT !.etag = feed[s]]
    <3>1. c \in SourceRow /\ c.failures = 0
      BY <1>2, ClearedOf
    <3>2. st' = [st EXCEPT ![s] = row]
      BY <1>2, <1>3
    <3> HIDE DEF c
    <3>3. row \in SourceRow /\ row.etag = feed[s] /\ row.failures = 0
      BY <1>2, <3>1 DEF SourceRow
    <3>. QED
      BY <3>2, <3>3
  <2>3. FeedInv' /\ st' \in [Source -> SourceRow]
    <3>1. row.failures <= faults'
      BY <1>3, <2>1, <2>2
    <3>. QED
      BY <1>1, <1>2, <2>1, <2>2, <3>1, StoredBacks
  <2>4. /\ cyc' \in Cycles /\ cyc'.phase = "saving" /\ cyc'.items = feed[s]
        /\ cyc'.src = s /\ cyc'.art = cyc.art /\ cyc'.eligible = cyc.eligible
        /\ cyc'.got = cyc.got /\ cyc'.degraded = cyc.degraded /\ cyc'.lost = cyc.lost
    BY <1>2, <1>3 DEF Cycles, Phase
  <2>5. Typed'
    BY <1>1, <2>1, <2>3, <2>4 DEF Inv, Typed, Counts
  <2>6. st'[s].etag = feed[s] /\ \A u \in Source : u # s => st'[u] = st[u]
    BY <1>2, <2>2
  <2>7. Control'
    <3>1. s # Nobody /\ cyc.art = Nobody
      BY <1>2, CycleAssumption
    <3>2. /\ \A a \in cyc.eligible : rows[a] # 0
          /\ ~cyc.degraded => \A a \in cyc.got : rows[a] # 0
      BY DEF Inv, Control
    <3>. QED
      BY <1>1, <1>2, <2>4, <2>6, <3>1, <3>2 DEF Control, OwnItems
  <2>8. DecidedInv'
    BY <1>1, <1>2, <2>4 DEF Inv, DecidedInv
  <2>9. HiddenInv'
    BY <1>1, <1>2, <2>4, <2>6 DEF Inv, HiddenInv, Uninterrupted
  <2>10. GotInv'
    BY <1>1, <1>2, <2>4, CycleAssumption DEF Inv, GotInv, InHand, Ended, Typed, Cycles
  <2>. QED
    BY <2>3, <2>5, <2>7, <2>8, <2>9, <2>10 DEF Inv
<1>4. CASE Fault("db") /\ st' = st /\ cyc' = Degraded(ToSources(cyc))
  <2>1. Counts
    BY <1>4, FaultCounts DEF Inv
  <2>2. Walks
    BY <1>1, <1>2, <1>4, BackToSources
  <2>. QED
    BY <1>1, <1>4, <2>1, <2>2, SameBacks, WalksInv
<1>5. CASE /\ Fault("db") /\ st' = [st EXCEPT ![s].etag = feed[s]]
           /\ cyc' = Degraded(ToSources(cyc))
  <2>1. Counts /\ faults' = faults + 1 /\ ~Uninterrupted
    BY <1>5, FaultCounts DEF Inv, Uninterrupted, Interrupting
  <2>2. PICK row \in SourceRow : /\ row.etag = feed[s] /\ row.failures = st[s].failures
                                 /\ st' = [st EXCEPT ![s] = row]
    <3> DEFINE row == [st[s] EXCEPT !.etag = feed[s]]
    <3>1. st' = [st EXCEPT ![s] = row]
      BY <1>2, <1>5
    <3>2. row \in SourceRow /\ row.etag = feed[s] /\ row.failures = st[s].failures
      BY <1>2 DEF SourceRow
    <3>. QED
      BY <3>1, <3>2
  <2>3. FeedInv' /\ st' \in [Source -> SourceRow]
    <3>1. st[s].failures \in Nat /\ st[s].failures <= faults /\ faults \in Nat
      BY <1>2, CycleAssumption DEF Inv, Typed, FeedInv, SourceRow
    <3>2. row.failures <= faults'
      BY <2>1, <2>2, <3>1
    <3>. QED
      BY <1>1, <1>2, <2>1, <2>2, <3>2, StoredBacks
  <2>4. Walks
    BY <1>1, <1>2, <1>5, BackToSources
  <2>5. /\ cyc' \in Cycles /\ cyc'.phase = "sources" /\ cyc'.src = Nobody
        /\ cyc'.items = {} /\ cyc'.eligible = cyc.eligible /\ cyc'.art = Nobody
        /\ cyc'.degraded = TRUE
    <3> DEFINE c == ToSources(cyc)
    <3>1. /\ c \in Cycles /\ c.phase = "sources" /\ c.src = Nobody
          /\ c.items = {} /\ c.eligible = cyc.eligible /\ c.art = cyc.art
      BY <1>2, ToSourcesOf
    <3>2. cyc' = Degraded(c)
      BY <1>5
    <3> HIDE DEF c
    <3>. QED
      BY <1>2, <3>1, <3>2, DegradedOf
  <2>6. Typed'
    BY <1>1, <2>1, <2>3, <2>5 DEF Inv, Typed, Counts
  <2>7. Control'
    <3>1. \A a \in cyc.eligible : rows[a] # 0
      BY DEF Inv, Control
    <3>. QED
      BY <1>1, <2>5, <3>1 DEF Control
  <2>8. DecidedInv'
    BY <1>1, <2>5 DEF Inv, DecidedInv
  <2>9. HiddenInv' /\ GotInv'
    BY <1>1, <2>1, <2>5 DEF HiddenInv, Uninterrupted, GotInv
  <2>. QED
    BY <2>3, <2>6, <2>7, <2>8, <2>9 DEF Inv
<1>. QED
  BY <1>3, <1>4, <1>5 DEF Collected

-----------------------------------------------------------------------------
(* An article is saved.                                                    *)

LEMMA SaveArticleInv ==
    ASSUME Inv, NEW i \in Item, SaveArticle(i)
    PROVE  Inv'
<1> DEFINE a == i[1]
           fresh == {b \in {a} : rows[b] # i[2]}
<1>1. /\ UNCHANGED <<set, feed, st, decided, analysed, published, status>>
      /\ cyc.phase = "saving" /\ i \in cyc.items
  BY DEF SaveArticle, At
<1>2. /\ a \in Article /\ i[2] \in 1 .. MaxVersion /\ i[2] \in 0 .. MaxVersion /\ i[2] # 0
      /\ i[2] \in Nat
  BY ItemOf
<1>3. /\ cyc \in Cycles /\ cyc.src \in Source /\ cyc.art = Nobody
      /\ OwnItems(cyc.src, cyc.items) /\ cyc.items \subseteq st[cyc.src].etag
      /\ rows \in [Article -> 0 .. MaxVersion]
      /\ (cyc.lost => cyc.degraded) /\ cyc.src # Nobody
      /\ (\A b \in cyc.eligible : rows[b] # 0)
      /\ (~cyc.degraded => \A b \in cyc.got : rows[b] # 0)
  BY <1>1, Fetching DEF Inv, Typed, Control
<1>4. CASE /\ rows' = [rows EXCEPT ![a] = i[2]]
           /\ cyc' = [cyc EXCEPT !.items = cyc.items \ {i},
                                 !.eligible = cyc.eligible \cup fresh,
                                 !.got = cyc.got \cup fresh]
           /\ UNCHANGED faults
  <2>1. Counts
    BY <1>4, SameCounts DEF Inv
  <2>2. fresh \subseteq {a} /\ fresh \subseteq Article /\ (rows[a] # i[2] => a \in fresh)
    BY <1>2
  <2> HIDE DEF fresh
  <2>3. /\ cyc' \in Cycles /\ cyc'.phase = "saving" /\ cyc'.items = cyc.items \ {i}
        /\ cyc'.src = cyc.src /\ cyc'.art = Nobody
        /\ cyc'.eligible = cyc.eligible \cup fresh /\ cyc'.got = cyc.got \cup fresh
        /\ cyc'.degraded = cyc.degraded /\ cyc'.lost = cyc.lost
    BY <1>1, <1>3, <1>4, <2>2 DEF Cycles
  <2>4. /\ rows' \in [Article -> 0 .. MaxVersion] /\ rows'[a] = i[2]
        /\ \A b \in Article : b # a => rows'[b] = rows[b]
    BY <1>2, <1>3, <1>4
  <2>5. Typed'
    BY <1>1, <2>1, <2>3, <2>4 DEF Inv, Typed, Counts
  <2>6. FeedInv'
    BY <1>1, <1>4 DEF Inv, FeedInv, OwnItems
  <2>7. Control'
    <3>1. \A b \in cyc'.eligible : rows'[b] # 0
      BY <1>2, <1>3, <2>2, <2>3, <2>4 DEF Cycles
    <3>2. ~cyc'.degraded => \A b \in cyc'.got : rows'[b] # 0
      BY <1>2, <1>3, <2>2, <2>3, <2>4 DEF Cycles
    <3>3. OwnItems(cyc.src, cyc.items \ {i})
      BY <1>3 DEF OwnItems, OneVersion
    <3>4. cyc'.items \subseteq st'[cyc'.src].etag /\ OwnItems(cyc'.src, cyc'.items)
      BY <1>1, <1>3, <2>3, <3>3
    <3>. QED
      BY <1>3, <2>3, <3>1, <3>2, <3>4 DEF Control, OwnItems
  <2>8. DecidedInv'
    BY <1>1, <2>3 DEF Inv, DecidedInv
  <2>9. HiddenInv'
    <3>. SUFFICES ASSUME Uninterrupted
                  PROVE  /\ ~cyc'.lost
                         /\ \A b \in Article : rows'[b] # 0 =>
                               decided'[b] # "no" \/ b \in cyc'.eligible \/ cyc'.art = b
                         /\ \A s \in Source : st'[s].etag # NoEtag =>
                               \A j \in st'[s].etag : rows'[j[1]] >= j[2] \/ j \in cyc'.items
      BY <1>1 DEF HiddenInv, Uninterrupted
    <3>1. /\ ~cyc.lost
          /\ \A b \in Article : rows[b] # 0 =>
                decided[b] # "no" \/ b \in cyc.eligible \/ cyc.art = b
          /\ \A s \in Source : st[s].etag # NoEtag =>
                \A j \in st[s].etag : rows[j[1]] >= j[2] \/ j \in cyc.items
      BY DEF Inv, HiddenInv
    <3>2. ASSUME NEW b \in Article, rows'[b] # 0
          PROVE  decided'[b] # "no" \/ b \in cyc'.eligible \/ cyc'.art = b
      <4>1. CASE b # a \/ rows[b] = i[2]
        BY <1>1, <1>2, <1>3, <2>3, <2>4, <3>1, <3>2, <4>1
      <4>2. CASE b = a /\ rows[b] # i[2]
        BY <2>2, <2>3, <4>2
      <4>. QED
        BY <4>1, <4>2
    <3>3. ASSUME NEW s \in Source, st[s].etag # NoEtag, NEW j \in st[s].etag
          PROVE  rows'[j[1]] >= j[2] \/ j \in cyc'.items
      <4>1. /\ j \in Item /\ Home[j[1]] = s /\ OneVersion(st[s].etag)
        BY <3>3 DEF Inv, FeedInv, OwnItems, ItemsOf
      <4>2. j[1] \in Article /\ j[2] \in Nat
        BY <4>1, ItemOf
      <4>3. CASE j[1] # a
        <5>1. rows'[j[1]] = rows[j[1]] /\ j # i
          BY <2>4, <4>2, <4>3
        <5>. QED
          BY <2>3, <3>1, <3>3, <5>1
      <4>4. CASE j[1] = a
        <5>1. i \in ItemsOf(cyc.src) /\ i \in st[cyc.src].etag
          BY <1>1, <1>3 DEF OwnItems
        <5>2. Home[a] = cyc.src
          BY <5>1 DEF ItemsOf
        <5>3. s = cyc.src
          BY <4>1, <4>4, <5>2
        <5>4. j = i
          BY <4>1, <4>4, <5>1, <5>3 DEF OneVersion
        <5>. QED
          BY <1>2, <2>4, <5>4
      <4>. QED
        BY <4>3, <4>4
    <3>. QED
      BY <1>1, <2>3, <3>1, <3>2, <3>3
  <2>10. GotInv'
    <3>. SUFFICES ASSUME ~cyc.degraded, NEW b \in cyc.got \cup fresh
                  PROVE  b \in cyc.eligible \cup fresh \/ Ended(b)
      BY <1>1, <2>3 DEF GotInv, InHand, Ended
    <3>1. CASE b \in fresh
      BY <3>1
    <3>2. CASE b \in cyc.got
      <4>1. b # Nobody
        BY <1>3, <3>2, CycleAssumption DEF Cycles
      <4>. QED
        BY <1>3, <3>2, <4>1 DEF Inv, GotInv, InHand
    <3>. QED
      BY <3>1, <3>2
  <2>. QED
    BY <2>5, <2>6, <2>7, <2>8, <2>9, <2>10 DEF Inv
<1>5. CASE /\ Fault("db")
           /\ cyc' = Degraded([cyc EXCEPT !.items = cyc.items \ {i}, !.got = cyc.got \cup {a}])
           /\ UNCHANGED rows
  <2>1. Counts /\ ~Uninterrupted
    BY <1>5, FaultCounts DEF Inv, Uninterrupted, Interrupting
  <2>2. /\ cyc' \in Cycles /\ cyc'.phase = "saving" /\ cyc'.items = cyc.items \ {i}
        /\ cyc'.src = cyc.src /\ cyc'.art = Nobody /\ cyc'.eligible = cyc.eligible
        /\ cyc'.degraded = TRUE
    <3> DEFINE c == [cyc EXCEPT !.items = cyc.items \ {i}, !.got = cyc.got \cup {a}]
    <3>1. /\ c \in Cycles /\ c.phase = "saving" /\ c.items = cyc.items \ {i}
          /\ c.src = cyc.src /\ c.art = Nobody /\ c.eligible = cyc.eligible
      BY <1>1, <1>2, <1>3 DEF Cycles
    <3>2. cyc' = Degraded(c)
      BY <1>5
    <3> HIDE DEF c
    <3>. QED
      BY <3>1, <3>2, DegradedOf
  <2>3. Typed' /\ FeedInv'
    <3>1. Backs
      BY <1>1, <2>1, SameBacks
    <3>. QED
      BY <1>1, <1>5, <2>1, <2>2, <3>1 DEF Inv, Typed, Counts, FeedInv, OwnItems, Backs
  <2>4. Control'
    <3>1. OwnItems(cyc.src, cyc.items \ {i})
      BY <1>3 DEF OwnItems, OneVersion
    <3>2. cyc'.items \subseteq st'[cyc'.src].etag /\ OwnItems(cyc'.src, cyc'.items)
      BY <1>1, <1>3, <2>2, <3>1
    <3>. QED
      BY <1>3, <1>5, <2>2, <3>2 DEF Control, OwnItems
  <2>5. DecidedInv' /\ HiddenInv' /\ GotInv'
    BY <1>1, <2>1, <2>2 DEF Inv, DecidedInv, HiddenInv, Uninterrupted, GotInv
  <2>. QED
    BY <2>3, <2>4, <2>5 DEF Inv
<1>. QED
  BY <1>3, <1>4, <1>5 DEF SaveArticle, Cycles

-----------------------------------------------------------------------------
(* The end of a cycle: nothing is in hand, or it was interrupted.          *)

LEMMA EndInv ==
    ASSUME Inv, cyc' = Off, UNCHANGED <<set, feed, db>>, Counts,
           status' \in {"none", "completed", "degraded", "failed"},
           Uninterrupted => cyc.eligible = {} /\ cyc.art = Nobody /\ cyc.items = {}
    PROVE  Inv'
<1>1. /\ cyc' \in Cycles /\ cyc'.phase = "off" /\ cyc'.items = {} /\ cyc'.eligible = {}
      /\ cyc'.art = Nobody /\ cyc'.src = Nobody /\ cyc'.lost = FALSE
      /\ cyc'.degraded = FALSE /\ cyc'.got = {}
  BY OffIsCycle
<1>2. UNCHANGED <<set, feed, st, rows, decided, analysed, published>> /\ Backs
  BY SameBacks DEF db
<1>3. Typed' /\ FeedInv'
  BY <1>1, <1>2 DEF Inv, Typed, Counts, FeedInv, OwnItems, Backs
<1>4. Control' /\ DecidedInv'
  BY <1>1, <1>2 DEF Inv, Control, DecidedInv
<1>5. HiddenInv'
  <2>1. \A a \in Article : Nobody # a
    BY CycleAssumption
  <2>. QED
    BY <1>1, <1>2, <2>1 DEF Inv, HiddenInv, Uninterrupted
<1>6. GotInv'
  BY <1>1 DEF GotInv
<1>. QED
  BY <1>3, <1>4, <1>5, <1>6 DEF Inv

LEMMA RegistryInvalidInv ==
    ASSUME Inv, RegistryInvalid
    PROVE  Inv'
<1>1. cyc.phase = "off" /\ cyc' = Off /\ status' = "failed" /\ UNCHANGED <<set, feed, db>>
  BY DEF RegistryInvalid, At, EndAs
<1>2. Counts
  BY FaultCounts DEF RegistryInvalid, Inv
<1>3. cyc.eligible = {} /\ cyc.art = Nobody /\ cyc.items = {}
  BY <1>1 DEF Inv, Control
<1>. QED
  BY <1>1, <1>2, <1>3, EndInv

\* What interrupts a cycle may leave anything.
LEMMA InterruptedInv ==
    ASSUME Inv, StopRobbed \/ ReadFails \/ Crash
    PROVE  Inv'
<1>1. cyc' = Off /\ status' = "failed" /\ UNCHANGED <<set, feed, db>>
  BY DEF StopRobbed, ReadFails, Crash, EndAs
<1>2. Counts /\ ~Uninterrupted
  <2>1. CASE StopRobbed
    BY <2>1, SameCounts DEF StopRobbed, Inv, HiddenInv
  <2>2. CASE ReadFails
    BY <2>2, FaultCounts DEF ReadFails, Inv, Uninterrupted, Interrupting
  <2>3. CASE Crash
    BY <2>3, FaultCounts DEF Crash, Inv, Uninterrupted, Interrupting
  <2>. QED
    BY <2>1, <2>2, <2>3
<1>. QED
  BY <1>1, <1>2, EndInv

LEMMA FinishInv ==
    ASSUME Inv, Finish
    PROVE  Inv'
<1>1. /\ cyc.phase = "resume" /\ cyc' = Off /\ UNCHANGED <<set, feed, db>>
      /\ status' \in {"degraded", "completed"}
  BY DEF Finish, At, EndAs, DecideFinalStatus
<1>2. Counts
  BY SameCounts, FaultCounts DEF Finish, Inv
<1>3. cyc.eligible = {} /\ cyc.art = Nobody /\ cyc.items = {}
  BY <1>1 DEF Inv, Control
<1>. QED
  BY <1>1, <1>2, <1>3, EndInv

-----------------------------------------------------------------------------
(* The articles: the cycle takes one in hand and brings it to its end.     *)

Matched ==
    \A a \in Article : rows[a] # 0 =>
        decided[a] # "no" \/ a \in cyc.eligible \/ cyc.art = a

ArticlePhase == {"articles", "analysing", "publishing", "resume"}

\* What every step of the articles does to the cycle.
Handles ==
    /\ cyc.phase \in ArticlePhase
    /\ cyc' \in Cycles /\ cyc'.phase \in ArticlePhase
    /\ cyc'.src = cyc.src /\ cyc'.items = cyc.items /\ cyc'.lost = cyc.lost
    /\ cyc.degraded => cyc'.degraded
    /\ cyc'.eligible \subseteq cyc.eligible /\ cyc'.got \subseteq cyc.got
    /\ cyc'.art # Nobody => cyc'.phase \in {"articles", "analysing", "publishing"}
    /\ cyc'.phase \in {"analysing", "publishing"} => cyc'.art # Nobody
    /\ cyc'.phase = "resume" => cyc'.eligible = {}
    /\ decided' \in [Article -> {"no", "skipped", "placed"}]
    /\ analysed' \in [Article -> {"no", "failed", "hold", "publish"}]
    /\ published' \in [Article -> {"none", "partial", "done"}]

LEMMA HandlesInv ==
    ASSUME Inv, UNCHANGED <<set, feed, st, rows, status>>, Counts, Handles,
           DecidedInv', Uninterrupted => Matched', GotInv'
    PROVE  Inv'
<1>1. Backs
  BY SameBacks
<1>2. Typed' /\ FeedInv'
  BY <1>1 DEF Inv, Typed, Counts, FeedInv, OwnItems, Backs, Handles
<1>3. Control'
  <2>1. cyc.phase \notin {"off", "saving", "fetching"} /\ cyc'.phase \notin {"off", "saving", "fetching"}
    BY DEF Handles, ArticlePhase
  <2>2. cyc.src = Nobody /\ cyc.items = {}
    BY <2>1 DEF Inv, Control
  <2>3. /\ \A a \in cyc'.eligible : rows'[a] # 0
        /\ ~cyc'.degraded => \A a \in cyc'.got : rows'[a] # 0
        /\ cyc'.lost => cyc'.degraded
    BY DEF Handles, Inv, Control
  <2>. QED
    BY <2>1, <2>2, <2>3 DEF Handles, Control
<1>4. HiddenInv'
  <2>1. Uninterrupted =>
           /\ ~cyc.lost
           /\ \A s \in Source : st[s].etag # NoEtag =>
                  \A i \in st[s].etag : rows[i[1]] >= i[2] \/ i \in cyc.items
    BY DEF Inv, HiddenInv
  <2>. QED
    BY <2>1 DEF HiddenInv, Matched, Uninterrupted, Handles
<1>. QED
  BY <1>2, <1>3, <1>4 DEF Inv

\* The article in hand is put aside.
LEMMA ArticleDoneOf ==
    ASSUME cyc \in Cycles,
           cyc' = ArticleDone(cyc) \/ cyc' = Degraded(ArticleDone(cyc))
    PROVE  /\ cyc' \in Cycles /\ cyc'.phase = "articles" /\ cyc'.art = Nobody
           /\ cyc'.src = cyc.src /\ cyc'.items = cyc.items /\ cyc'.lost = cyc.lost
           /\ cyc'.eligible = cyc.eligible /\ cyc'.got = cyc.got
           /\ cyc.degraded => cyc'.degraded
           /\ cyc' = Degraded(ArticleDone(cyc)) => cyc'.degraded
<1> DEFINE c == ArticleDone(cyc)
<1>1. /\ c \in Cycles /\ c.phase = "articles" /\ c.art = Nobody
      /\ c.src = cyc.src /\ c.items = cyc.items /\ c.lost = cyc.lost
      /\ c.eligible = cyc.eligible /\ c.got = cyc.got /\ c.degraded = cyc.degraded
  BY DEF ArticleDone, Cycles, Phase
<1>2. cyc' = c \/ cyc' = Degraded(c)
  OBVIOUS
<1> HIDE DEF c
<1>3. /\ cyc' \in Cycles /\ cyc'.phase = "articles" /\ cyc'.art = Nobody
      /\ cyc'.src = cyc.src /\ cyc'.items = cyc.items /\ cyc'.lost = cyc.lost
      /\ cyc'.eligible = cyc.eligible /\ cyc'.got = cyc.got
      /\ cyc.degraded => cyc'.degraded
      /\ cyc' = Degraded(c) => cyc'.degraded
  BY <1>1, <1>2, DegradedOf
<1>. QED
  BY <1>3 DEF c

LEMMA NextArticleInv ==
    ASSUME Inv, NEW a \in Article, NextArticle(a)
    PROVE  Inv'
<1>1. /\ UNCHANGED <<set, feed, st, rows, decided, analysed, published, status, faults>>
      /\ cyc.phase = "articles" /\ cyc.art = Nobody /\ a \in cyc.eligible
      /\ cyc \in Cycles /\ a # Nobody /\ \A b \in Article : b # Nobody
      /\ cyc.got \subseteq Article
  BY CycleAssumption DEF NextArticle, At, db, Inv, Typed, Cycles
<1>2. Counts
  BY <1>1, SameCounts DEF Inv
<1>3. CASE decided[a] = "no"
  <2>1. cyc' = [cyc EXCEPT !.eligible = cyc.eligible \ {a}, !.art = a]
    BY <1>1, <1>3 DEF NextArticle, Cycles
  <2>2. /\ cyc' \in Cycles /\ cyc'.phase = "articles" /\ cyc'.art = a
        /\ cyc'.src = cyc.src /\ cyc'.items = cyc.items /\ cyc'.lost = cyc.lost
        /\ cyc'.eligible = cyc.eligible \ {a} /\ cyc'.got = cyc.got
        /\ cyc'.degraded = cyc.degraded
    BY <1>1, <2>1 DEF Cycles
  <2>3. Handles
    BY <1>1, <2>2 DEF Handles, ArticlePhase, Inv, Typed
  <2>4. DecidedInv'
    BY <1>1, <1>3, <2>2 DEF Inv, DecidedInv
  <2>5. Uninterrupted => Matched'
    BY <1>1, <2>2 DEF Inv, HiddenInv, Matched
  <2>6. GotInv'
    BY <1>1, <2>2 DEF Inv, GotInv, InHand, Ended
  <2>. QED
    BY <1>1, <1>2, <2>3, <2>4, <2>5, <2>6, HandlesInv
<1>4. CASE decided[a] # "no"
  <2>1. cyc' = [cyc EXCEPT !.eligible = cyc.eligible \ {a}, !.got = cyc.got \ {a}]
    BY <1>1, <1>4 DEF NextArticle, Cycles
  <2>2. /\ cyc' \in Cycles /\ cyc'.phase = "articles" /\ cyc'.art = Nobody
        /\ cyc'.src = cyc.src /\ cyc'.items = cyc.items /\ cyc'.lost = cyc.lost
        /\ cyc'.eligible = cyc.eligible \ {a} /\ cyc'.got = cyc.got \ {a}
        /\ cyc'.degraded = cyc.degraded
    BY <1>1, <2>1 DEF Cycles
  <2>3. Handles
    BY <1>1, <2>2 DEF Handles, ArticlePhase, Inv, Typed
  <2>4. DecidedInv'
    BY <1>1, <2>2 DEF Inv, DecidedInv
  <2>5. Uninterrupted => Matched'
    BY <1>1, <1>4, <2>2 DEF Inv, HiddenInv, Matched
  <2>6. GotInv'
    BY <1>1, <2>2 DEF Inv, GotInv, InHand, Ended
  <2>. QED
    BY <1>1, <1>2, <2>3, <2>4, <2>5, <2>6, HandlesInv
<1>. QED
  BY <1>3, <1>4

LEMMA MatchInv ==
    ASSUME Inv, Match
    PROVE  Inv'
<1> DEFINE a == cyc.art
<1>1. /\ UNCHANGED <<set, feed, st, rows, analysed, published, status, faults>>
      /\ cyc.phase = "articles" /\ a # Nobody /\ cyc \in Cycles /\ a \in Article
      /\ decided \in [Article -> {"no", "skipped", "placed"}]
      /\ analysed[a] = "no" /\ \A b \in cyc.got : b \in Article
  BY DEF Match, At, Inv, Typed, Cycles, DecidedInv
<1>2. Counts
  BY <1>1, SameCounts DEF Inv
<1>3. CASE decided' = [decided EXCEPT ![a] = "skipped"] /\ cyc' = ArticleDone(cyc)
  <2>1. /\ decided' \in [Article -> {"no", "skipped", "placed"}]
        /\ decided'[a] = "skipped" /\ \A b \in Article : b # a => decided'[b] = decided[b]
    BY <1>1, <1>3
  <2>2. /\ cyc' \in Cycles /\ cyc'.phase = "articles" /\ cyc'.art = Nobody
        /\ cyc'.src = cyc.src /\ cyc'.items = cyc.items /\ cyc'.lost = cyc.lost
        /\ cyc'.eligible = cyc.eligible /\ cyc'.got = cyc.got
        /\ cyc.degraded => cyc'.degraded
    BY <1>1, <1>3, ArticleDoneOf
  <2>3. Handles
    BY <1>1, <2>1, <2>2 DEF Handles, ArticlePhase, Inv, Typed
  <2>4. DecidedInv'
    BY <1>1, <2>1, <2>2 DEF Inv, DecidedInv
  <2>5. Uninterrupted => Matched'
    BY <1>1, <2>1, <2>2 DEF Inv, HiddenInv, Matched
  <2>6. GotInv'
    BY <1>1, <2>1, <2>2 DEF Inv, GotInv, InHand, Ended
  <2>. QED
    BY <1>1, <1>2, <2>3, <2>4, <2>5, <2>6, HandlesInv
<1>4. CASE decided' = [decided EXCEPT ![a] = "placed"] /\ Put("analysing")
  <2>1. /\ decided' \in [Article -> {"no", "skipped", "placed"}]
        /\ decided'[a] = "placed" /\ \A b \in Article : b # a => decided'[b] = decided[b]
    BY <1>1, <1>4
  <2>2. /\ cyc' \in Cycles /\ cyc'.phase = "analysing" /\ cyc'.art = a
        /\ cyc'.src = cyc.src /\ cyc'.items = cyc.items /\ cyc'.lost = cyc.lost
        /\ cyc'.eligible = cyc.eligible /\ cyc'.got = cyc.got
        /\ cyc'.degraded = cyc.degraded
    BY <1>1, <1>4 DEF Put, Cycles, Phase
  <2>3. Handles
    BY <1>1, <2>1, <2>2 DEF Handles, ArticlePhase, Inv, Typed
  <2>4. DecidedInv'
    BY <1>1, <2>1, <2>2 DEF Inv, DecidedInv
  <2>5. Uninterrupted => Matched'
    BY <1>1, <2>1, <2>2 DEF Inv, HiddenInv, Matched
  <2>6. GotInv'
    BY <1>1, <2>1, <2>2 DEF Inv, GotInv, InHand, Ended
  <2>. QED
    BY <1>1, <1>2, <2>3, <2>4, <2>5, <2>6, HandlesInv
<1>. QED
  BY <1>3, <1>4 DEF Match

LEMMA MatchFailsInv ==
    ASSUME Inv, MatchFails
    PROVE  Inv'
<1>1. /\ UNCHANGED <<set, feed, st, rows, decided, analysed, published, status>>
      /\ cyc.phase = "articles" /\ cyc \in Cycles /\ cyc' = Degraded(ArticleDone(cyc))
  BY DEF MatchFails, At, db, Inv, Typed
<1>2. Counts /\ ~Uninterrupted
  BY FaultCounts DEF MatchFails, Inv, Uninterrupted, Interrupting
<1>3. /\ cyc' \in Cycles /\ cyc'.phase = "articles" /\ cyc'.art = Nobody
      /\ cyc'.src = cyc.src /\ cyc'.items = cyc.items /\ cyc'.lost = cyc.lost
      /\ cyc'.eligible = cyc.eligible /\ cyc'.got = cyc.got /\ cyc'.degraded
  BY <1>1, ArticleDoneOf
<1>4. Handles
  BY <1>1, <1>3 DEF Handles, ArticlePhase, Inv, Typed
<1>5. DecidedInv' /\ GotInv'
  BY <1>1, <1>3 DEF Inv, DecidedInv, GotInv
<1>. QED
  BY <1>1, <1>2, <1>4, <1>5, HandlesInv

LEMMA AnalyseInv ==
    ASSUME Inv, Analyse
    PROVE  Inv'
<1> DEFINE a == cyc.art
<1>1. /\ UNCHANGED <<set, feed, st, rows, decided, published, status>>
      /\ cyc.phase = "analysing" /\ a # Nobody /\ cyc \in Cycles /\ a \in Article
      /\ analysed \in [Article -> {"no", "failed", "hold", "publish"}]
      /\ decided[a] = "placed" /\ cyc.got \subseteq Article
      /\ \A b \in Article : decided[b] # "placed" => analysed[b] = "no"
  BY DEF Analyse, At, Inv, Typed, Cycles, Control, DecidedInv
\* The analysis has left d, and the cycle goes on to publish.
<1>2. ASSUME NEW d \in {"failed", "hold", "publish"}, analysed' = [analysed EXCEPT ![a] = d],
             cyc' \in Cycles, cyc'.phase = "publishing", cyc'.art = a,
             cyc'.src = cyc.src, cyc'.items = cyc.items, cyc'.lost = cyc.lost,
             cyc'.eligible = cyc.eligible, cyc'.got = cyc.got,
             cyc.degraded => cyc'.degraded, d = "failed" => cyc'.degraded, Counts
      PROVE  Inv'
  <2>1. /\ analysed' \in [Article -> {"no", "failed", "hold", "publish"}]
        /\ analysed'[a] = d /\ \A b \in Article : b # a => analysed'[b] = analysed[b]
    BY <1>1, <1>2
  <2>2. Handles
    BY <1>1, <1>2, <2>1 DEF Handles, ArticlePhase, Inv, Typed
  <2>3. DecidedInv'
    BY <1>1, <1>2, <2>1 DEF DecidedInv
  <2>4. Uninterrupted => Matched'
    BY <1>1, <1>2 DEF Inv, HiddenInv, Matched
  <2>5. GotInv'
    <3>. SUFFICES ASSUME ~cyc'.degraded, NEW b \in cyc.got
                  PROVE  InHand(b)' \/ Ended(b)'
      BY <1>2 DEF GotInv, InHand, Ended
    <3>1. CASE b = a
      BY <1>2, <2>1, <3>1 DEF InHand
    <3>2. CASE b # a
      <4>1. InHand(b) \/ Ended(b)
        BY <1>2 DEF Inv, GotInv
      <4>. QED
        BY <1>1, <1>2, <2>1, <3>2, <4>1 DEF InHand, Ended
    <3>. QED
      BY <3>1, <3>2
  <2>. QED
    BY <1>1, <1>2, <2>2, <2>3, <2>4, <2>5, HandlesInv
<1>3. CASE \E d \in {"hold", "publish"} : /\ analysed' = [analysed EXCEPT ![a] = d]
                                          /\ Put("publishing") /\ UNCHANGED faults
  <2>1. PICK d \in {"hold", "publish"} : /\ analysed' = [analysed EXCEPT ![a] = d]
                                         /\ Put("publishing") /\ UNCHANGED faults
    BY <1>3
  <2>2. Counts
    BY <2>1, SameCounts DEF Inv
  <2>3. /\ cyc' \in Cycles /\ cyc'.phase = "publishing" /\ cyc'.art = a
        /\ cyc'.src = cyc.src /\ cyc'.items = cyc.items /\ cyc'.lost = cyc.lost
        /\ cyc'.eligible = cyc.eligible /\ cyc'.got = cyc.got
        /\ cyc'.degraded = cyc.degraded
    BY <1>1, <2>1 DEF Put, Cycles, Phase
  <2>. QED
    BY <1>2, <2>1, <2>2, <2>3
<1>4. CASE /\ Fault("analysis") /\ analysed' = [analysed EXCEPT ![a] = "failed"]
           /\ cyc' = Degraded([cyc EXCEPT !.phase = "publishing"])
  <2>1. Counts
    BY <1>4, FaultCounts DEF Inv
  <2>2. /\ cyc' \in Cycles /\ cyc'.phase = "publishing" /\ cyc'.art = a
        /\ cyc'.src = cyc.src /\ cyc'.items = cyc.items /\ cyc'.lost = cyc.lost
        /\ cyc'.eligible = cyc.eligible /\ cyc'.got = cyc.got /\ cyc'.degraded
    <3> DEFINE c == [cyc EXCEPT !.phase = "publishing"]
    <3>1. /\ c \in Cycles /\ c.phase = "publishing" /\ c.art = a
          /\ c.src = cyc.src /\ c.items = cyc.items /\ c.lost = cyc.lost
          /\ c.eligible = cyc.eligible /\ c.got = cyc.got
      BY <1>1 DEF Cycles, Phase
    <3>2. cyc' = Degraded(c)
      BY <1>4
    <3> HIDE DEF c
    <3>. QED
      BY <3>1, <3>2, DegradedOf
  <2>. QED
    BY <1>2, <1>4, <2>1, <2>2
<1>5. CASE Fault("db") /\ cyc' = Degraded(ArticleDone(cyc)) /\ UNCHANGED analysed
  <2>1. Counts /\ ~Uninterrupted
    BY <1>5, FaultCounts DEF Inv, Uninterrupted, Interrupting
  <2>2. /\ cyc' \in Cycles /\ cyc'.phase = "articles" /\ cyc'.art = Nobody
        /\ cyc'.src = cyc.src /\ cyc'.items = cyc.items /\ cyc'.lost = cyc.lost
        /\ cyc'.eligible = cyc.eligible /\ cyc'.got = cyc.got /\ cyc'.degraded
    BY <1>1, <1>5, ArticleDoneOf
  <2>3. Handles
    BY <1>1, <1>5, <2>2 DEF Handles, ArticlePhase, Inv, Typed
  <2>4. DecidedInv' /\ GotInv'
    BY <1>1, <1>5, <2>2 DEF DecidedInv, GotInv
  <2>. QED
    BY <1>1, <2>1, <2>3, <2>4, HandlesInv
<1>. QED
  BY <1>3, <1>4, <1>5 DEF Analyse

LEMMA MaybePublishInv ==
    ASSUME Inv, MaybePublish
    PROVE  Inv'
<1> DEFINE a == cyc.art
<1>1. /\ UNCHANGED <<set, feed, st, rows, decided, analysed, status>>
      /\ cyc.phase = "publishing" /\ a # Nobody /\ cyc \in Cycles /\ a \in Article
      /\ published \in [Article -> {"none", "partial", "done"}]
      /\ decided[a] = "placed" /\ cyc.got \subseteq Article
  BY DEF MaybePublish, At, Inv, Typed, Cycles, Control, DecidedInv
<1>2. /\ cyc' \in Cycles /\ cyc'.phase = "articles" /\ cyc'.art = Nobody
      /\ cyc'.src = cyc.src /\ cyc'.items = cyc.items /\ cyc'.lost = cyc.lost
      /\ cyc'.eligible = cyc.eligible /\ cyc'.got = cyc.got
      /\ cyc.degraded => cyc'.degraded
  BY <1>1, ArticleDoneOf DEF MaybePublish
<1>3. DecidedInv'
  BY <1>1, <1>2 DEF Inv, DecidedInv
<1>4. Uninterrupted => Matched'
  BY <1>1, <1>2 DEF Inv, HiddenInv, Matched
<1>5. CASE /\ published' = [published EXCEPT ![a] =
                                IF analysed[a] = "publish" THEN "done" ELSE published[a]]
           /\ UNCHANGED faults
  <2>1. /\ published' \in [Article -> {"none", "partial", "done"}]
        /\ analysed[a] = "publish" => published'[a] = "done"
        /\ \A b \in Article : b # a => published'[b] = published[b]
    BY <1>1, <1>5
  <2>2. Handles
    BY <1>1, <1>2, <2>1 DEF Handles, ArticlePhase, Inv, Typed
  <2>3. Counts
    BY <1>5, SameCounts DEF Inv
  <2>4. GotInv'
    <3>. SUFFICES ASSUME ~cyc'.degraded, NEW b \in cyc.got
                  PROVE  InHand(b)' \/ Ended(b)'
      BY <1>2 DEF GotInv, InHand, Ended
    <3>1. InHand(b) \/ Ended(b)
      BY <1>2 DEF Inv, GotInv
    <3>2. CASE b = a
      <4>1. b \in cyc.eligible \/ analysed[b] \in {"hold", "publish"}
        BY <1>1, <3>1, <3>2 DEF InHand, Ended
      <4>. QED
        BY <1>1, <1>2, <2>1, <3>2, <4>1 DEF InHand, Ended
    <3>3. CASE b # a
      BY <1>1, <1>2, <2>1, <3>1, <3>3 DEF InHand, Ended
    <3>. QED
      BY <3>2, <3>3
  <2>. QED
    BY <1>1, <1>3, <1>4, <2>2, <2>3, <2>4, HandlesInv
<1>6. CASE /\ Fault("discord") /\ cyc' = Degraded(ArticleDone(cyc))
           /\ \/ UNCHANGED published
              \/ published' = [published EXCEPT ![a] = "partial"]
  <2>1. published' \in [Article -> {"none", "partial", "done"}]
    BY <1>1, <1>6
  <2>2. Handles
    BY <1>1, <1>2, <2>1 DEF Handles, ArticlePhase, Inv, Typed
  <2>3. Counts
    BY <1>6, FaultCounts DEF Inv
  <2>4. GotInv'
    <3>1. cyc'.degraded
      BY <1>1, <1>6, ArticleDoneOf
    <3>. QED
      BY <3>1 DEF GotInv
  <2>. QED
    BY <1>1, <1>3, <1>4, <2>2, <2>3, <2>4, HandlesInv
<1>. QED
  BY <1>5, <1>6 DEF MaybePublish

-----------------------------------------------------------------------------
(* The publications to resume.                                             *)

LEMMA ArticlesDoneInv ==
    ASSUME Inv, ArticlesDone
    PROVE  Inv'
<1>1. /\ UNCHANGED <<set, feed, st, rows, decided, analysed, published, status>>
      /\ cyc.phase = "articles" /\ cyc.art = Nobody /\ cyc.eligible = {} /\ cyc \in Cycles
  BY DEF ArticlesDone, At, db, Inv, Typed
<1>2. Counts
  BY SameCounts, FaultCounts DEF ArticlesDone, Inv
<1>3. /\ cyc' \in Cycles /\ cyc'.phase = "resume" /\ cyc'.art = Nobody
      /\ cyc'.src = cyc.src /\ cyc'.items = cyc.items /\ cyc'.lost = cyc.lost
      /\ cyc'.eligible = {} /\ cyc'.got = cyc.got /\ (cyc.degraded => cyc'.degraded)
  <2>1. CASE cyc' = [cyc EXCEPT !.phase = "resume", !.resume = Partial]
    BY <1>1, <2>1 DEF Cycles, Phase, Partial
  <2>2. CASE cyc' = [cyc EXCEPT !.phase = "resume", !.degraded = @ \/ Partial # {}]
    <3>1. PICK d \in BOOLEAN : /\ d = (cyc.degraded \/ Partial # {})
                               /\ cyc' = [cyc EXCEPT !.phase = "resume", !.degraded = d]
      BY <1>1, <2>2 DEF Cycles
    <3>. QED
      BY <1>1, <3>1 DEF Cycles, Phase
  <2>3. CASE cyc' = Degraded([cyc EXCEPT !.phase = "resume"])
    <3> DEFINE c == [cyc EXCEPT !.phase = "resume"]
    <3>1. /\ c \in Cycles /\ c.phase = "resume" /\ c.art = Nobody
          /\ c.src = cyc.src /\ c.items = cyc.items /\ c.lost = cyc.lost
          /\ c.eligible = {} /\ c.got = cyc.got
      BY <1>1 DEF Cycles, Phase
    <3>2. cyc' = Degraded(c)
      BY <2>3
    <3> HIDE DEF c
    <3>. QED
      BY <3>1, <3>2, DegradedOf
  <2>. QED
    BY <2>1, <2>2, <2>3 DEF ArticlesDone
<1>4. Handles
  BY <1>1, <1>3 DEF Handles, ArticlePhase, Inv, Typed
<1>5. DecidedInv'
  BY <1>1, <1>3 DEF Inv, DecidedInv
<1>6. Uninterrupted => Matched'
  BY <1>1, <1>3 DEF Inv, HiddenInv, Matched
<1>7. GotInv'
  BY <1>1, <1>3 DEF Inv, GotInv, InHand, Ended
<1>. QED
  BY <1>1, <1>2, <1>4, <1>5, <1>6, <1>7, HandlesInv

LEMMA ResumeInv ==
    ASSUME Inv, NEW a \in Article, Resume(a)
    PROVE  Inv'
<1>1. /\ UNCHANGED <<set, feed, st, rows, decided, analysed, status>>
      /\ cyc.phase = "resume" /\ cyc \in Cycles /\ cyc.got \subseteq Article
      /\ published \in [Article -> {"none", "partial", "done"}]
  BY DEF Resume, At, Inv, Typed, Cycles
<1>2. cyc.eligible = {} /\ cyc.art = Nobody
  BY <1>1 DEF Inv, Control
<1>3. Counts
  BY SameCounts, FaultCounts DEF Resume, Inv
<1>4. /\ published' \in [Article -> {"none", "partial", "done"}]
      /\ \A b \in Article : published[b] = "done" => published'[b] = "done"
  BY <1>1 DEF Resume
<1>5. /\ cyc' \in Cycles /\ cyc'.phase = "resume" /\ cyc'.art = cyc.art
      /\ cyc'.src = cyc.src /\ cyc'.items = cyc.items /\ cyc'.lost = cyc.lost
      /\ cyc'.eligible = {} /\ cyc'.got = cyc.got /\ (cyc.degraded => cyc'.degraded)
  <2> DEFINE c == [cyc EXCEPT !.resume = cyc.resume \ {a}]
  <2>1. /\ c \in Cycles /\ c.phase = "resume" /\ c.art = cyc.art
        /\ c.src = cyc.src /\ c.items = cyc.items /\ c.lost = cyc.lost
        /\ c.eligible = {} /\ c.got = cyc.got /\ c.degraded = cyc.degraded
    BY <1>1, <1>2 DEF Cycles
  <2>2. cyc' = c \/ cyc' = Degraded(c)
    BY DEF Resume
  <2> HIDE DEF c
  <2>. QED
    BY <2>1, <2>2, DegradedOf
<1>6. Handles
  BY <1>1, <1>2, <1>4, <1>5 DEF Handles, ArticlePhase, Inv, Typed
<1>7. DecidedInv'
  BY <1>1, <1>2, <1>5 DEF Inv, DecidedInv
<1>8. Uninterrupted => Matched'
  BY <1>1, <1>2, <1>5 DEF Inv, HiddenInv, Matched
<1>9. GotInv'
  <2>. SUFFICES ASSUME ~cyc'.degraded, NEW b \in cyc.got
                PROVE  Ended(b)'
    BY <1>5 DEF GotInv
  <2>1. Ended(b)
    BY <1>1, <1>2, <1>5, CycleAssumption DEF Inv, GotInv, InHand
  <2>. QED
    BY <1>1, <1>4, <2>1 DEF Ended
<1>. QED
  BY <1>1, <1>3, <1>6, <1>7, <1>8, <1>9, HandlesInv

-----------------------------------------------------------------------------
(* Every step keeps the invariant.                                         *)

LEMMA NextInv == Inv /\ [Next]_vars => Inv'
<1>. SUFFICES ASSUME Inv, [Next]_vars PROVE Inv'
  OBVIOUS
<1>1. ASSUME NEW a \in Article, NEW v \in 1 .. MaxVersion, List(a, v) PROVE Inv'
  BY <1>1, ListInv
<1>2. ASSUME NEW a \in Article, Drop(a) PROVE Inv'
  BY <1>2, DropInv
<1>3. ASSUME Tick \/ Start \/ RegistryInvalid \/ LockLost \/ Crash PROVE Inv'
  BY <1>3, TickInv, StartInv, RegistryInvalidInv, LockLostInv, InterruptedInv
<1>4. ASSUME NEW s \in Source, NextSource(s) PROVE Inv'
  BY <1>4, NextSourceInv
<1>5. ASSUME CollectFails \/ NotModified \/ Collected PROVE Inv'
  BY <1>5, CollectFailsInv, NotModifiedInv, CollectedInv
<1>6. ASSUME NEW i \in Article \X (1 .. MaxVersion), SaveArticle(i) PROVE Inv'
  BY <1>6, SaveArticleInv DEF Item
<1>7. ASSUME SourceDone \/ SourcesDone \/ StopRobbed \/ ReadFails PROVE Inv'
  BY <1>7, SourceDoneInv, SourcesDoneInv, InterruptedInv
<1>8. ASSUME NEW a \in Article, NextArticle(a) \/ Resume(a) PROVE Inv'
  BY <1>8, NextArticleInv, ResumeInv
<1>9. ASSUME Match \/ MatchFails \/ Analyse \/ MaybePublish PROVE Inv'
  BY <1>9, MatchInv, MatchFailsInv, AnalyseInv, MaybePublishInv
<1>10. ASSUME ArticlesDone \/ Finish PROVE Inv'
  BY <1>10, ArticlesDoneInv, FinishInv
<1>11. ASSUME UNCHANGED vars PROVE Inv'
  BY <1>11 DEF vars, db, Inv, Typed, FeedInv, OwnItems, Control, DecidedInv, HiddenInv,
               Uninterrupted, GotInv, InHand, Ended
<1>. QED
  BY <1>1, <1>2, <1>3, <1>4, <1>5, <1>6, <1>7, <1>8, <1>9, <1>10, <1>11 DEF Next, CycleStep

-----------------------------------------------------------------------------
(* The theorems.                                                           *)

LEMMA InvHolds == Spec => []Inv
<1>. QED
  BY InitInv, NextInv, PTL DEF Spec

LEMMA PipelineInvOf == Inv => PipelineInv
<1>. SUFFICES ASSUME Inv PROVE PipelineInv
  OBVIOUS
<1>1. /\ set \in Settings /\ set.faults \in Nat /\ faults \in 0 .. set.faults
      /\ st \in [Source -> SourceRow] /\ cyc \in Cycles
  BY CycleAssumption DEF Inv, Typed
<1>2. ASSUME NEW s \in Source
      PROVE  /\ feed[s] \subseteq {i \in Article \X (1 .. MaxVersion) : Home[i[1]] = s}
             /\ st[s].etag = NoEtag \/ st[s].etag \subseteq Article \X (1 .. MaxVersion)
             /\ st[s].failures \in 0 .. set.faults
             /\ st[s].due \in {0} \cup UNION {0 .. Backoff[i] : i \in DOMAIN Backoff}
  <2>1. feed[s] \subseteq {i \in Article \X (1 .. MaxVersion) : Home[i[1]] = s}
    BY DEF Inv, FeedInv, OwnItems, ItemsOf, Item
  <2>2. /\ st[s].etag = NoEtag \/ st[s].etag \subseteq Article \X (1 .. MaxVersion)
        /\ st[s].failures \in Nat /\ st[s].failures <= faults
    BY <1>1 DEF SourceRow, Item, Inv, FeedInv
  <2>3. st[s].failures \in 0 .. set.faults
    BY <1>1, <2>2
  <2>4. st[s].due \in {0} \cup UNION {0 .. Backoff[i] : i \in DOMAIN Backoff}
    BY <1>1 DEF SourceRow, DueTime
  <2>. QED
    BY <2>1, <2>2, <2>3, <2>4
<1>3. /\ cyc.phase \in {"off", "sources", "fetching", "saving", "articles", "analysing",
                       "publishing", "resume"}
      /\ cyc.eligible \subseteq {a \in Article : rows[a] # 0}
      /\ (cyc.src # Nobody) <=> (cyc.phase \in {"fetching", "saving"})
      /\ cyc.art # Nobody => cyc.phase \in {"articles", "analysing", "publishing"}
  BY <1>1 DEF Cycles, Phase, Inv, Control
<1>4. TypeOK
  BY <1>1, <1>2, <1>3 DEF TypeOK, Inv, Typed
<1>5. StoredIsDecided
  <2>. SUFFICES ASSUME Uninterrupted, cyc.phase = "off", NEW s \in Source,
                       st[s].etag # NoEtag, NEW i \in st[s].etag
                PROVE  rows[i[1]] >= i[2] /\ decided[i[1]] # "no"
    BY DEF StoredIsDecided, At
  <2>1. cyc.eligible = {} /\ cyc.items = {} /\ cyc.art = Nobody
    BY DEF Inv, Control
  <2>2. i \in Item
    BY DEF Inv, FeedInv, OwnItems, ItemsOf
  <2>3. i[1] \in Article /\ i[2] \in Nat /\ i[2] >= 1 /\ i[1] # Nobody
    BY <2>2, ItemOf, CycleAssumption
  <2>4. rows[i[1]] >= i[2]
    BY <2>1 DEF Inv, HiddenInv
  <2>5. rows[i[1]] # 0
    BY <2>3, <2>4
  <2>. QED
    BY <2>1, <2>3, <2>4, <2>5 DEF Inv, HiddenInv
<1>. QED
  BY <1>4, <1>5 DEF PipelineInv

\* Without an interruption, a 304 hides no article: when no cycle runs, what the
\* stored ETag of a source stands for is saved and matched (runCycle of
\* pipeline-orchestrator.ts saves the state of a source before its articles).
THEOREM PipelineInvHolds == Spec => []PipelineInv
BY InvHolds, PipelineInvOf, PTL

LEMMA CompletedKeeps ==
    ASSUME Inv, Next, status' = "completed", cyc' # cyc, cyc' = Off, NEW a \in cyc.got
    PROVE  /\ rows[a] # 0 /\ decided[a] # "no"
           /\ decided[a] = "placed" => analysed[a] \in {"hold", "publish"}
           /\ analysed[a] = "publish" => published[a] = "done"
<1>1. cyc'.phase = "off" /\ cyc \in Cycles /\ a # Nobody
  BY OffIsCycle, CycleAssumption DEF Inv, Typed, Cycles
<1>2. Finish
  <2>1. ~(\E b \in Article, v \in 1 .. MaxVersion : List(b, v)) /\ ~(\E b \in Article : Drop(b))
        /\ ~Tick
    BY DEF List, Drop, Tick
  <2>2. ~Start /\ ~(\E s \in Source : NextSource(s))
    <3>1. ASSUME Start PROVE FALSE
      BY <1>1, <3>1 DEF Start, Off
    <3>2. ASSUME NEW s \in Source, NextSource(s) PROVE FALSE
      BY <1>1, <3>2 DEF NextSource, At, Cycles
    <3>. QED
      BY <3>1, <3>2
  <2>3. ~RegistryInvalid /\ ~Crash /\ ~StopRobbed /\ ~ReadFails
    BY DEF RegistryInvalid, Crash, StopRobbed, ReadFails, EndAs
  <2>4. ~LockLost
    BY <1>1 DEF LockLost, At, Cycles
  <2>5. ~CollectFails /\ ~NotModified /\ ~Collected /\ ~SourceDone
    <3>1. cyc' # ToSources(cyc) /\ cyc' # Degraded(ToSources(cyc))
      <4> DEFINE c == ToSources(cyc)
      <4>1. c \in Cycles /\ c.phase = "sources"
        BY <1>1, ToSourcesOf
      <4> HIDE DEF c
      <4>2. cyc' # c /\ cyc' # Degraded(c)
        BY <1>1, <4>1, DegradedOf
      <4>. QED
        BY <4>2 DEF c
    <3>2. cyc' # [cyc EXCEPT !.phase = "saving", !.items = feed[cyc.src]]
      BY <1>1 DEF Cycles
    <3>. QED
      BY <3>1, <3>2 DEF CollectFails, NotModified, Collected, SourceDone
  <2>6. ASSUME NEW i \in Article \X (1 .. MaxVersion), SaveArticle(i) PROVE FALSE
    BY <1>1, <2>6 DEF SaveArticle, At, Degraded, Cycles
  <2>7. ~SourcesDone /\ ~ArticlesDone
    BY <1>1 DEF SourcesDone, ArticlesDone, Degraded, Cycles
  <2>8. ASSUME NEW b \in Article, NextArticle(b) \/ Resume(b) PROVE FALSE
    BY <1>1, <2>8 DEF NextArticle, Resume, At, Degraded, Cycles
  <2>9. ~Match /\ ~MatchFails /\ ~Analyse /\ ~MaybePublish
    <3>1. cyc' # ArticleDone(cyc) /\ cyc' # Degraded(ArticleDone(cyc))
      BY <1>1, ArticleDoneOf
    <3>2. ~Put("analysing") /\ ~Put("publishing")
      BY <1>1 DEF Put, Cycles
    <3>3. cyc' # Degraded([cyc EXCEPT !.phase = "publishing"])
      BY <1>1 DEF Degraded, Cycles
    <3>. QED
      BY <3>1, <3>2, <3>3 DEF Match, MatchFails, Analyse, MaybePublish
  <2>. QED
    BY <2>1, <2>2, <2>3, <2>4, <2>5, <2>6, <2>7, <2>8, <2>9 DEF Next, CycleStep
<1>3. cyc.phase = "resume" /\ ~cyc.degraded
  BY <1>2 DEF Finish, At, EndAs, DecideFinalStatus
<1>4. cyc.eligible = {} /\ cyc.art = Nobody /\ rows[a] # 0
  BY <1>3 DEF Inv, Control
<1>5. Ended(a)
  BY <1>1, <1>3, <1>4 DEF Inv, GotInv, InHand
<1>. QED
  BY <1>4, <1>5 DEF Ended

\* A run recorded as completed lost no article it got: the faults that could
\* have cost one made it degraded or failed (decideFinalStatus).
THEOREM CompletedLostNothingHolds == Spec => CompletedLostNothing
<1>1. Inv /\ Next =>
          (status' = "completed" /\ cyc' # cyc /\ cyc' = Off =>
              \A a \in cyc.got :
                  /\ rows[a] # 0 /\ decided[a] # "no"
                  /\ decided[a] = "placed" => analysed[a] \in {"hold", "publish"}
                  /\ analysed[a] = "publish" => published[a] = "done")
  BY CompletedKeeps
<1>2. Inv /\ [Next]_vars =>
          [status' = "completed" /\ cyc' # cyc /\ cyc' = Off =>
              \A a \in cyc.got :
                  /\ rows[a] # 0 /\ decided[a] # "no"
                  /\ decided[a] = "placed" => analysed[a] \in {"hold", "publish"}
                  /\ analysed[a] = "publish" => published[a] = "done"]_vars
  BY <1>1
<1>. QED
  BY <1>2, InvHolds, PTL DEF Spec, CompletedLostNothing
=============================================================================
