--------------------------- MODULE CollectorProofs ---------------------------
(***************************************************************************)
(* Why a request goes to a checked address, an article belongs to the      *)
(* source it names, a 304 hides no item and a feed that was saved brings   *)
(* nothing new, for any sources, feeds, servers and number of collections. *)
(*                                                                         *)
(* The invariant follows one collection through its places: up to the end  *)
(* of the requests the ETag it sent is the one that is stored; then the    *)
(* feed that is normalised is the one that was fetched, since no other     *)
(* collection came between; while it is saved, the items that are done     *)
(* have their rows, and the row that was found for the next one is still   *)
(* the only one of that article.  The rows are as the feeds made them, one *)
(* for each article, and a write of one item leaves the row of another     *)
(* alone.                                                                  *)
(***************************************************************************)
EXTENDS Collector, SequenceTheorems, TLAPS

\* Where a collection is: what it knows of its feed, and which of it is saved.
Asking == job.pc \in {"resolve", "sent", "unchanged", "fetched"}
Handling == job.pc \in {"saving", "writing"}

\* The versions a server may have published.
Published(s) == 1 .. world.versions[s]

FeedsInv ==
    \A s \in Source :
        /\ current[s] \in Published(s)
        /\ etag[s] \in Published(s) \cup {0}
        /\ saved[s] \in Published(s) \cup {0}

JobInv ==
    /\ ~At("idle") => job.src \in Source
    /\ job.pc \in {"resolve", "sent"} => job.at \in Url
    /\ Asking => job.prior = etag[job.src]
    /\ At("sent") => job.addr \in Address \ Blocked
    /\ At("fetched") => lastFeed = <<job.src, job.got>> /\ job.got \in Published(job.src)
    /\ Handling =>
          /\ job.from[1] = job.src /\ job.from[2] \in Published(job.src)
          /\ job.items \subseteq NormalizeFeedArticles(job.from)
          /\ saved[job.src] = 0
    /\ At("writing") =>
          /\ job.nth \in job.items
          /\ IF job.found = 0
             THEN \A n \in DOMAIN rows : ~Identity(rows[n], job.src, ItemAt(job.nth))
             ELSE /\ job.found \in DOMAIN rows
                  /\ Identity(rows[job.found], job.src, ItemAt(job.nth))
    /\ ~Handling => job.clean /\ ~job.again /\ ~job.fresh

\* The rows the feeds can have made; no two are of one article.
SoundRow ==
    UNION {{RowOf(s, i) : i \in UNION {Items(s, v) : v \in DOMAIN Feed[s]}} : s \in Source}

OneRow ==
    \A m, n \in DOMAIN rows :
        rows[m].src = rows[n].src /\ Same(rows[m], rows[n]) => m = n

StoreInv == rows \in Seq(SoundRow) /\ OneRow

\* Item i of s has its row among R; and the row says what the item says.
Stored(R, s, i) == \E n \in DOMAIN R : R[n].src = s /\ Same(R[n], i)
Fresh(R, s, i) ==
    \E n \in DOMAIN R : R[n].src = s /\ Same(R[n], i) /\ IsEditorialUnchanged(R[n], i)

Done == NormalizeFeedArticles(job.from) \ job.items

\* An ETag stands for items that are stored, or for the feed that is being saved.
HiddenInv ==
    ~world.faults =>
        /\ \A s \in Source : etag[s] # 0 =>
              \/ \A i \in Items(s, etag[s]) : Stored(rows, s, i)
              \/ Handling /\ s = job.src /\ etag[s] = job.from[2]
        /\ Handling => \A n \in Done : Stored(rows, job.src, ItemAt(n))

QuietInv ==
    /\ \A s \in Source : saved[s] # 0 /\ ~Twins(s, saved[s]) =>
          \A i \in Items(s, saved[s]) : Fresh(rows, s, i)
    /\ Handling /\ ~Twins(job.src, job.from[2]) =>
          /\ job.clean => \A n \in Done : Fresh(rows, job.src, ItemAt(n))
          /\ job.again =>
                /\ ~job.fresh
                /\ \A n \in NormalizeFeedArticles(job.from) : Fresh(rows, job.src, ItemAt(n))

Inv == TypeOK /\ FeedsInv /\ JobInv /\ StoreInv /\ HiddenInv /\ QuietInv

-----------------------------------------------------------------------------
(* Feeds and rows.                                                           *)

LEMMA Feeds ==
    ASSUME TypeOK, NEW s \in Source, NEW v \in Published(s)
    PROVE  /\ v \in DOMAIN Feed[s] /\ v \in Nat /\ v # 0
           /\ DOMAIN Feed[s][v] \subseteq Nat
<1>1. world \in Worlds /\ world.versions \in [Source -> Nat \ {0}]
  BY CollectorAssumption DEF TypeOK
<1>2. v \in DOMAIN Feed[s]
  BY <1>1, CollectorAssumption DEF Published
<1>. QED
  BY <1>1, <1>2, CollectorAssumption DEF Published

(* What is normalised of a version is what its items stand for.              *)
LEMMA ItemsNormalised ==
    ASSUME NEW s, NEW v, NEW f, f[1] = s, f[2] = v
    PROVE  /\ \A n \in NormalizeFeedArticles(f) : Feed[s][v][n] \in Items(s, v)
           /\ \A i \in Items(s, v) : \E n \in NormalizeFeedArticles(f) : i = Feed[s][v][n]
           /\ NormalizeFeedArticles(f) \subseteq DOMAIN Feed[s][v]
BY DEF Items, NormalizeFeedArticles

(* Two items of a version that share a row are one, unless it has twins.     *)
LEMMA OwnRow ==
    ASSUME TypeOK, NEW s \in Source, NEW v \in Published(s), ~Twins(s, v),
           NEW m \in DOMAIN Feed[s][v], NEW n \in DOMAIN Feed[s][v], NEW r,
           Same(r, Feed[s][v][m]), Same(r, Feed[s][v][n])
    PROVE  m = n
<1>1. m \in Nat /\ n \in Nat
  BY Feeds
<1>2. Same(Feed[s][v][m], Feed[s][v][n]) /\ Same(Feed[s][v][n], Feed[s][v][m])
  BY DEF Same
<1>3. ~(m < n) /\ ~(n < m)
  BY <1>2 DEF Twins
<1>. QED
  BY <1>1, <1>3

LEMMA SoundRows ==
    /\ \A s \in Source : \A v \in DOMAIN Feed[s] : \A i \in Items(s, v) : RowOf(s, i) \in SoundRow
    /\ \A r \in SoundRow : \E s \in Source : \E v \in DOMAIN Feed[s] : \E i \in Items(s, v) :
          r = RowOf(s, i)
BY DEF SoundRow

LEMMA UpdatedRow ==
    ASSUME NEW s, NEW e, NEW u, NEW k, NEW x, NEW i
    PROVE  Updated([src |-> s, ext |-> e, url |-> u, track |-> k, text |-> x], i)
             = [src |-> s, ext |-> e, url |-> i.url, track |-> i.track, text |-> i.text]
<1>. DEFINE r == [src |-> s, ext |-> e, url |-> u, track |-> k, text |-> x]
            a == [r EXCEPT !.url = i.url]
            b == [a EXCEPT !.track = i.track]
            c == [b EXCEPT !.text = i.text]
<1>1. a = [src |-> s, ext |-> e, url |-> i.url, track |-> k, text |-> x]
  OBVIOUS
<1>2. b = [src |-> s, ext |-> e, url |-> i.url, track |-> i.track, text |-> x]
  <2>. HIDE DEF a
  <2>. QED BY <1>1
<1>3. c = [src |-> s, ext |-> e, url |-> i.url, track |-> i.track, text |-> i.text]
  <2>. HIDE DEF b
  <2>. QED BY <1>2
<1>4. Updated(r, i) = c
  BY DEF Updated
<1>. QED
  BY <1>3, <1>4

LEMMA RowsNumbered ==
    ASSUME Inv
    PROVE  /\ Len(rows) \in Nat /\ DOMAIN rows = 1 .. Len(rows)
           /\ DOMAIN rows \subseteq Nat \ {0}
           /\ \A n \in DOMAIN rows : rows[n] \in SoundRow
<1>1. rows \in Seq(SoundRow)
  BY DEF Inv, StoreInv
<1>2. Len(rows) \in Nat /\ DOMAIN rows = 1 .. Len(rows)
  BY <1>1, LenProperties
<1>3. \A n \in 1 .. Len(rows) : rows[n] \in SoundRow
  BY <1>1, ElementOfSeq
<1>. QED
  BY <1>2, <1>3

(* What the invariant says while a collection asks, and between collections, *)
(* is kept by a step that leaves the rows alone.                             *)
LEMMA AsideInv ==
    ASSUME Inv, UNCHANGED <<world, rows, saved>>,
           TypeOK', FeedsInv', JobInv', ~Handling',
           world.faults \/ (~Handling /\ etag' = etag)
    PROVE  Inv'
<1>1. StoreInv'
  BY DEF Inv, StoreInv, OneRow
<1>2. HiddenInv'
  <2>. SUFFICES ASSUME ~world.faults, NEW s \in Source, etag'[s] # 0,
                       NEW i \in Items(s, etag'[s])
                PROVE  Stored(rows', s, i)
    BY DEF HiddenInv
  <2>1. Stored(rows, s, i)
    BY DEF Inv, HiddenInv
  <2>. QED
    BY <2>1 DEF Stored
<1>3. QuietInv'
  <2>. SUFFICES ASSUME NEW s \in Source, saved'[s] # 0, ~Twins(s, saved'[s]),
                       NEW i \in Items(s, saved'[s])
                PROVE  Fresh(rows', s, i)
    BY DEF QuietInv
  <2>1. Fresh(rows, s, i)
    BY DEF Inv, QuietInv
  <2>. QED
    BY <2>1 DEF Fresh
<1>. QED
  BY <1>1, <1>2, <1>3 DEF Inv

LEMMA IdleIsTyped == Idle \in Jobs
BY CollectorAssumption DEF Idle, Jobs, NoFeed

(* A collection that ends leaves nothing of it behind.                       *)
LEMMA IdleJob ==
    ASSUME job' = Idle
    PROVE  JobInv' /\ ~Handling' /\ job' \in Jobs
BY IdleIsTyped DEF JobInv, Handling, Asking, At, Idle

(* A collection fails, before it has saved anything.                         *)
LEMMA FailsInv ==
    ASSUME Inv, ~Handling, Fails, UNCHANGED <<world, current, db>>,
           lastFeed' \in (Source \cup {None}) \X Nat
    PROVE  Inv'
<1>1. job' = Idle /\ etag' = etag /\ rows' = rows /\ saved' = saved
  BY DEF Fails, Set, db
<1>2. JobInv' /\ ~Handling' /\ job' \in Jobs
  BY <1>1, IdleJob
<1>3. TypeOK'
  BY <1>1, <1>2 DEF Inv, TypeOK
<1>4. FeedsInv'
  BY <1>1 DEF Inv, FeedsInv, Published
<1>. QED
  BY <1>1, <1>2, <1>3, <1>4, AsideInv

(* A collection goes on asking.                                              *)
LEMMA AskInv ==
    ASSUME Inv, ~Handling, UNCHANGED <<world, current, db>>,
           lastFeed' \in (Source \cup {None}) \X Nat,
           job' \in Jobs, Asking',
           job'.src \in Source, job'.prior = etag[job'.src],
           job'.pc \in {"resolve", "sent"} => job'.at \in Url,
           job'.pc = "sent" => job'.addr \in Address \ Blocked,
           job'.pc = "fetched" =>
              lastFeed' = <<job'.src, job'.got>> /\ job'.got \in Published(job'.src),
           job'.clean /\ ~job'.again /\ ~job'.fresh
    PROVE  Inv'
<1>1. etag' = etag /\ rows' = rows /\ saved' = saved
  BY DEF db
<1>2. ~Handling' /\ ~At("writing")'
  BY DEF Handling, Asking, At
<1>3. JobInv'
  BY <1>1, <1>2 DEF JobInv, At, Published
<1>4. TypeOK'
  BY <1>1 DEF Inv, TypeOK
<1>5. FeedsInv'
  BY <1>1 DEF Inv, FeedsInv, Published
<1>. QED
  BY <1>1, <1>2, <1>3, <1>4, <1>5, AsideInv

-----------------------------------------------------------------------------
(* The steps up to the answer.                                               *)

LEMMA InitInv == Init => Inv
<1>. SUFFICES ASSUME Init PROVE Inv
  OBVIOUS
<1>1. job = Idle /\ rows = <<>> /\ DOMAIN rows = {} /\ lastFeed = <<None, 0>>
  BY DEF Init, NoFeed
<1>2. TypeOK
  BY <1>1, IdleIsTyped DEF Init, TypeOK
<1>3. world.versions \in [Source -> Nat \ {0}]
  BY CollectorAssumption DEF Init
<1>4. FeedsInv
  <2>1. ASSUME NEW s \in Source PROVE 1 \in Published(s)
    BY <1>3 DEF Published
  <2>. QED
    BY <2>1 DEF Init, FeedsInv
<1>5. JobInv /\ ~Handling
  BY <1>1 DEF Idle, JobInv, Asking, Handling, At
<1>6. StoreInv
  BY <1>1, EmptySeq DEF StoreInv, OneRow
<1>7. HiddenInv /\ QuietInv
  BY <1>5 DEF HiddenInv, QuietInv, Init
<1>. QED
  BY <1>2, <1>4, <1>5, <1>6, <1>7 DEF Inv

LEMMA PublishInv ==
    ASSUME Inv, NEW s \in Source, NEW v \in Versions(s), Publish(s, v)
    PROVE  Inv'
<1>1. /\ current' = [current EXCEPT ![s] = v] /\ world' = world /\ etag' = etag
      /\ rows' = rows /\ saved' = saved /\ lastFeed' = lastFeed /\ job' = job
  BY DEF Publish, db
<1>2. v \in Published(s) /\ v \in Nat
  BY Feeds DEF Versions, Published, Inv
<1>3. TypeOK'
  BY <1>1, <1>2 DEF Inv, TypeOK
<1>4. FeedsInv'
  BY <1>1, <1>2 DEF Inv, FeedsInv, Published, TypeOK
<1>5. JobInv'
  BY <1>1 DEF Inv, JobInv, Asking, Handling, At, Published, ItemAt
<1>6. StoreInv'
  BY <1>1 DEF Inv, StoreInv, OneRow
<1>7. HiddenInv'
  BY <1>1 DEF Inv, HiddenInv, Stored, Handling, Done, ItemAt
<1>8. QuietInv'
  BY <1>1 DEF Inv, QuietInv, Fresh, Handling, Done, ItemAt
<1>. QED
  BY <1>3, <1>4, <1>5, <1>6, <1>7, <1>8 DEF Inv

LEMMA CollectInv ==
    ASSUME Inv, NEW s \in Source, Collect(s)
    PROVE  Inv'
<1>1. /\ At("idle") /\ lastFeed' = lastFeed /\ UNCHANGED <<world, current, db>>
      /\ job' = [Idle EXCEPT !.pc = "resolve", !.src = s, !.prior = etag[s], !.at = UrlOf[s]]
  BY DEF Collect, Set
<1>2. job' \in Jobs
  BY <1>1, IdleIsTyped, CollectorAssumption DEF Jobs, Inv, TypeOK
<1>3. /\ job'.pc = "resolve" /\ job'.at \in Url /\ job'.src = s /\ job'.prior = etag[s]
      /\ job'.clean /\ ~job'.again /\ ~job'.fresh
  BY <1>1, CollectorAssumption DEF Idle
<1>4. ~Handling /\ Asking'
  BY <1>1, <1>3 DEF Handling, Asking, At
<1>. QED
  BY <1>1, <1>2, <1>3, <1>4, AskInv DEF Inv, TypeOK

(* What a collection that asks knows.                                        *)
LEMMA AskingKnows ==
    ASSUME Inv, job.pc \in {"resolve", "sent", "unchanged", "fetched"}
    PROVE  /\ ~Handling /\ Asking /\ job \in Jobs
           /\ job.src \in Source /\ job.prior = etag[job.src]
           /\ job.clean /\ ~job.again /\ ~job.fresh
           /\ job.pc \in {"resolve", "sent"} => job.at \in Url
<1>1. ~Handling /\ Asking /\ ~At("idle") /\ job \in Jobs
  BY DEF Handling, Asking, At, Inv, TypeOK
<1>. QED
  BY <1>1 DEF Inv, JobInv

LEMMA ResolveInv ==
    ASSUME Inv, ResolveSafeDestination
    PROVE  Inv'
<1>1. /\ job.pc = "resolve" /\ lastFeed' = lastFeed /\ UNCHANGED <<world, current, db>>
      /\ lastFeed' \in (Source \cup {None}) \X Nat
  BY DEF ResolveSafeDestination, At, Inv, TypeOK
<1>2. /\ ~Handling /\ job \in Jobs /\ job.src \in Source /\ job.prior = etag[job.src]
      /\ job.clean /\ ~job.again /\ ~job.fresh /\ job.at \in Url
  BY <1>1, AskingKnows
<1>3. Fails \/ \E a \in Address \ Blocked :
                  job' = [job EXCEPT !.pc = "sent", !.addr = a, !.visited = @ \cup {job.at}]
  BY DEF ResolveSafeDestination, IsBlockedIpAddress, Set
<1>4. CASE Fails
  BY <1>1, <1>2, <1>4, FailsInv
<1>5. CASE ~Fails
  <2>1. PICK a \in Address \ Blocked :
           job' = [job EXCEPT !.pc = "sent", !.addr = a, !.visited = job.visited \cup {job.at}]
    BY <1>3, <1>5
  <2>2. /\ job'.pc = "sent" /\ job'.src = job.src /\ job'.prior = job.prior
        /\ job'.at = job.at /\ job'.addr = a
        /\ job'.clean = job.clean /\ job'.again = job.again /\ job'.fresh = job.fresh
    BY <2>1, <1>2 DEF Jobs
  <2>3. job' \in Jobs
    BY <2>1, <1>2 DEF Jobs
  <2>4. Asking'
    BY <2>2 DEF Asking
  <2>. QED
    BY <1>1, <1>2, <2>2, <2>3, <2>4, AskInv
<1>. QED
  BY <1>4, <1>5

LEMMA RedirectedInv ==
    ASSUME Inv, NEW u \in Url, Redirected(u)
    PROVE  Inv'
<1>1. /\ job.pc = "sent" /\ lastFeed' = lastFeed /\ UNCHANGED <<world, current, db>>
      /\ lastFeed' \in (Source \cup {None}) \X Nat
  BY DEF Redirected, At, Inv, TypeOK
<1>2. /\ ~Handling /\ job \in Jobs /\ job.src \in Source /\ job.prior = etag[job.src]
      /\ job.clean /\ ~job.again /\ ~job.fresh
  BY <1>1, AskingKnows
<1>3. CASE job.hops >= MaxRedirects
  BY <1>1, <1>2, <1>3, FailsInv DEF Redirected
<1>4. CASE ~(job.hops >= MaxRedirects)
  <2>1. job' = [job EXCEPT !.pc = "resolve", !.at = u, !.hops = job.hops + 1, !.addr = None]
    BY <1>4 DEF Redirected, Set
  <2>2. job.hops + 1 \in 0 .. MaxRedirects
    BY <1>2, <1>4, CollectorAssumption DEF Jobs
  <2>3. /\ job'.pc = "resolve" /\ job'.src = job.src /\ job'.prior = job.prior /\ job'.at = u
        /\ job'.clean = job.clean /\ job'.again = job.again /\ job'.fresh = job.fresh
    BY <2>1, <1>2 DEF Jobs
  <2>4. job' \in Jobs
    BY <2>1, <2>2, <1>2 DEF Jobs
  <2>5. Asking'
    BY <2>3 DEF Asking
  <2>. QED
    BY <1>1, <1>2, <2>3, <2>4, <2>5, AskInv
<1>. QED
  BY <1>3, <1>4

LEMMA AnswerRefusedInv ==
    ASSUME Inv, AnswerRefused
    PROVE  Inv'
<1>1. /\ job.pc = "sent" /\ UNCHANGED <<world, current, db>> /\ Fails
      /\ lastFeed' \in (Source \cup {None}) \X Nat
  BY DEF AnswerRefused, At, Inv, TypeOK
<1>. QED
  BY <1>1, AskingKnows, FailsInv

LEMMA NotModifiedInv ==
    ASSUME Inv, NotModified
    PROVE  Inv'
<1>1. /\ job.pc = "sent" /\ UNCHANGED <<world, current, db>>
      /\ lastFeed' \in (Source \cup {None}) \X Nat
      /\ job' = [job EXCEPT !.pc = "unchanged", !.addr = None, !.visited = {}]
  BY DEF NotModified, At, Set, Inv, TypeOK
<1>2. /\ ~Handling /\ job \in Jobs /\ job.src \in Source /\ job.prior = etag[job.src]
      /\ job.clean /\ ~job.again /\ ~job.fresh
  BY <1>1, AskingKnows
<1>3. /\ job'.pc = "unchanged" /\ job'.src = job.src /\ job'.prior = job.prior
      /\ job'.clean = job.clean /\ job'.again = job.again /\ job'.fresh = job.fresh
  BY <1>1, <1>2 DEF Jobs
<1>4. job' \in Jobs
  BY <1>1, <1>2 DEF Jobs
<1>5. Asking'
  BY <1>3 DEF Asking
<1>. QED
  BY <1>1, <1>2, <1>3, <1>4, <1>5, AskInv

LEMMA ParseFeedInv ==
    ASSUME Inv, ParseFeed
    PROVE  Inv'
<1>1. /\ job.pc = "sent" /\ UNCHANGED <<world, current, db>>
      /\ lastFeed' = <<job.src, current[job.src]>>
  BY DEF ParseFeed, At
<1>2. /\ ~Handling /\ job \in Jobs /\ job.src \in Source /\ job.prior = etag[job.src]
      /\ job.clean /\ ~job.again /\ ~job.fresh
  BY <1>1, AskingKnows
<1>3. current[job.src] \in Published(job.src) /\ current[job.src] \in Nat
  BY <1>2 DEF Inv, FeedsInv, TypeOK
<1>4. lastFeed' \in (Source \cup {None}) \X Nat
  BY <1>1, <1>2, <1>3
<1>5. CASE Fails
  BY <1>1, <1>2, <1>4, <1>5, FailsInv
<1>6. CASE ~Fails
  <2>1. PICK tagged \in BOOLEAN :
           job' = [job EXCEPT !.pc = "fetched", !.got = current[job.src],
                              !.tagged = tagged, !.addr = None, !.visited = {}]
    BY <1>6 DEF ParseFeed, Set
  <2>2. /\ job'.pc = "fetched" /\ job'.src = job.src /\ job'.prior = job.prior
        /\ job'.got = current[job.src]
        /\ job'.clean = job.clean /\ job'.again = job.again /\ job'.fresh = job.fresh
    BY <2>1, <1>2 DEF Jobs
  <2>3. job' \in Jobs
    BY <2>1, <1>2, <1>3 DEF Jobs
  <2>4. Asking'
    BY <2>2 DEF Asking
  <2>. QED
    BY <1>1, <1>2, <1>3, <1>4, <2>2, <2>3, <2>4, AskInv
<1>. QED
  BY <1>5, <1>6

-----------------------------------------------------------------------------
(* The saving.                                                               *)

(* A 304 leaves the state of the source as it was.                           *)
LEMMA SaveUnchangedInv ==
    ASSUME Inv, SaveUnchanged
    PROVE  Inv'
<1>1. job.pc = "unchanged" /\ UNCHANGED <<world, current, lastFeed, rows, saved>>
  BY DEF SaveUnchanged, At
<1>2. ~Handling /\ job.src \in Source /\ job.prior = etag[job.src]
  BY <1>1, AskingKnows
<1>3. [etag EXCEPT ![job.src] = job.prior] = etag
  BY <1>2 DEF Inv, TypeOK
<1>4. etag' = etag /\ Fails
  BY <1>3 DEF SaveUnchanged, Fails
<1>5. UNCHANGED <<world, current, db>> /\ lastFeed' \in (Source \cup {None}) \X Nat
  BY <1>1, <1>4 DEF db, Inv, TypeOK
<1>. QED
  BY <1>2, <1>4, <1>5, FailsInv

(* The validator that is stored: that of the answer, or the one there was.   *)
LEMMA NextFetchStateIs ==
    ASSUME Inv, job.pc = "fetched"
    PROVE  /\ NextFetchState \in Published(job.src) \cup {0}
           /\ NextFetchState \in Nat
           /\ NextFetchState = job.got \/ NextFetchState = etag[job.src]
<1>1. job.src \in Source /\ job.prior = etag[job.src] /\ job.got \in Published(job.src)
  BY AskingKnows DEF Inv, JobInv, At
<1>2. etag[job.src] \in Published(job.src) \cup {0} /\ etag[job.src] \in Nat
  BY <1>1 DEF Inv, FeedsInv, TypeOK
<1>3. job.got \in Nat
  BY <1>1 DEF Published
<1>. QED
  BY <1>1, <1>2, <1>3 DEF NextFetchState

LEMMA SaveStateFailsInv ==
    ASSUME Inv, SaveStateFails
    PROVE  Inv'
<1>1. /\ job.pc = "fetched" /\ UNCHANGED <<world, current, lastFeed, rows, saved>>
      /\ world.faults /\ job' = Idle
      /\ etag' = [etag EXCEPT ![job.src] = NextFetchState] \/ etag' = etag
  BY DEF SaveStateFails, At, Fails, Set
<1>2. job.src \in Source
  BY <1>1, AskingKnows
<1>3. JobInv' /\ ~Handling' /\ job' \in Jobs
  BY <1>1, IdleJob
<1>4. TypeOK'
  BY <1>1, <1>3, NextFetchStateIs DEF Inv, TypeOK
<1>5. FeedsInv'
  BY <1>1, <1>2, NextFetchStateIs DEF Inv, FeedsInv, Published, TypeOK
<1>. QED
  BY <1>1, <1>3, <1>4, <1>5, AsideInv

LEMMA SaveStateInv ==
    ASSUME Inv, SaveState
    PROVE  Inv'
<1>. DEFINE s == job.src
            normalised == NormalizeFeedArticles(lastFeed)
            same == lastFeed = <<job.src, saved[job.src]>>
<1>1. /\ job.pc = "fetched" /\ UNCHANGED <<world, current, lastFeed, rows>>
      /\ etag' = [etag EXCEPT ![s] = NextFetchState]
      /\ saved' = [saved EXCEPT ![s] = 0]
      /\ job' = [job EXCEPT !.pc = "saving", !.from = lastFeed, !.items = normalised,
                            !.again = same]
  BY DEF SaveState, At, Set
<1>2. /\ ~Handling /\ job \in Jobs /\ s \in Source /\ job.clean /\ ~job.again /\ ~job.fresh
  BY <1>1, AskingKnows
<1>3. lastFeed = <<s, job.got>> /\ job.got \in Published(s)
  BY <1>1 DEF Inv, JobInv, At
<1>4. lastFeed[1] = s /\ lastFeed[2] = job.got /\ lastFeed \in (Source \cup {None}) \X Nat
  BY <1>3 DEF Inv, TypeOK
<1>5. normalised \subseteq Nat
  <2>1. job.got \in DOMAIN Feed[s] /\ DOMAIN Feed[s][job.got] \subseteq Nat
    BY <1>2, <1>3, Feeds DEF Inv
  <2>. QED
    BY <2>1, <1>4, ItemsNormalised
<1>. HIDE DEF normalised, same
<1>6. /\ job'.pc = "saving" /\ job'.src = s /\ job'.from = lastFeed /\ job'.items = normalised
      /\ job'.again = same /\ job'.clean = job.clean /\ job'.fresh = job.fresh
      /\ job'.nth = job.nth /\ job'.found = job.found
  BY <1>1, <1>2 DEF Jobs
<1>7. job' \in Jobs
  <2>1. same \in BOOLEAN
    BY DEF same
  <2>. QED
    BY <1>1, <1>2, <1>4, <1>5, <2>1 DEF Jobs
<1>8. TypeOK'
  BY <1>1, <1>7, NextFetchStateIs DEF Inv, TypeOK
<1>9. FeedsInv'
  BY <1>1, <1>2, NextFetchStateIs DEF Inv, FeedsInv, Published, TypeOK
<1>10. saved'[s] = 0 /\ \A q \in Source : q # s => saved'[q] = saved[q] /\ etag'[q] = etag[q]
  BY <1>1, <1>2 DEF Inv, TypeOK
<1>11. JobInv'
  <2>1. job'.from[1] = s /\ job'.from[2] \in Published(s) /\ Published(s)' = Published(s)
    BY <1>1, <1>3, <1>4, <1>6 DEF Published
  <2>. QED
    BY <1>2, <1>6, <1>10, <2>1 DEF JobInv, Asking, Handling, At, normalised, Published
<1>12. StoreInv'
  BY <1>1 DEF Inv, StoreInv, OneRow
<1>13. Done' = {} /\ Handling'
  BY <1>6 DEF Done, Handling, normalised
<1>14. HiddenInv'
  <2>. SUFFICES ASSUME ~world.faults, NEW q \in Source, etag'[q] # 0,
                       ~(q = s /\ etag'[q] = job'.from[2]),
                       NEW i \in Items(q, etag'[q])
                PROVE  Stored(rows', q, i)
    BY <1>1, <1>6, <1>13 DEF HiddenInv
  <2>1. etag'[q] = etag[q]
    <3>1. CASE q = s
      BY <3>1, <1>1, <1>2, <1>4, <1>6, NextFetchStateIs DEF Inv, TypeOK
    <3>. QED
      BY <3>1, <1>10
  <2>2. Stored(rows, q, i)
    BY <2>1, <1>2 DEF Inv, HiddenInv
  <2>. QED
    BY <2>2, <1>1 DEF Stored
<1>15. QuietInv'
  <2>1. ASSUME NEW q \in Source, saved'[q] # 0, ~Twins(q, saved'[q]), NEW i \in Items(q, saved'[q])
        PROVE  Fresh(rows', q, i)
    <3>1. saved'[q] = saved[q]
      BY <2>1, <1>10
    <3>2. Fresh(rows, q, i)
      BY <2>1, <3>1 DEF Inv, QuietInv
    <3>. QED
      BY <3>2, <1>1 DEF Fresh
  <2>2. ASSUME same, ~Twins(s, lastFeed[2]), NEW n \in normalised
        PROVE  Fresh(rows', s, Feed[s][lastFeed[2]][n])
    <3>1. saved[s] = lastFeed[2] /\ saved[s] = job.got
      BY <2>2, <1>3 DEF same
    <3>2. saved[s] # 0
      BY <3>1, <1>3, <1>2, Feeds DEF Inv
    <3>3. Feed[s][lastFeed[2]][n] \in Items(s, saved[s])
      BY <3>1, <1>4, ItemsNormalised DEF normalised
    <3>4. Fresh(rows, s, Feed[s][lastFeed[2]][n])
      BY <2>2, <3>1, <3>2, <3>3, <1>2 DEF Inv, QuietInv
    <3>. QED
      BY <3>4, <1>1 DEF Fresh
  <2>3. ASSUME same, ~Twins(s, lastFeed[2])
        PROVE  (\A n \in NormalizeFeedArticles(job.from) : Fresh(rows, job.src, ItemAt(n)))'
    <3>1. ASSUME NEW n \in normalised
          PROVE  \E m \in DOMAIN rows' :
                    /\ rows'[m].src = s /\ Same(rows'[m], Feed[s][lastFeed[2]][n])
                    /\ IsEditorialUnchanged(rows'[m], Feed[s][lastFeed[2]][n])
      BY <2>2, <2>3, <1>1 DEF Fresh
    <3>. QED
      BY <3>1, <1>4, <1>6 DEF ItemAt, normalised, Fresh
  <2>. QED
    BY <2>1, <2>3, <1>2, <1>6, <1>13 DEF QuietInv
<1>. QED
  BY <1>8, <1>9, <1>11, <1>12, <1>14, <1>15 DEF Inv

LEMMA HandlingKnows ==
    ASSUME Inv, job.pc \in {"saving", "writing"}
    PROVE  /\ Handling /\ job \in Jobs /\ job.src \in Source
           /\ job.from[1] = job.src /\ job.from[2] \in Published(job.src)
           /\ job.items \subseteq NormalizeFeedArticles(job.from)
           /\ saved[job.src] = 0
<1>1. Handling /\ ~At("idle") /\ job \in Jobs
  BY DEF Handling, At, Inv, TypeOK
<1>. QED
  BY <1>1 DEF Inv, JobInv

(* The row is looked for, and is the one of the article until it is written. *)
LEMMA FindRowInv ==
    ASSUME Inv, FindRow
    PROVE  Inv'
<1>1. job.pc = "saving" /\ UNCHANGED <<world, current, db, lastFeed>>
  BY DEF FindRow, At
<1>2. /\ Handling /\ job \in Jobs /\ job.src \in Source
      /\ job.from[1] = job.src /\ job.from[2] \in Published(job.src)
      /\ job.items \subseteq NormalizeFeedArticles(job.from)
      /\ saved[job.src] = 0
  BY <1>1, HandlingKnows
<1>3. etag' = etag /\ rows' = rows /\ saved' = saved /\ world' = world
      /\ current' = current /\ lastFeed' = lastFeed
  BY <1>1 DEF db
<1>4. PICK n \in job.items :
         \E m \in IF {k \in DOMAIN rows : Identity(rows[k], job.src, ItemAt(n))} = {}
                  THEN {0} ELSE {k \in DOMAIN rows : Identity(rows[k], job.src, ItemAt(n))} :
            job' = [job EXCEPT !.pc = "writing", !.nth = n, !.found = m]
  BY DEF FindRow, Set
<1>5. PICK m \in IF {k \in DOMAIN rows : Identity(rows[k], job.src, ItemAt(n))} = {}
                 THEN {0} ELSE {k \in DOMAIN rows : Identity(rows[k], job.src, ItemAt(n))} :
         job' = [job EXCEPT !.pc = "writing", !.nth = n, !.found = m]
  BY <1>4
<1>6. /\ job'.pc = "writing" /\ job'.nth = n /\ job'.found = m /\ job'.src = job.src
      /\ job'.from = job.from /\ job'.items = job.items /\ job'.clean = job.clean
      /\ job'.again = job.again /\ job'.fresh = job.fresh
  BY <1>5, <1>2 DEF Jobs
<1>7. ItemAt(n)' = ItemAt(n) /\ Handling' /\ Done' = Done
  BY <1>6 DEF ItemAt, Handling, Done
<1>8. IF m = 0 THEN \A k \in DOMAIN rows : ~Identity(rows[k], job.src, ItemAt(n))
      ELSE m \in DOMAIN rows /\ Identity(rows[m], job.src, ItemAt(n))
  BY <1>5, RowsNumbered
<1>9. n \in Nat /\ m \in Nat
  <2>1. n \in Nat
    BY <1>2 DEF Jobs
  <2>. QED
    BY <2>1, <1>5, RowsNumbered
<1>10. TypeOK'
  <2>1. job' \in Jobs
    BY <1>2, <1>5, <1>9 DEF Jobs
  <2>. QED
    BY <1>3, <2>1 DEF Inv, TypeOK
<1>11. FeedsInv'
  BY <1>3 DEF Inv, FeedsInv, Published
<1>12. JobInv'
  <2>1. (~At("idle") /\ ~At("sent") /\ ~At("fetched") /\ ~Asking)' /\ job'.pc \notin {"resolve", "sent"}
    BY <1>6 DEF At, Asking
  <2>2. Published(job.src)' = Published(job.src)
    BY <1>3, <1>6 DEF Published
  <2>. QED
    BY <2>1, <2>2, <1>2, <1>3, <1>6, <1>7, <1>8 DEF JobInv, ItemAt
<1>13. StoreInv'
  BY <1>3 DEF Inv, StoreInv, OneRow
<1>14. \A k : ItemAt(k)' = ItemAt(k)
  BY <1>6 DEF ItemAt
<1>15. HiddenInv'
  <2>. SUFFICES ASSUME ~world.faults PROVE HiddenInv'
    BY <1>3 DEF HiddenInv
  <2>1. ASSUME NEW q \in Source, etag[q] # 0, ~(q = job.src /\ etag[q] = job.from[2]),
               NEW j \in Items(q, etag[q])
        PROVE  Stored(rows, q, j)
    BY <2>1, <1>2 DEF Inv, HiddenInv
  <2>2. ASSUME NEW k \in Done PROVE Stored(rows, job.src, ItemAt(k))
    BY <1>2 DEF Inv, HiddenInv
  <2>. QED
    BY <1>3, <1>6, <1>7, <1>14, <2>1, <2>2 DEF HiddenInv
<1>16. QuietInv'
  <2>1. ASSUME NEW q \in Source, saved[q] # 0, ~Twins(q, saved[q]), NEW j \in Items(q, saved[q])
        PROVE  Fresh(rows, q, j)
    BY <2>1 DEF Inv, QuietInv
  <2>2. ASSUME ~Twins(job.src, job.from[2])
        PROVE  /\ job.clean => \A k \in Done : Fresh(rows, job.src, ItemAt(k))
               /\ job.again => /\ ~job.fresh
                               /\ \A k \in NormalizeFeedArticles(job.from) :
                                     Fresh(rows, job.src, ItemAt(k))
    BY <2>2, <1>2 DEF Inv, QuietInv
  <2>. QED
    BY <1>3, <1>6, <1>7, <1>14, <2>1, <2>2 DEF QuietInv
<1>. QED
  BY <1>10, <1>11, <1>12, <1>13, <1>15, <1>16 DEF Inv

(* The next item, whatever became of the last one.                           *)
LEMMA NextItemIs ==
    ASSUME Inv, job.pc = "writing", NEW clean \in BOOLEAN, NEW fresh \in BOOLEAN,
           job' = [job EXCEPT !.pc = "saving", !.items = job.items \ {job.nth}, !.nth = 0,
                              !.found = 0, !.clean = clean, !.fresh = fresh]
    PROVE  /\ job' \in Jobs
           /\ job'.pc = "saving" /\ job'.src = job.src /\ job'.from = job.from
           /\ job'.items = job.items \ {job.nth} /\ job'.again = job.again
           /\ job'.clean = clean /\ job'.fresh = fresh
           /\ Handling' /\ ~At("writing")'
           /\ Done' = Done \cup {job.nth}
<1>1. job \in Jobs /\ job.items \subseteq NormalizeFeedArticles(job.from)
  BY HandlingKnows
<1>2. job.nth \in job.items
  BY DEF Inv, JobInv, At
<1>. DEFINE rest == job.items \ {job.nth}
<1>3. rest \in SUBSET Nat
  BY <1>1 DEF Jobs
<1>. HIDE DEF rest
<1>. DEFINE one == [job EXCEPT !.pc = "saving", !.items = rest, !.nth = 0]
<1>. one \in Jobs
  BY <1>1, <1>3 DEF Jobs
<1>4. job' = [job EXCEPT !.pc = "saving", !.items = rest, !.nth = 0,
                         !.found = 0, !.clean = clean, !.fresh = fresh]
  BY DEF rest
<1>6. job' \in Jobs
  <2>. DEFINE two == [one EXCEPT !.found = 0, !.clean = clean]
  <2>1. job' = [two EXCEPT !.fresh = fresh]
    BY <1>4
  <2>. HIDE DEF one
  <2>2. two \in Jobs
    BY DEF Jobs
  <2>. HIDE DEF two
  <2>. QED
    BY <2>1, <2>2 DEF Jobs
<1>7. /\ job'.pc = "saving" /\ job'.src = job.src /\ job'.from = job.from
      /\ job'.items = rest /\ job'.again = job.again
      /\ job'.clean = clean /\ job'.fresh = fresh
  BY <1>1, <1>4 DEF Jobs
<1>5. Done' = Done \cup {job.nth}
  BY <1>1, <1>2, <1>7 DEF Done, rest
<1>. QED
  BY <1>5, <1>6, <1>7 DEF Handling, At, rest

LEMMA NextItemJob ==
    ASSUME Inv, job.pc = "writing", UNCHANGED <<world, current, saved>>,
           job'.pc = "saving", job'.src = job.src, job'.from = job.from,
           job'.items = job.items \ {job.nth}
    PROVE  JobInv'
<1>1. /\ job.src \in Source
      /\ job.from[1] = job.src /\ job.from[2] \in Published(job.src)
      /\ job.items \subseteq NormalizeFeedArticles(job.from)
      /\ saved[job.src] = 0
  BY HandlingKnows
<1>2. (~At("idle") /\ ~At("sent") /\ ~At("fetched") /\ ~At("writing") /\ ~Asking /\ Handling)'
      /\ job'.pc \notin {"resolve", "sent"}
  BY DEF At, Asking, Handling
<1>3. Published(job.src)' = Published(job.src)
  BY DEF Published
<1>. QED
  BY <1>1, <1>2, <1>3 DEF JobInv

LEMMA SaveArticleFailsInv ==
    ASSUME Inv, SaveArticleFails
    PROVE  Inv'
<1>1. /\ job.pc = "writing" /\ world.faults
      /\ etag' = etag /\ rows' = rows /\ saved' = saved /\ world' = world
      /\ current' = current /\ lastFeed' = lastFeed
  BY DEF SaveArticleFails, At, db
<1>2. job \in Jobs
  BY <1>1, HandlingKnows
<1>3. job' = [job EXCEPT !.pc = "saving", !.items = job.items \ {job.nth}, !.nth = 0,
                         !.found = 0, !.clean = FALSE, !.fresh = job.fresh]
  BY <1>2 DEF SaveArticleFails, Set, NextItem, Jobs
<1>4. /\ job' \in Jobs
      /\ job'.pc = "saving" /\ job'.src = job.src /\ job'.from = job.from
      /\ job'.items = job.items \ {job.nth} /\ job'.again = job.again
      /\ job'.clean = FALSE /\ job'.fresh = job.fresh
      /\ Handling'
  <2>1. job.fresh \in BOOLEAN
    BY <1>2 DEF Jobs
  <2>. QED
    BY <1>1, <1>3, <2>1, NextItemIs
<1>5. JobInv'
  BY <1>1, <1>4, NextItemJob
<1>6. TypeOK' /\ FeedsInv'
  BY <1>1, <1>4 DEF Inv, TypeOK, FeedsInv, Published
<1>7. StoreInv'
  BY <1>1 DEF Inv, StoreInv, OneRow
<1>8. HiddenInv'
  BY <1>1 DEF HiddenInv
<1>9. QuietInv'
  <2>1. ASSUME NEW s \in Source, saved'[s] # 0, ~Twins(s, saved'[s]), NEW i \in Items(s, saved'[s])
        PROVE  Fresh(rows', s, i)
    BY <1>1, <2>1 DEF Inv, QuietInv, Fresh
  <2>2. ASSUME ~Twins(job.src, job.from[2]), job.again
        PROVE  ~job.fresh /\ \A n \in NormalizeFeedArticles(job.from) : Fresh(rows, job.src, ItemAt(n))
    BY <1>1, <2>2, HandlingKnows DEF Inv, QuietInv
  <2>. QED
    BY <1>1, <1>4, <2>1, <2>2 DEF QuietInv, Fresh, ItemAt
<1>. QED
  BY <1>5, <1>6, <1>7, <1>8, <1>9 DEF Inv

-----------------------------------------------------------------------------
(* A row is written: it is the only row of its article, and no other row is  *)
(* touched.                                                                  *)
LEMMA WrittenRows ==
    ASSUME Inv, WriteRow
    PROVE  LET s == job.src
               i == ItemAt(job.nth)
           IN  /\ rows' \in Seq(SoundRow) /\ OneRow'
               /\ DOMAIN rows \subseteq DOMAIN rows'
               /\ \A n \in DOMAIN rows : rows'[n].src = rows[n].src
               /\ \A n \in DOMAIN rows : \A j : Same(rows[n], j) => Same(rows'[n], j)
               /\ \A n \in DOMAIN rows : rows'[n] = rows[n] \/ (rows[n].src = s /\ Same(rows[n], i))
               /\ Fresh(rows', s, i)
<1>. DEFINE s == job.src
            i == ItemAt(job.nth)
            new == RowOf(s, i)
            kept == job.found # 0 /\ IsEditorialUnchanged(rows[job.found], i)
<1>1. job.pc = "writing"
  BY DEF WriteRow, At
<1>2. /\ s \in Source /\ job.from[1] = s /\ job.from[2] \in Published(s)
      /\ job.items \subseteq NormalizeFeedArticles(job.from)
  BY <1>1, HandlingKnows
<1>3. /\ job.nth \in NormalizeFeedArticles(job.from)
      /\ IF job.found = 0 THEN \A n \in DOMAIN rows : ~Identity(rows[n], s, i)
         ELSE job.found \in DOMAIN rows /\ Identity(rows[job.found], s, i)
  BY <1>1, <1>2 DEF Inv, JobInv, At
<1>4. i \in Items(s, job.from[2]) /\ job.from[2] \in DOMAIN Feed[s]
  BY <1>2, <1>3, ItemsNormalised, Feeds DEF ItemAt, Inv
<1>5. new \in SoundRow
  BY <1>2, <1>4, SoundRows
<1>6. /\ new.src = s /\ new.ext = i.ext /\ new.url = i.url /\ new.track = i.track
      /\ new.text = i.text
  BY DEF RowOf
<1>7. Same(new, i) /\ IsEditorialUnchanged(new, i)
  BY <1>6 DEF Same, IsEditorialUnchanged
<1>8. rows \in Seq(SoundRow) /\ Len(rows) \in Nat /\ DOMAIN rows = 1 .. Len(rows)
  BY RowsNumbered DEF Inv, StoreInv
<1>9. OneRow
  BY DEF Inv, StoreInv
<1>10. CASE kept
  <2>1. rows' = rows
    BY <1>10 DEF WriteRow
  <2>2. job.found \in DOMAIN rows /\ rows[job.found].src = s /\ Same(rows[job.found], i)
    BY <1>3, <1>10 DEF Identity, Same
  <2>3. Fresh(rows', s, i)
    BY <1>10, <2>1, <2>2 DEF Fresh
  <2>. QED
    BY <1>8, <1>9, <2>1, <2>3 DEF OneRow
<1>11. CASE ~kept /\ job.found = 0
  <2>1. rows' = Append(rows, new)
    BY <1>11 DEF WriteRow
  <2>2. /\ rows' \in Seq(SoundRow) /\ Len(rows') = Len(rows) + 1
        /\ \A n \in 1 .. Len(rows) : rows'[n] = rows[n]
        /\ rows'[Len(rows) + 1] = new
    BY <1>5, <1>8, <2>1, AppendProperties
  <2>3. DOMAIN rows' = 1 .. Len(rows) + 1
    BY <2>2, LenProperties
  <2>4. \A n \in DOMAIN rows : ~(rows[n].src = s /\ Same(rows[n], i))
    BY <1>3, <1>11 DEF Identity, Same
  <2>5. OneRow'
    <3>. SUFFICES ASSUME NEW m \in DOMAIN rows', NEW n \in DOMAIN rows',
                         rows'[m].src = rows'[n].src, Same(rows'[m], rows'[n])
                  PROVE  m = n
      BY DEF OneRow
    <3>1. ASSUME NEW k \in DOMAIN rows'
          PROVE  (k \in DOMAIN rows /\ rows'[k] = rows[k]) \/ (k = Len(rows) + 1 /\ rows'[k] = new)
      BY <1>8, <2>2, <2>3
    <3>2. \A r : Same(r, new) => Same(r, i)
      BY <1>6 DEF Same
    <3>3. \A r : Same(new, r) => Same(r, i)
      BY <1>6 DEF Same
    <3>4. CASE m \in DOMAIN rows /\ n \in DOMAIN rows
      BY <3>4, <2>2, <1>8, <1>9 DEF OneRow
    <3>5. CASE m = Len(rows) + 1 /\ n \in DOMAIN rows
      BY <3>5, <3>3, <2>2, <2>4, <1>6, <1>8
    <3>6. CASE m \in DOMAIN rows /\ n = Len(rows) + 1
      BY <3>6, <3>2, <2>2, <2>4, <1>6, <1>8
    <3>. QED
      BY <3>1, <3>4, <3>5, <3>6
  <2>6. Fresh(rows', s, i)
    <3>1. Len(rows) + 1 \in DOMAIN rows'
      BY <2>3, <1>8
    <3>. QED
      BY <3>1, <2>2, <1>6, <1>7 DEF Fresh
  <2>. QED
    BY <1>8, <2>2, <2>3, <2>5, <2>6
<1>12. CASE ~kept /\ job.found # 0
  <2>. DEFINE f == job.found
              old == rows[f]
  <2>1. f \in DOMAIN rows /\ old.src = s /\ old.ext = i.ext
        /\ (i.ext = None => old.url = i.url /\ old.track = i.track)
    BY <1>3, <1>12 DEF Identity
  <2>2. Updated(old, i) = new
    <3>1. old \in SoundRow
      BY <2>1, RowsNumbered
    <3>2. PICK q \in Source : \E v \in DOMAIN Feed[q] : \E j \in Items(q, v) : old = RowOf(q, j)
      BY <3>1, SoundRows
    <3>. PICK v \in DOMAIN Feed[q] : \E j \in Items(q, v) : old = RowOf(q, j)
      BY <3>2
    <3>. PICK j \in Items(q, v) : old = RowOf(q, j)
      OBVIOUS
    <3>3. old = [src |-> q, ext |-> j.ext, url |-> j.url, track |-> j.track, text |-> j.text]
      BY DEF RowOf
    <3>4. Updated(old, i) = [src |-> q, ext |-> j.ext, url |-> i.url, track |-> i.track, text |-> i.text]
      BY <3>3, UpdatedRow
    <3>5. q = s /\ j.ext = i.ext
      BY <2>1, <3>3
    <3>. QED
      BY <3>4, <3>5 DEF RowOf
  <2>3. rows' = [rows EXCEPT ![f] = Updated(rows[f], i)]
    BY <1>12 DEF WriteRow
  <2>. HIDE DEF new
  <2>4. rows' = [rows EXCEPT ![f] = new]
    BY <2>2, <2>3
  <2>5. /\ rows' \in Seq(SoundRow) /\ Len(rows') = Len(rows) /\ DOMAIN rows' = DOMAIN rows
        /\ \A n \in DOMAIN rows : rows'[n] = IF n = f THEN new ELSE rows[n]
    BY <1>5, <1>8, <2>1, <2>4, ExceptSeq
  <2>6. \A r : Same(old, r) <=> Same(new, r)
    BY <2>1, <1>6 DEF Same
  <2>7. \A r : Same(r, old) <=> Same(r, new)
    BY <2>1, <1>6 DEF Same
  <2>8. OneRow'
    <3>. SUFFICES ASSUME NEW m \in DOMAIN rows', NEW n \in DOMAIN rows',
                         rows'[m].src = rows'[n].src, Same(rows'[m], rows'[n])
                  PROVE  m = n
      BY DEF OneRow
    <3>1. rows[m].src = rows[n].src
      BY <2>1, <2>5, <1>6
    <3>2. Same(rows[m], rows[n])
      <4>1. CASE m = f /\ n = f
        BY <4>1, <2>1 DEF Same
      <4>2. CASE m = f /\ n # f
        BY <4>2, <2>5, <2>6
      <4>3. CASE m # f /\ n = f
        BY <4>3, <2>5, <2>7
      <4>4. CASE m # f /\ n # f
        BY <4>4, <2>5
      <4>. QED
        BY <4>1, <4>2, <4>3, <4>4
    <3>. QED
      BY <3>1, <3>2, <2>5, <1>9 DEF OneRow
  <2>9. Fresh(rows', s, i)
    BY <2>1, <2>5, <1>6, <1>7 DEF Fresh
  <2>10. \A n \in DOMAIN rows : rows'[n] = rows[n] \/ (rows[n].src = s /\ Same(rows[n], i))
    BY <2>1, <2>5 DEF Same
  <2>11. \A n \in DOMAIN rows : rows'[n].src = rows[n].src
    BY <2>1, <2>5, <1>6
  <2>12. \A n \in DOMAIN rows : \A j : Same(rows[n], j) => Same(rows'[n], j)
    BY <2>5, <2>6
  <2>. QED
    BY <2>5, <2>8, <2>9, <2>10, <2>11, <2>12
<1>. QED
  BY <1>10, <1>11, <1>12

(* What is stored stays stored; what is as its item says stays so, unless it *)
(* is the row that is written.                                               *)
LEMMA WriteKeeps ==
    ASSUME Inv, WriteRow, NEW q, NEW j
    PROVE  /\ Stored(rows, q, j) => Stored(rows', q, j)
           /\ Fresh(rows, q, j) =>
                 \/ Fresh(rows', q, j)
                 \/ q = job.src /\ \E r : Same(r, ItemAt(job.nth)) /\ Same(r, j)
<1>. DEFINE i == ItemAt(job.nth)
<1>1. /\ DOMAIN rows \subseteq DOMAIN rows'
      /\ \A n \in DOMAIN rows : rows'[n].src = rows[n].src
      /\ \A n \in DOMAIN rows : Same(rows[n], j) => Same(rows'[n], j)
      /\ \A n \in DOMAIN rows : rows'[n] = rows[n] \/ (rows[n].src = job.src /\ Same(rows[n], i))
  BY WrittenRows
<1>. HIDE DEF i
<1>2. Stored(rows, q, j) => Stored(rows', q, j)
  BY <1>1 DEF Stored
<1>3. ASSUME Fresh(rows, q, j)
      PROVE  Fresh(rows', q, j) \/ (q = job.src /\ \E r : Same(r, i) /\ Same(r, j))
  <2>1. PICK n \in DOMAIN rows :
           rows[n].src = q /\ Same(rows[n], j) /\ IsEditorialUnchanged(rows[n], j)
    BY <1>3 DEF Fresh
  <2>2. CASE rows'[n] = rows[n]
    BY <1>1, <2>1, <2>2 DEF Fresh
  <2>3. CASE rows[n].src = job.src /\ Same(rows[n], i)
    BY <2>1, <2>3
  <2>. QED
    BY <1>1, <2>2, <2>3
<1>. QED
  BY <1>2, <1>3 DEF i

(* An article that was saved as it is now is not new.                        *)
LEMMA AgainIsKept ==
    ASSUME Inv, WriteRow, job.again, ~Twins(job.src, job.from[2])
    PROVE  job.found # 0 /\ IsEditorialUnchanged(rows[job.found], ItemAt(job.nth))
<1>. DEFINE s == job.src
            i == ItemAt(job.nth)
<1>1. job.pc = "writing"
  BY DEF WriteRow, At
<1>2. Handling /\ job.items \subseteq NormalizeFeedArticles(job.from)
  BY <1>1, HandlingKnows
<1>3. /\ job.nth \in NormalizeFeedArticles(job.from)
      /\ IF job.found = 0 THEN \A n \in DOMAIN rows : ~Identity(rows[n], s, i)
         ELSE job.found \in DOMAIN rows /\ Identity(rows[job.found], s, i)
  BY <1>1, <1>2 DEF Inv, JobInv, At
<1>4. Fresh(rows, s, i)
  BY <1>2, <1>3 DEF Inv, QuietInv
<1>5. PICK n \in DOMAIN rows : rows[n].src = s /\ Same(rows[n], i) /\ IsEditorialUnchanged(rows[n], i)
  BY <1>4 DEF Fresh
<1>6. Identity(rows[n], s, i)
  BY <1>5 DEF Identity, Same
<1>7. job.found # 0 /\ job.found \in DOMAIN rows /\ Identity(rows[job.found], s, i)
  BY <1>3, <1>6
<1>8. rows[job.found].src = rows[n].src /\ Same(rows[job.found], rows[n])
  BY <1>5, <1>7 DEF Identity, Same
<1>9. job.found = n
  BY <1>5, <1>7, <1>8 DEF Inv, StoreInv, OneRow
<1>. QED
  BY <1>5, <1>7, <1>9

LEMMA WriteRowInv ==
    ASSUME Inv, WriteRow
    PROVE  Inv'
<1>. DEFINE s == job.src
            i == ItemAt(job.nth)
            kept == job.found # 0 /\ IsEditorialUnchanged(rows[job.found], i)
            fresh == job.fresh \/ ~kept
<1>1. /\ job.pc = "writing" /\ world' = world /\ current' = current /\ lastFeed' = lastFeed
      /\ etag' = etag /\ saved' = saved
  BY DEF WriteRow, At
<1>2. /\ Handling /\ job \in Jobs /\ s \in Source
      /\ job.from[1] = s /\ job.from[2] \in Published(s)
      /\ job.items \subseteq NormalizeFeedArticles(job.from)
      /\ saved[s] = 0
  BY <1>1, HandlingKnows
<1>3. job.nth \in NormalizeFeedArticles(job.from)
  BY <1>1, <1>2 DEF Inv, JobInv, At
<1>4. job' = [job EXCEPT !.pc = "saving", !.items = job.items \ {job.nth}, !.nth = 0,
                         !.found = 0, !.clean = job.clean, !.fresh = fresh]
  BY <1>2 DEF WriteRow, Set, NextItem, Jobs
<1>5. /\ job' \in Jobs
      /\ job'.pc = "saving" /\ job'.src = job.src /\ job'.from = job.from
      /\ job'.items = job.items \ {job.nth} /\ job'.again = job.again
      /\ job'.clean = job.clean /\ job'.fresh = fresh
      /\ Handling' /\ Done' = Done \cup {job.nth}
  <2>1. job.clean \in BOOLEAN /\ fresh \in BOOLEAN
    BY <1>2 DEF Jobs
  <2>. HIDE DEF fresh
  <2>. QED
    BY <1>1, <1>4, <2>1, NextItemIs
<1>6. JobInv'
  BY <1>1, <1>5, NextItemJob
<1>7. TypeOK' /\ FeedsInv'
  BY <1>1, <1>5 DEF Inv, TypeOK, FeedsInv, Published
<1>8. StoreInv'
  BY WrittenRows DEF StoreInv
<1>9. Fresh(rows', s, i) /\ Stored(rows', s, i)
  <2>1. Fresh(rows', s, i)
    BY WrittenRows
  <2>. HIDE DEF s, i
  <2>. QED
    BY <2>1 DEF Fresh, Stored
<1>10. \A n : ItemAt(n)' = ItemAt(n)
  BY <1>5 DEF ItemAt
<1>11. HiddenInv'
  <2>. SUFFICES ASSUME ~world.faults PROVE HiddenInv'
    BY <1>1 DEF HiddenInv
  <2>1. ASSUME NEW q \in Source, etag[q] # 0, ~(q = s /\ etag[q] = job.from[2]),
               NEW j \in Items(q, etag[q])
        PROVE  Stored(rows', q, j)
    <3>1. Stored(rows, q, j)
      BY <2>1, <1>2 DEF Inv, HiddenInv
    <3>. QED
      BY <3>1, WriteKeeps
  <2>2. ASSUME NEW n \in Done PROVE Stored(rows', s, ItemAt(n))
    <3>1. Stored(rows, s, ItemAt(n))
      BY <1>2 DEF Inv, HiddenInv
    <3>. QED
      BY <3>1, WriteKeeps
  <2>. QED
    BY <1>1, <1>5, <1>9, <1>10, <2>1, <2>2 DEF HiddenInv
<1>12. QuietInv'
  <2>1. ASSUME NEW q \in Source, saved[q] # 0, ~Twins(q, saved[q]), NEW j \in Items(q, saved[q])
        PROVE  Fresh(rows', q, j)
    <3>1. Fresh(rows, q, j)
      BY <2>1 DEF Inv, QuietInv
    <3>2. q # s
      BY <2>1, <1>2
    <3>. QED
      BY <3>1, <3>2, WriteKeeps
  <2>2. ASSUME ~Twins(s, job.from[2]), NEW n \in NormalizeFeedArticles(job.from),
               Fresh(rows, s, ItemAt(n))
        PROVE  Fresh(rows', s, ItemAt(n))
    <3>1. CASE n = job.nth
      BY <3>1, <1>9
    <3>2. CASE n # job.nth
      <4>1. n \in DOMAIN Feed[s][job.from[2]] /\ job.nth \in DOMAIN Feed[s][job.from[2]]
        BY <1>2, <1>3, ItemsNormalised
      <4>2. ASSUME NEW r, Same(r, i), Same(r, ItemAt(n)) PROVE FALSE
        BY <2>2, <3>2, <4>1, <4>2, <1>2, OwnRow DEF ItemAt, Inv
      <4>. QED
        BY <2>2, <4>2, WriteKeeps
    <3>. QED
      BY <3>1, <3>2
  <2>3. ASSUME ~Twins(s, job.from[2]), job.clean, NEW n \in Done'
        PROVE  Fresh(rows', s, ItemAt(n))
    <3>1. CASE n = job.nth
      BY <3>1, <1>9
    <3>2. CASE n \in Done
      <4>1. Fresh(rows, s, ItemAt(n)) /\ n \in NormalizeFeedArticles(job.from)
        BY <2>3, <3>2, <1>2 DEF Inv, QuietInv, Done
      <4>. QED
        BY <2>2, <2>3, <4>1
    <3>. QED
      BY <3>1, <3>2, <1>5
  <2>4. ASSUME ~Twins(s, job.from[2]), job.again
        PROVE  ~fresh /\ \A n \in NormalizeFeedArticles(job.from) : Fresh(rows', s, ItemAt(n))
    <3>1. ~job.fresh /\ \A n \in NormalizeFeedArticles(job.from) : Fresh(rows, s, ItemAt(n))
      BY <2>4, <1>2 DEF Inv, QuietInv
    <3>2. kept
      BY <2>4, AgainIsKept
    <3>. QED
      BY <2>2, <2>4, <3>1, <3>2
  <2>. HIDE DEF fresh
  <2>. QED
    BY <1>1, <1>2, <1>5, <1>10, <2>1, <2>3, <2>4 DEF QuietInv
<1>. QED
  BY <1>6, <1>7, <1>8, <1>11, <1>12 DEF Inv

(* The feed is saved: every item of it was done.                             *)
LEMMA CollectedInv ==
    ASSUME Inv, Collected
    PROVE  Inv'
<1>. DEFINE s == job.src
            v == job.from[2]
            end == IF job.clean /\ job.from[1] = s THEN v ELSE 0
<1>1. /\ job.pc = "saving" /\ job.items = {} /\ job' = Idle
      /\ world' = world /\ current' = current /\ lastFeed' = lastFeed
      /\ etag' = etag /\ rows' = rows /\ saved' = [saved EXCEPT ![s] = end]
  BY DEF Collected, At, Set
<1>2. /\ Handling /\ s \in Source /\ job.from[1] = s /\ v \in Published(s)
  BY <1>1, HandlingKnows
<1>3. Done = NormalizeFeedArticles(job.from)
  BY <1>1 DEF Done
<1>4. JobInv' /\ ~Handling' /\ job' \in Jobs
  BY <1>1, IdleJob
<1>5. end \in Published(s) \cup {0} /\ end \in Nat
  BY <1>2 DEF Published
<1>6. \A i \in Items(s, v) : \E n \in Done : i = ItemAt(n)
  BY <1>2, <1>3, ItemsNormalised DEF ItemAt
<1>. HIDE DEF end
<1>7. saved'[s] = end /\ \A q \in Source : q # s => saved'[q] = saved[q]
  BY <1>1, <1>2 DEF Inv, TypeOK
<1>8. TypeOK'
  BY <1>1, <1>4, <1>5 DEF Inv, TypeOK
<1>9. FeedsInv'
  BY <1>1, <1>2, <1>5, <1>7 DEF Inv, FeedsInv, Published
<1>10. StoreInv'
  BY <1>1 DEF Inv, StoreInv, OneRow
<1>11. HiddenInv'
  <2>. SUFFICES ASSUME ~world.faults, NEW q \in Source, etag[q] # 0, NEW i \in Items(q, etag[q])
                PROVE  Stored(rows, q, i)
    BY <1>1, <1>4 DEF HiddenInv
  <2>1. CASE q = s /\ etag[q] = v
    <3>1. PICK n \in Done : i = ItemAt(n)
      BY <2>1, <1>6
    <3>. QED
      BY <2>1, <3>1, <1>2 DEF Inv, HiddenInv
  <2>2. CASE ~(q = s /\ etag[q] = v)
    BY <2>2, <1>2 DEF Inv, HiddenInv
  <2>. QED
    BY <2>1, <2>2
<1>12. QuietInv'
  <2>. SUFFICES ASSUME NEW q \in Source, saved'[q] # 0, ~Twins(q, saved'[q]),
                       NEW i \in Items(q, saved'[q])
                PROVE  Fresh(rows, q, i)
    BY <1>1, <1>4 DEF QuietInv
  <2>1. CASE q = s
    <3>1. job.clean /\ saved'[q] = v
      BY <2>1, <1>7 DEF end
    <3>2. PICK n \in Done : i = ItemAt(n)
      BY <2>1, <3>1, <1>6
    <3>. QED
      BY <2>1, <3>1, <3>2, <1>2 DEF Inv, QuietInv
  <2>2. CASE q # s
    BY <2>2, <1>7 DEF Inv, QuietInv
  <2>. QED
    BY <2>1, <2>2
<1>. QED
  BY <1>4, <1>8, <1>9, <1>10, <1>11, <1>12 DEF Inv

LEMMA RestartInv ==
    ASSUME Inv, Restart
    PROVE  Inv'
<1>1. /\ world.faults /\ job' = Idle /\ lastFeed' = NoFeed
      /\ world' = world /\ current' = current /\ etag' = etag /\ rows' = rows /\ saved' = saved
  BY DEF Restart, db
<1>2. JobInv' /\ ~Handling' /\ job' \in Jobs
  BY <1>1, IdleJob
<1>3. TypeOK'
  BY <1>1, <1>2 DEF Inv, TypeOK, NoFeed
<1>4. FeedsInv'
  BY <1>1 DEF Inv, FeedsInv, Published
<1>. QED
  BY <1>1, <1>2, <1>3, <1>4, AsideInv

LEMMA StutterInv ==
    ASSUME Inv, UNCHANGED vars
    PROVE  Inv'
<1>1. /\ world' = world /\ current' = current /\ lastFeed' = lastFeed /\ job' = job
      /\ etag' = etag /\ rows' = rows /\ saved' = saved
  BY DEF vars, db
<1>2. TypeOK' /\ FeedsInv'
  BY <1>1 DEF Inv, TypeOK, FeedsInv, Published
<1>3. JobInv'
  BY <1>1 DEF Inv, JobInv, Asking, Handling, At, Published, ItemAt
<1>4. StoreInv'
  BY <1>1 DEF Inv, StoreInv, OneRow
<1>5. HiddenInv' /\ QuietInv'
  BY <1>1 DEF Inv, HiddenInv, QuietInv, Handling, Done, ItemAt
<1>. QED
  BY <1>2, <1>3, <1>4, <1>5 DEF Inv

-----------------------------------------------------------------------------
LEMMA StepInv == Inv /\ [Next]_vars => Inv'
<1>. SUFFICES ASSUME Inv, [Next]_vars PROVE Inv'
  OBVIOUS
<1>1. CASE \E s \in Source : \E v \in Versions(s) : Publish(s, v)
  BY <1>1, PublishInv
<1>2. CASE \E s \in Source : Collect(s)
  BY <1>2, CollectInv
<1>3. CASE Step
  BY <1>3, ResolveInv, RedirectedInv, AnswerRefusedInv, NotModifiedInv, ParseFeedInv,
     SaveUnchangedInv, SaveStateInv, SaveStateFailsInv, FindRowInv, WriteRowInv,
     SaveArticleFailsInv, CollectedInv DEF Step, Answer
<1>4. CASE Restart
  BY <1>4, RestartInv
<1>5. CASE UNCHANGED vars
  BY <1>5, StutterInv
<1>. QED
  BY <1>1, <1>2, <1>3, <1>4, <1>5 DEF Next

LEMMA Invariant == Spec => []Inv
  BY InitInv, StepInv, PTL DEF Spec

-----------------------------------------------------------------------------
(***************************************************************************)
(* No request goes to an address that is refused, for any names, redirects *)
(* and answers (http-client.ts, get; ssrf.ts).                             *)
(***************************************************************************)
THEOREM AddressCheckedHolds == Spec => []AddressChecked
<1>1. Inv => AddressChecked
  BY DEF Inv, JobInv, AddressChecked, IsBlockedIpAddress
<1>. QED
  BY <1>1, Invariant, PTL

(***************************************************************************)
(* Every article is one of the feed of its source, though the adapters     *)
(* keep the last feed in a variable of the process; and, when nothing      *)
(* fails, the ETag of a source stands for items that are all saved         *)
(* (pipeline-orchestrator.ts, handleCollectResult).                        *)
(***************************************************************************)
THEOREM RowsInvHolds == Spec => []RowsInv
<1>1. ASSUME Inv PROVE OwnFeed
  <2>. SUFFICES ASSUME NEW n \in DOMAIN rows
                PROVE  \E v \in DOMAIN Feed[rows[n].src] :
                          \E i \in Items(rows[n].src, v) : Same(rows[n], i) /\ rows[n].text = i.text
    BY DEF OwnFeed
  <2>1. rows[n] \in SoundRow
    BY <1>1, RowsNumbered
  <2>2. PICK s \in Source : \E v \in DOMAIN Feed[s] : \E i \in Items(s, v) : rows[n] = RowOf(s, i)
    BY <2>1, SoundRows
  <2>3. PICK v \in DOMAIN Feed[s] : \E i \in Items(s, v) : rows[n] = RowOf(s, i)
    BY <2>2
  <2>4. PICK i \in Items(s, v) : rows[n] = RowOf(s, i)
    BY <2>3
  <2>5. rows[n].src = s /\ Same(rows[n], i) /\ rows[n].text = i.text
    BY <2>4 DEF RowOf, Same
  <2>. QED
    BY <2>5
<1>2. ASSUME Inv PROVE NothingHidden
  <2>. SUFFICES ASSUME ~world.faults, At("idle"), NEW s \in Source, etag[s] # 0,
                       NEW i \in Items(s, etag[s])
                PROVE  Stored(rows, s, i)
    BY DEF NothingHidden, Stored
  <2>1. ~Handling
    BY DEF At, Handling
  <2>. QED
    BY <1>2, <2>1 DEF Inv, HiddenInv
<1>3. Inv => RowsInv
  BY <1>1, <1>2 DEF Inv, RowsInv
<1>. QED
  BY <1>3, Invariant, PTL

(***************************************************************************)
(* No two rows stand for one article of a source, and every row is as one  *)
(* item of a feed made it: what is found before it is written is still the *)
(* only one (normalized-article-repository.ts, persistOne).                *)
(***************************************************************************)
THEOREM OneRowHolds == Spec => []OneRow
<1>1. Inv => OneRow
  BY DEF Inv, StoreInv
<1>. QED
  BY <1>1, Invariant, PTL

(***************************************************************************)
(* A version that was saved from end to end brings no article to be        *)
(* matched when it is collected again, whatever failed in between.         *)
(***************************************************************************)
THEOREM UnchangedFeedIsQuietHolds == Spec => []UnchangedFeedIsQuiet
<1>1. ASSUME Inv, job.again, ~Twins(job.from[1], job.from[2]) PROVE ~job.fresh
  <2>1. Handling
    BY <1>1 DEF Inv, JobInv
  <2>2. job.from[1] = job.src
    BY <1>1, <2>1 DEF Inv, JobInv
  <2>. QED
    BY <1>1, <2>1, <2>2 DEF Inv, QuietInv
<1>2. Inv => UnchangedFeedIsQuiet
  BY <1>1 DEF UnchangedFeedIsQuiet
<1>. QED
  BY <1>2, Invariant, PTL
=============================================================================
