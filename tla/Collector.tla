------------------------------ MODULE Collector ------------------------------
(***************************************************************************)
(* How one source of a cycle is collected: the HTTP client and the         *)
(* conditional fetch of packages/collector/src, the adapters of            *)
(* apps/worker/src/pipeline-collector.ts (the bot has the same ones), and  *)
(* the saving of the articles by pipeline-orchestrator.ts,                 *)
(* handleCollectResult, through normalized-article-repository.ts.          *)
(*                                                                         *)
(* The adapters keep the last feed they parsed in a variable of the        *)
(* process, and normalise that one, not the feed they are given.  The      *)
(* collections follow each other: a cycle visits its sources in turn, and  *)
(* cycles run under the pipeline lock.                                     *)
(*                                                                         *)
(* A feed is named by its version, which its ETag stands for.  The remote  *)
(* servers answer as they like, within HTTP.                               *)
(***************************************************************************)
EXTENDS Integers, Sequences

CONSTANTS
    Source, Url, Address,
    UrlOf,         \* UrlOf[s]: the URL of the feed of s
    Blocked,       \* the addresses isBlockedIpAddress refuses
    Feed,          \* Feed[s][v]: the items of the v-th version of the feed of s, in order
    MaxRedirects,
    None,          \* no source, address, external id
    Worlds         \* the worlds looked at: whether the database and the process may
                   \* fail, and how many versions each feed has (a bound)

ASSUME CollectorAssumption ==
    /\ UrlOf \in [Source -> Url]
    /\ Blocked \subseteq Address
    /\ MaxRedirects \in Nat
    /\ Worlds \subseteq [faults : BOOLEAN, versions : [Source -> Nat \ {0}]]
    /\ \A w \in Worlds, s \in Source : 1 .. w.versions[s] \subseteq DOMAIN Feed[s]
    /\ \A s \in Source : \A v \in DOMAIN Feed[s] : DOMAIN Feed[s][v] \subseteq Nat
    /\ None \notin Source \cup Url \cup Address

VARIABLES
    world,         \* the world of this behaviour
    current,       \* current[s]: the version the server of s has now
    etag,          \* etag[s]: the version its CollectedSourceState row names, 0 for none
    lastFeed,      \* what the adapters of the process parsed last, <<source, version>>
    rows,          \* the NormalizedArticle rows, in the order of their creation
    saved,         \* saved[s]: the version that was saved last, from end to end
    job            \* the collection under way

db == <<etag, rows, saved>>
vars == <<world, current, db, lastFeed, job>>

NoFeed == <<None, 0>>

\* prior: the ETag sent.  at, visited, hops, addr: the request under way.  got, tagged:
\* the version in the answer, and whether it has its ETag.  from, items, nth,
\* found: the normalised feed, which of its items are left to save, the one that is
\* saved now, its row.  clean, again, fresh: no item was skipped, the feed was saved
\* before, an article is new.
Idle == [pc |-> "idle", src |-> None, prior |-> 0, at |-> None, visited |-> {},
         hops |-> 0, addr |-> None, got |-> 0, tagged |-> FALSE, from |-> NoFeed,
         items |-> {}, nth |-> 0, found |-> 0, clean |-> TRUE, again |-> FALSE, fresh |-> FALSE]

Versions(s) == 1 .. world.versions[s]

Init ==
    /\ world \in Worlds
    /\ current = [s \in Source |-> 1]
    /\ etag = [s \in Source |-> 0]
    /\ lastFeed = NoFeed
    /\ rows = <<>>
    /\ saved = [s \in Source |-> 0]
    /\ job = Idle

At(pc) == job.pc = pc
Set(r) == job' = r

\* The collection throws: the caller records a failure of the source.
Fails == Set(Idle)

-----------------------------------------------------------------------------
\* The server of s has another version of its feed, an earlier one perhaps.
Publish(s, v) ==
    /\ v \in Versions(s) \ {current[s]}
    /\ current' = [current EXCEPT ![s] = v]
    /\ UNCHANGED <<world, db, lastFeed, job>>

\* The state of the source is read, and its feed asked for.
Collect(s) ==
    /\ At("idle")
    /\ Set([Idle EXCEPT !.pc = "resolve", !.src = s, !.prior = etag[s], !.at = UrlOf[s]])
    /\ UNCHANGED <<world, current, db, lastFeed>>

IsBlockedIpAddress(a) == a \in Blocked

\* The name of the next hop is resolved, to what its addresses are now.  One of
\* them that is refused, a name with none, or a URL seen before end the collection.
ResolveSafeDestination ==
    /\ At("resolve")
    /\ \E addresses \in SUBSET Address :
         IF (\E a \in addresses : IsBlockedIpAddress(a)) \/ addresses = {}
            \/ job.at \in job.visited
         THEN Fails
         ELSE \E a \in addresses :
                Set([job EXCEPT !.pc = "sent", !.addr = a, !.visited = @ \cup {job.at}])
    /\ UNCHANGED <<world, current, db, lastFeed>>

\* Mutant of Redirected: the new location is requested from the same connection pool,
\* its name left to the transport to resolve.
RedirectedUnresolved(u) ==
    /\ At("sent")
    /\ IF job.hops >= MaxRedirects
       THEN Fails
       ELSE \E a \in Address :
              Set([job EXCEPT !.at = u, !.hops = @ + 1, !.addr = a])
    /\ UNCHANGED <<world, current, db, lastFeed>>

\* Mutant of Redirected: get calls itself with the new location.
RedirectedAnew(u) ==
    /\ At("sent")
    /\ Set([job EXCEPT !.pc = "resolve", !.at = u, !.visited = {}, !.addr = None])
    /\ UNCHANGED <<world, current, db, lastFeed>>

\* The server redirects.
Redirected(u) ==
    /\ At("sent")
    /\ IF job.hops >= MaxRedirects
       THEN Fails
       ELSE Set([job EXCEPT !.pc = "resolve", !.at = u, !.hops = @ + 1, !.addr = None])
    /\ UNCHANGED <<world, current, db, lastFeed>>

\* A timeout, a network error, a redirection to nowhere, a body too large or empty, a
\* status that is no success, a body that does not parse.
AnswerRefused ==
    /\ At("sent")
    /\ Fails
    /\ UNCHANGED <<world, current, db, lastFeed>>

\* 304: what the request said it had is current.
NotModified ==
    /\ At("sent") /\ job.prior # 0 /\ job.prior = current[job.src]
    /\ Set([job EXCEPT !.pc = "unchanged", !.addr = None, !.visited = {}])
    /\ UNCHANGED <<world, current, db, lastFeed>>

\* The body parses, and is kept for the normalisation; a format that is not the one
\* of the provider is refused after that.
ParseFeed ==
    /\ At("sent")
    /\ lastFeed' = <<job.src, current[job.src]>>
    /\ \/ Fails
       \/ \E tagged \in BOOLEAN :
            Set([job EXCEPT !.pc = "fetched", !.got = current[job.src],
                             !.tagged = tagged, !.addr = None, !.visited = {}])
    /\ UNCHANGED <<world, current, db>>

\* The validators of the answer; those that were sent, where it has none.
NextFetchState == IF job.tagged THEN job.got ELSE job.prior

-----------------------------------------------------------------------------
(* handleCollectResult.                                                    *)

\* The answer was a 304: the state of the source is saved, or cannot be.
SaveUnchanged ==
    /\ At("unchanged")
    /\ etag' = [etag EXCEPT ![job.src] = job.prior] \/ (world.faults /\ UNCHANGED etag)
    /\ Set(Idle)
    /\ UNCHANGED <<world, current, lastFeed, rows, saved>>

\* Items without a title or a valid link are rejected, and keep no other one back.
NormalizeFeedArticles(f) == {n \in DOMAIN Feed[f[1]][f[2]] : Feed[f[1]][f[2]][n].ok}

\* The snapshot and the state of the source are saved, then the feed parsed last is
\* normalised, whichever was collected.
SaveState ==
    /\ At("fetched")
    /\ etag' = [etag EXCEPT ![job.src] = NextFetchState]
    /\ Set([job EXCEPT !.pc = "saving", !.from = lastFeed,
                        !.items = NormalizeFeedArticles(lastFeed),
                        !.again = lastFeed = <<job.src, saved[job.src]>>])
    /\ saved' = [saved EXCEPT ![job.src] = 0]
    /\ UNCHANGED <<world, current, lastFeed, rows>>

\* The snapshot or the state cannot be saved.
SaveStateFails ==
    /\ world.faults /\ At("fetched")
    /\ etag' = [etag EXCEPT ![job.src] = NextFetchState] \/ UNCHANGED etag
    /\ Fails
    /\ UNCHANGED <<world, current, lastFeed, rows, saved>>

-----------------------------------------------------------------------------
(* saveNormalizedArticle: a row is looked for, then created or updated.    *)

\* Mutant of Identity: the link, whether the item has an external id or not.
IdentityByUrl(r, s, i) == r.src = s /\ r.url = i.url /\ r.track = i.track

\* Mutant of Identity: external ids are taken to be unique.
IdentityAcrossSources(r, s, i) ==
    IF i.ext # None THEN r.ext = i.ext
    ELSE r.src = s /\ r.ext = None /\ r.url = i.url /\ r.track = i.track

\* The row of an item: by external id, else by link, campaign parameters included.
Identity(r, s, i) ==
    /\ r.src = s /\ r.ext = i.ext
    /\ i.ext = None => r.url = i.url /\ r.track = i.track

\* The comparison does not look at campaign parameters.
IsEditorialUnchanged(r, i) == r.url = i.url /\ r.text = i.text

RowOf(s, i) == [src |-> s, ext |-> i.ext, url |-> i.url, track |-> i.track, text |-> i.text]
Updated(r, i) == [r EXCEPT !.url = i.url, !.track = i.track, !.text = i.text]

ItemAt(n) == Feed[job.from[1]][job.from[2]][n]

FindRow ==
    /\ At("saving")
    /\ \E n \in job.items :
         LET same == {m \in DOMAIN rows : Identity(rows[m], job.src, ItemAt(n))}
         IN  /\ \A m \in job.items : n <= m
             /\ \E m \in IF same = {} THEN {0} ELSE same :
                  Set([job EXCEPT !.pc = "writing", !.nth = n, !.found = m])
    /\ UNCHANGED <<world, current, db, lastFeed>>

NextItem == [job EXCEPT !.pc = "saving", !.items = @ \ {job.nth}, !.nth = 0, !.found = 0]

WriteRow ==
    LET i == ItemAt(job.nth)
        kept == job.found # 0 /\ IsEditorialUnchanged(rows[job.found], i)
    IN  /\ At("writing")
        /\ rows' = CASE kept          -> rows
                     [] job.found = 0 -> Append(rows, RowOf(job.src, i))
                     [] OTHER         -> [rows EXCEPT ![job.found] = Updated(@, i)]
        /\ Set([NextItem EXCEPT !.fresh = @ \/ ~kept])
        /\ UNCHANGED <<world, current, lastFeed, etag, saved>>

\* An error skips the item.
SaveArticleFails ==
    /\ world.faults
    /\ At("writing")
    /\ Set([NextItem EXCEPT !.clean = FALSE])
    /\ UNCHANGED <<world, current, db, lastFeed>>

Collected ==
    /\ At("saving") /\ job.items = {}
    /\ saved' = [saved EXCEPT ![job.src] = IF job.clean /\ job.from[1] = job.src
                                         THEN job.from[2] ELSE 0]
    /\ Set(Idle)
    /\ UNCHANGED <<world, current, lastFeed, etag, rows>>

\* The process dies and another starts.
Restart ==
    /\ world.faults
    /\ ~At("idle")
    /\ job' = Idle
    /\ lastFeed' = NoFeed
    /\ UNCHANGED <<world, current, db>>
-----------------------------------------------------------------------------
Answer ==
    \/ \E u \in Url : Redirected(u)
    \/ AnswerRefused \/ NotModified \/ ParseFeed

Step ==
    \/ ResolveSafeDestination \/ Answer
    \/ SaveUnchanged \/ SaveState \/ SaveStateFails
    \/ FindRow \/ WriteRow \/ SaveArticleFails \/ Collected

Next ==
    \/ \E s \in Source : \E v \in Versions(s) : Publish(s, v)
    \/ \E s \in Source : Collect(s)
    \/ Step
    \/ Restart

\* Names are resolved or refused, servers answer or time out, and so does the database.
Spec == Init /\ [][Next]_vars /\ WF_vars(Step)
-----------------------------------------------------------------------------
Jobs ==
    [pc : {"idle", "resolve", "sent", "unchanged", "fetched", "saving", "writing"},
     src : Source \cup {None}, prior : Nat, at : Url \cup {None}, visited : SUBSET Url,
     hops : 0 .. MaxRedirects, addr : Address \cup {None}, got : Nat, tagged : BOOLEAN,
     from : (Source \cup {None}) \X Nat, items : SUBSET Nat, nth : Nat, found : Nat,
     clean : BOOLEAN, again : BOOLEAN, fresh : BOOLEAN]

TypeOK ==
    /\ world \in Worlds
    /\ current \in [Source -> Nat] /\ etag \in [Source -> Nat] /\ saved \in [Source -> Nat]
    /\ lastFeed \in (Source \cup {None}) \X Nat
    /\ job \in Jobs

(***************************************************************************)
(* A request goes to an address that was checked for the hop it belongs    *)
(* to, however often the servers redirect and whatever a name resolves to  *)
(* in the meantime (http-client.ts, get; ssrf.ts).                         *)
(***************************************************************************)
AddressChecked == At("sent") => ~IsBlockedIpAddress(job.addr)

\* A row or an item and an item stand for the same article of a source.
Same(r, i) == r.ext = i.ext /\ (i.ext = None => r.url = i.url /\ r.track = i.track)

\* The items of a version that are saved.
Items(s, v) == {i \in {Feed[s][v][n] : n \in DOMAIN Feed[s][v]} : i.ok}

(***************************************************************************)
(* An article comes from the feed of the source it is attributed to,       *)
(* although the normalisation takes the feed from a variable of the        *)
(* process that a refused feed of another source may have set, and rows    *)
(* are found by ids that feeds give as they like.                          *)
(***************************************************************************)
OwnFeed ==
    \A n \in DOMAIN rows :
        LET r == rows[n]
        IN  \E v \in DOMAIN Feed[r.src] :
                \E i \in Items(r.src, v) : Same(r, i) /\ r.text = i.text

(***************************************************************************)
(* Between collections that nothing interrupts, the ETag of a source       *)
(* stands for items that are all saved: the 304 it brings hides none,      *)
(* whatever answers came without an ETag or were refused on the way.       *)
(***************************************************************************)
NothingHidden ==
    ~world.faults /\ At("idle") =>
        \A s \in Source : etag[s] # 0 =>
            \A i \in Items(s, etag[s]) :
                \E n \in DOMAIN rows : rows[n].src = s /\ Same(rows[n], i)

RowsInv == TypeOK /\ OwnFeed /\ NothingHidden

\* Two items of a version have one identity: its row changes with each of them.
Twins(s, v) == \E m, n \in DOMAIN Feed[s][v] : m < n /\ Same(Feed[s][v][m], Feed[s][v][n])

(***************************************************************************)
(* To collect a version again that was saved from end to end brings no     *)
(* article to be matched: what is found, compared and written agree, for   *)
(* the feeds whose items have identities of their own.                     *)
(***************************************************************************)
UnchangedFeedIsQuiet ==
    job.again /\ ~Twins(job.from[1], job.from[2]) => ~job.fresh

(***************************************************************************)
(* Every collection ends, although the servers may redirect for ever.      *)
(***************************************************************************)
CollectionEnds == ~At("idle") ~> At("idle")
=============================================================================
