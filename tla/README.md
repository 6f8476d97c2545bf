# Radar IA in TLA+

Radar IA is a Discord bot that watches AI news: it collects feeds, groups the
articles that tell of the same event into folders, asks a local model to score
them, decides what is worth publishing, and keeps one Discord message with one
thread per event. This directory models what that program does to its shared
state, checks it with TLC on small instances and proves some of it with TLAPS
for every value of the constants.

Paths below are relative to the root of the repository; `P/` stands for
`packages/database/src/`.

Contents: [the system](#1-the-system), [the modules](#2-the-modules),
[the runs](#3-the-runs), [bounds and fairness](#4-bounds-and-fairness),
[the proofs](#5-the-proofs), [known disagreements and limits](#6-known-disagreements-and-limits),
[what is not modelled](#7-what-is-not-modelled), [the plan](#8-the-plan).

## 1. The system

Three programs share one PostgreSQL database and one Discord server, and
nothing else: there is no queue and no RPC between them.

| program | what it does |
| --- | --- |
| worker (`apps/worker/src/worker.ts`) | runs a cycle, waits, runs the next one; ends on a signal, or after one cycle |
| bot (`apps/bot/src`) | `/radar-admin`: reads, and starts a cycle, a resume of publications, a forced reanalysis |
| catch-up script (`apps/worker/src/catch-up.ts`) | analyses and publishes folders that were left behind, outside any cycle |

A cycle (`P/pipeline-orchestrator.ts`) takes the pipeline lock, collects every
source that is due, saves the new and updated articles, matches each of them to
a folder, analyses the folder, publishes or enriches it, then resumes the
partial publications and releases the lock.

### Components, their state and what makes them correct

| component | state | operations | correct when |
| --- | --- | --- | --- |
| pipeline lock, `P/administration-repository.ts` | `PipelineLock` row, `PipelineRun` rows | tryAcquire, heartbeat, release | one run at a time; a cycle on time is not robbed; a run left behind is ended |
| cycle, `P/pipeline-orchestrator.ts` | source states, article rows, the list of eligible articles in memory, `lockLost` | the stages above | nothing is lost silently; what is skipped is taken up later |
| matching, `packages/shared/src/matching-*.ts`, `P/matching-*.ts` | folders, members, decisions | evaluate, persist | one event per folder, one folder per event, each article placed once |
| analysis, `packages/analysis/src`, `P/analysis-*.ts` | `AnalysisAttempt` rows | analyse, reuse, fall back, record | attempts numbered without gaps; a content is not put off for ever; decisions are monotone |
| inference lease, `P/inference-lock-repository.ts`, `packages/analysis/src/ollama-client.ts` | one lease row; a slot and a queue per client | acquire, infer, release | one inference at a time |
| publication, `P/publication-*.ts`, `apps/bot/src/publication` | `FolderPublication`, `PublicationAttempt`, the messages on Discord | publish, enrich, resume | one message and one thread per folder; the rows never run ahead of Discord |
| scheduler and worker, `apps/worker/src` | timer, flags, connections | start, stop, tick, shutdown | spaced cycles, a clean end |
| admin operations, `P/admin-ops-service.ts`, `apps/bot/src/admin` | `AdminOperationLog` | cycle, resume, reanalyse | the log tells the truth |
| Discord content, `packages/shared/src/publication-discord-*.ts` | none | main publication, enrichment, thread name | Discord takes it, and the summary gives way first |
| context, `packages/analysis/src/analysis-context-builder.ts`, `analysis-fact-validation.ts` | none | build, reduce, anchor facts | what is retained was shown; no folder is refused that could be cut |
| collector, `packages/collector/src`, `apps/worker/src/pipeline-collector.ts` | ETag of the source, last feed of the process, article rows | get, redirect, parse, normalise, save | no request to an address that was not checked; a 304 hides nothing; articles belong to their source |
| registry, `packages/collector/src/source-registry.ts` | none | parse, strict or resilient | one bad entry takes nothing from the others |
| configuration, API, probe | none | | see section 7 |

### How they interact

- Calls within a process are direct and awaited; a cycle is sequential. What
  runs beside it in the same process is its heartbeat timer, and in the bot the
  other commands.
- Processes meet in the database only. Two rows serve as locks, the pipeline
  lock and the inference lease; publication attempts carry an execution lease.
  All three expire by the clock of whoever asks.
- The pipeline lock covers the cycles of the worker and of the bot. It does not
  cover the resume and reanalyse commands, nor the catch-up script.
- Discord is called between two transactions: one reserves the operation, the
  other records the answer.

### What is hard

- Interleaving: cycles beside commands and the script; a robbed cycle, which
  goes on with what it has in hand, beside the one that robbed it.
- Time: heartbeats that land late, leases that expire under their holder.
- Partial failure: a Discord call that worked and whose answer is lost, a source
  whose ETag is stored and whose articles are not, an audit row that cannot be
  written.
- Crashes between any two steps.

`PROJECT.json` lists the hazards one by one with their line and the properties
that watch them.

## 2. The modules

| module | models | composed of |
| --- | --- | --- |
| `PipelineLock` | the lock, the runs, the cycles that hold it, heartbeats on their way | |
| `Publication` | the publication of one folder by several tasks | refines `PublicationRecord` |
| `PublicationRecord` | what a publication promises when commands do not overlap | |
| `Matching` | fingerprints, comparison, decision (no state) | |
| `MatchingStage` | the matching stage of cycles that may overlap | extends `Matching` |
| `PipelineCycle` | one cycle after another, from feeds to Discord, with faults | |
| `InferenceLease` | the lease and the slots, and who takes them | |
| `AnalysisDecision` | scores, thresholds, channels (no state) | |
| `AnalysisAttempts` | concurrent analyses of one folder and their rows | extends `AnalysisDecision` |
| `AnalysisContext` | what the model is shown of a folder, and the anchoring of facts (no state) | |
| `DiscordContent` | messages, embeds and thread names by their lengths (no state) | |
| `SourceRegistry` | the reading of the registry (no state) | |
| `InputSpace` | the inputs of the four modules without state | extends them |
| `Collector` | the collection of a source: requests, feeds, saving | |
| `CycleScheduler` | the timer that runs cycles, under any caller | |
| `Worker` | the worker process and its signals | extends `CycleScheduler`, whose specification it implements |
| `AdminOps` | the mutating commands and the audit log | |

The `MC*` modules give the constants of the instances that TLC checks;
the eight `*Proofs` modules hold the theorems, six of them about the module they
are named after. `ProcessProofs` is about the two processes, `Worker` (with
`CycleScheduler`) and `AdminOps`; `RulesProofs` about `InputSpace`, with the modules
without state it extends, and `MatchingStage`. An operator whose comment calls it a mutant is a plausible mistake in the operation
it names: each property of each run is violated when one of them takes the
place of that operation, so that no property holds whatever the code does.

### How state and actions correspond to the code

**PipelineLock.** Each repository operation locks the row `FOR UPDATE`, so it
is one step. `lock.left` is the time to `expiresAt`. A heartbeat is two steps:
`SendBeat`, when the timer fires and the expiry is computed, and `Heartbeat`,
`HeartbeatRefused` or `HeartbeatError`, when the database gets to it. `Acquire`
takes the clock its caller read before (`a` ticks ago). `cyc[h].pace` says
whether a cycle has been disturbed: stalled past its deadline, or refused two
heartbeats in a row. It is a history variable, used by one property only.

**Publication.** `att[k]` is the latest attempt of an idempotency key: earlier
ones are always failed. `ex[p].pc` follows a task through reserve, claim, call,
release or record. A Discord call succeeds (`CallDiscord`), fails
(`CallFails`), or works and looks like a failure (`CallAnswerLost`). A
repository call reads its rows without locking them and updates them by id, in a
transaction of the default isolation: it is two steps, one that reads, asserts the
transition and decides (`ReservePublish`, `RecordMain`, `RecordThread`,
`RecordEnrich`, `RecordFailure`, `ReleaseLease`) and one that writes
(`CreateAttempt`, `WriteMain`, `WriteThread`, `WriteEnrich`, `WriteFailure`,
`ClearLease`), with any steps of the other task in between. Only
`claimExecution`, a conditional update, is one. The attempt of a record is read
after the row of the folder was updated, which other records wait for, and so belongs to
the write. Attempt numbers are recycled: all that matters is whether the attempt a
task holds is still the latest one. `faults.stale` is a history variable: a status
was written over another main message than the row had when it was read
(`ex[p].msg`).

**Matching, MatchingStage.** The text of an article is what the extractors make
of it: product, version, nature, names, facts, categories, URL, day. A folder
is named by its primary article. A cycle loads its candidates once, as
`loadMatchingCandidateFolders` does, and matches against that snapshot.

**PipelineCycle.** The rows of the database survive a crash, `cyc` does not. An
ETag is modelled by the items of the feed it stands for, so that a 304 can hide
what was never saved. The source state is stored before the articles, as in the
code. Matching, analysis and publication are one step each with any of their
outcomes.

**InferenceLease.** The holder of the lease is a process; `owner`, the call it
was granted to, exists for the properties. The catch-up script takes the slot
of its own client and no lease.

**AnalysisDecision, AnalysisAttempts.** The thresholds and
formulas are those of the code, in integers. An analysis reads the publication,
reads the folder, infers, counts holds, counts attempts and inserts, in that
order and with no transaction around.

**AnalysisContext.** A text is a sequence of words of length one; headings and
separators count with the text they go with. The reduction empties enrichments
from the oldest, then the primary article, then cuts the facts, and refuses a
folder whose heads alone are too long. An order is a relation, and an article or
a fact goes by its `Rank` in it. A folder has one primary article, the one it is
created with (`P/matching-persistence-service.ts:61`). A proposed fact is anchored when its value, or each of
its significant words, stands in the folder as it was shown.

**DiscordContent.** A part of a message is its length in code points, 0 when it
is absent. `EnforceEmbedTotal` is the chain of the code: the description is cut,
then fields are dropped from the end, then title and footer are cut.

**SourceRegistry.** An entry names a page and a form of its URL, which
normalisation makes one; its patterns are one verdict. `ParseSourceRegistry` is
one turn of the loop over the entries, in either mode.

**InputSpace.** Has no counterpart in the code: `subject` says which function is
looked at and `input` is its argument. The decision's input is improved by one
part at a step, so that monotony is an action property; a registry grows by one
entry at a step, which `reading` takes in with both modes.

**Collector.** A feed is named by its version, which its ETag stands for, and
`Feed[s][v]` gives its items. `job` is the collection under way: each hop is a
resolution and a request (`ResolveSafeDestination`, `Redirected`), and a name
may resolve to anything each time. `lastFeed` is the variable of the process
the adapters leave the parsed feed in: `SaveState` normalises that one, as the
code does, and not the feed of its argument. `job.items` holds the positions in
the feed of the items still to save, and `job.nth` the one in hand. A row is
looked for and written in two steps. `saved` and three fields of `job` (`again`, `clean`, `fresh`) are history
variables. Collections follow each other, as they do under the pipeline lock.

**CycleScheduler, Worker.** `pending` is the remaining delay of the timer. A
worker's signal handlers serve once each: the other signal during a shutdown
exits at once (`ShutdownAgain`), the same signal once more kills (`Killed`).

**AdminOps.** `ops` lists the operations that ended, with what each one `came` to in
fact, which the log does not know: it goes by the answer of the operation
(`CycleOutcome`, `ReanalysisOutcome`, `ResumeOutcome`), and an answer may hide
something. `partly` is an operation that stopped short under an answer that is
taken for a success: a resumption whose thread failed once more (kind
`partial`), a cycle whose lock only its release found lost. The audit row follows the
operation it reports; when writing it fails in resume or reanalyse, the error
handler of the operation writes another one that says it failed (`RecordFails`).
A batch resumes the publications that are partial when it starts, one operation
each, then writes a row of its own (`RecordSummary`); `batches` has the
publications it listed, the operations it consists of and that row.

## 3. The runs

All passing runs are exhaustive; `collect` takes two or three minutes, the others less.

| run | question | properties |
| --- | --- | --- |
| `pipeline_lock` | Is there one run at a time, whatever is late, refused, lost or dead? | `RowsAgree`, `PromptCycleKeepsLock`, `LostIsFinal`, `ReleasesOwnRun`, `OrphanedRunEnds` |
| `publication` | Whatever goes wrong, one command after the other or side by side: does the row stay coherent, who may call Discord, what appears twice, is the promise of `PublicationRecord` kept when commands do not overlap? | `RowInv`, `MainIsKept`, `RecordSpec`, `OneExecutor`, `DuplicatesPerFault`, `PartialGetsThread` |
| `publication_double` | Is a folder published once when nothing fails? No. | `NeverDoublePublish` (violated) |
| `collect` | Is each request checked, is an article attributed to its source, does a 304 hide one, does a collection end? | `RowsInv`, `AddressChecked`, `UnchangedFeedIsQuiet`, `CollectionEnds` |
| `matching` | One event per folder and one folder per event? And when cycles overlap? | `MatchingInv`, `OneEventPerFolder`, `CreatesOnlyWhenNew` |
| `cycle` | What can a fault in the middle of a cycle lose, and is it noticed? | `PipelineInv`, `CompletedLostNothing`, `ListedIsDecided`, `PartialIsResumed` |
| `inference` | One inference at a time over all processes? | `SlotsInv`, `OneInference`, `NobodyQueues`, `ReleasesOwnLease` |
| `inference_reanalyse` | Does a forced reanalysis reach the model? No. | `ReanalysisInfers` (violated) |
| `pure_functions` | Do better inputs ever earn a worse decision? Does Discord take every content? Is what is retained of a folder what was shown of it? Does a bad entry cost a good one? | `BetterIsNotWorse`, `ChannelInv`, `ContentFits`, `ContextInv`, `RegistryInv` |
| `attempts` | Do concurrent analyses number and count as they should? | `AttemptsInv`, `LostOnlyToOthers` |
| `worker` | Are cycles spaced, is nothing closed under one, does a shutdown end? | `WorkerInv`, `Spaced`, `StopsForGood`, `ShutdownEnds`, `CyclesGoOn` |
| `admin_ops` | Does a row claim the success of what failed? Does the row of a batch agree with those of its members? Is there one row for everything? | `LogInv`, `OneRowEach` |

An invariant whose name ends in `Inv` joins the type invariant of its module and
the parts that say something of it, each defined and explained at the end of
the module:

| invariant | parts |
| --- | --- |
| `RowsAgree` | types; `SingleFlight`: a run is marked running exactly while the lock names it |
| `RowInv` | types; `StatusCoherent`: the status says what the row holds, until a stale status is written; `RecordsAreReal`: the row never runs ahead of Discord |
| `DuplicatesPerFault` | `OneMainPerFault` when commands follow each other; `OneEnrichmentPerFault`, also when they do not, until a stale status is written |
| `RowsInv` | types; `OwnFeed`: an article comes from the feed of its source; `NothingHidden`: an ETag stands for items that are saved |
| `MatchingInv` | types; `PlacedOnce`; `ProximityNeverDecides`: words in common never attach an article |
| `PipelineInv` | types; `StoredIsDecided` |
| `SlotsInv` | types; `OnePerProcess` |
| `ChannelInv` | types; `PublishedHasChannel`; `FallbackKeepsChannel` |
| `ContextInv` | `FactsWereShown`, `OnlyHeadsRefuse`, `ReductionOrder` |
| `RegistryInv` | `FirstValidWins`, `ModesAgree` |
| `AttemptsInv` | types; `NumbersFollow`; `HoldsBounded`: a content is put off a bounded number of times |
| `WorkerInv` | types; `OpenWhileRunning`: nothing is closed under a cycle |
| `LogInv` | types; `SuccessIsTrue`: what failed, was skipped or rejected has no row that claims success; `BatchIsTrue`: a batch's row covers one operation of each publication listed, and claims what their rows come to |

Some instances hold several worlds in one state space: a variable that never
changes (`set`, `world`, `lockTtl`, `enabled`) says which. So `matching` looks at cycles of
one article over six texts, with every folder a candidate or only the latest, and at
two overlapping cycles over two; `cycle` at
any two faults and at the faults that interrupt nothing, with edited articles;
`inference` at a lease longer and a lease shorter than an inference; `attempts`
at concurrent, serial, critical and repeated analyses; `worker` at both modes;
`publication` at commands that overlap, with one fault, and commands that do not, with three; `collect` at
feeds that change with nothing failing, and at failures and restarts.

Properties that hold only in some of these worlds say so in their premise
(`OneAtATime`, `Uninterrupted`, `Outlasts`, `~faults.slow`, `~world.faults`, `set.exclusive`, `Unharmed`): section 6 says what
happens without it.

## 4. Bounds and fairness

| run | bounds | why they are enough |
| --- | --- | --- |
| `pipeline_lock` | 3 holders (two incarnations of the worker and the bot), 2 runs, 1 fault, TTL 7, interval 2, delay 1 | a worker dies and its successor steals the lock, or the bot does; a holder robs another, and is robbed once the rows allow; the interval is below a third of the TTL, as the configuration demands. Safety for any number of faults and runs is proved |
| `publication` | 2 tasks, 5 messages; side by side with 1 fault, in turn with 3 (`Settings`) | a lease taken over by the other task and the late answer of the first; what one read before the other wrote; in turn, a failure, a failure of its recovery, and one more. Safety for any number of faults and tasks is proved |
| `publication_double` | 2 tasks side by side, no fault | the smallest instance that shows it |
| `collect` | 2 sources with a URL and up to 2 versions of 1 or 2 items each, 1 redirection, a public and a private address; with faults, one of the feeds does not change | one source is collected between two collections of the other; an id in the feeds of both; a row found by id, by link, or not at all |
| `matching` | 3 articles; 6 texts and 1 cycle at a time, with 3 candidates or 1; 2 texts and 2 cycles | three articles are needed for a folder whose merged fingerprint differs from both of two later articles; texts with and without product and version, on both sides of the fourteen days; a folder beyond the candidates, as beyond the 500 of the code |
| `cycle` | 2 sources of 1 article, 2 faults, or 1 fault and 2 versions; backoff of 1 then 2 ticks | one source fails while the other goes on; a fault and a fault in the cycle that repairs it |
| `inference` | 4 calls in 2 processes, inference of 2 ticks, lease of 3 or 1, queue of 1 | two calls of one process wait for one slot while the lease of another expires |
| `pure_functions` | scores 0, 44, 50, 64, 75, 86, 100; lengths 0, 1 and around each limit; folders of 3 articles of up to 4 words, 2 facts and a budget of 9 words; registries of 3 entries | both sides of each threshold once the bonus of the tier is added, and of each limit of Discord; folders that fit, lose one or two bodies, their facts, or are refused; an entry before and after its duplicate |
| `attempts` | 3 tasks, 5 analyses, 2 contents | three conflicts on one number; more holds than the rule admits |
| `worker` | initial delay 4, interval 20 | the interval is longer than the delay, as in the configuration |
| `admin_ops` | 2 slots, 2 folders, 3 operations, 1 batch, 1 fault | a batch of two beside a single command that resumes one of them. Any number of each is proved |

The names of all bounds are in the CONSTANTS of the modules, marked `bound`.

Fairness, where a liveness property needs it:

- `PipelineLock`: time passes, timers fire, the database answers or fails, cycles
  end, and a live worker keeps starting cycles (`Worker`). All network calls of a
  cycle have timeouts, and the scheduler of the worker re-arms after every cycle,
  also one that threw. The bot starts a cycle when somebody asks for one
  (`/radar-admin cycle`), which nothing requires: its `Acquire` is not fair. No
  fairness on crashes and errors; a dead holder stays dead, and what ends the run a
  dead worker left is the worker that was started in its place (`w2`).
- `Publication`: a task that can go on does; leases of tasks that are gone
  expire; a resume that is possible again and again is tried (strongly fair),
  as every cycle ends with one for every partial publication.
- `Collector`: a collection that can go on does: names resolve or do not, requests
  time out (`packages/collector/src/http-client.ts`), redirections are counted.
  Neither collections, nor changes of a feed, nor restarts are required.
- `PipelineCycle`: cycles start and go on; backoff delays run out (strongly fair,
  because a cycle that runs suspends the tick).
- `Worker`: timers fire, cycles end, `$disconnect` answers, time passes.
  Signals and deaths are never required.

## 5. The proofs

| theorem | states |
| --- | --- |
| `PipelineLockProofs!RowsAgreeAlways`, `LostHolds`, `ReleasesOwnRunHolds` | types, and the three safety properties of the lock |
| `PromptCycleHolds` | a cycle on time keeps its lock |
| `PublicationProofs!RowInvHolds`, `MainIsKeptHolds` | the row of a folder never runs ahead of Discord; it agrees with itself and keeps its main message when commands do not overlap, and otherwise until a stale status is written |
| `RecordSpecHolds` | commands that do not overlap implement `PublicationRecord` |
| `OneMainPerFaultHolds`, `DuplicatesPerFaultHolds` | Discord shows a main message again only where a fault explains it, when commands do not overlap; an enrichment, until a stale status is written |
| `OneExecutorHolds` | one task at a time calls Discord for an attempt |
| `CollectorProofs!AddressCheckedHolds` | no request to a refused address |
| `RowsInvHolds`, `OneRowHolds`, `UnchangedFeedIsQuietHolds` | articles belong to their source and have one row each, a 304 hides nothing, a saved feed brings nothing |
| `PipelineCycleProofs!PipelineInvHolds` | types, and no article hidden behind an ETag when nothing interrupts a cycle |
| `CompletedLostNothingHolds` | a completed run lost nothing |
| `AnalysisAttemptsProofs!AttemptsInvHolds` | numbers without a gap, and a bounded number of holds |
| `LostOnlyToOthersHolds` | an analysis gives up its row only to others |
| `InferenceLeaseProofs!SlotsInvHolds` | the slots and the queues of the clients, with or without the lease |
| `OneInferenceHolds`, `NobodyQueuesHolds`, `ReleasesOwnLeaseHolds` | one inference at a time |
| `ReanalysisNeverInfers` | the forced reanalysis never reaches the model |
| `ProcessProofs!WorkerIsScheduled` | the worker implements `CycleScheduler` |
| `SchedulerSpaced`, `SpacedHolds` | spaced cycles, for any caller and for the worker |
| `WorkerInvHolds`, `StopsForGoodHolds` | types, and the shutdown |
| `LogInvHolds`, `OneRowEachHolds` | no row claims the success of what failed, was skipped or rejected, and a batch's row agrees with those of its members; without a fault there is one row for each operation, as its answer has it, and one for each batch |
| `RulesProofs!MainAlwaysFits`, `SummaryAlwaysGivesWay`, `EnrichmentAlwaysFits` | Discord takes every content |
| `ContentAlwaysFits` | the same of the inputs of the run |
| `ChannelInvHolds`, `BetterIsNeverWorse` | channels, and the monotony of the decision, for every score |
| `ContextInvHolds` | what is retained was shown, who is refused, and the order of the reduction, for folders of any size |
| `RegistryInvHolds` | the first valid entry wins, and both modes agree, for registries of any length |
| `PlacedOnceHolds`, `MatchingInvHolds` | an article is in one folder, whatever cycles overlap; the engine goes by events, not by dates |
| `OneEventPerFolderHolds`, `CreatesOnlyWhenNewHolds` | one article at a time: one event per folder, and no folder where one of the latest could do |

**The lock.** `SingleFlight` is not inductive. `LockInv` says that row and run
agree and that no other run is marked running; `CycleInv` gives each active
cycle a run of its own; `HolderInv` says that a holder can hold the lock for
none but the run of its active cycle, which is why comparing holders is enough
in `release`. `LostIsFinal` needs the three. `PromptCycleKeepsLock` needs an
account of time (`Renewed`): the last renewal is at most one delay older than
the last firing of the timer, plus one interval if a heartbeat is on its way and
one if the last one was refused. With `3 * HeartbeatInterval < LockTtl` and
`2 * MaxDelay <= HeartbeatInterval` this never reaches the TTL. The first is
checked by the configuration (`packages/config/src/schema.ts`); the second says what a
prompt call is.

**The publication.** `Inv` relates what a task is about to do to the row and to
what Discord has: a task that is about to record a message holds one that was
sent, a row that names a message or a thread names an existing one, a task that is
going to write a status read a row without a main message (`Reads`), and what
the row says it is (`StatusCoherent`) follows from which of them it has, as long as
no status was written over a main message the row did not have when it was read.
In a world of overlapping commands that is what `RowInv` and `MainIsKept` say, and they
say no more: without the premise (`Unharmed`) both are violated, as section 6 tells. Commands that do not
overlap (`set.exclusive`) have one task at work, and the attempt it holds is the
latest one and still reserved (`SerialInv`), so that the row cannot have moved
under it and nothing stale is ever written: both hold there without a premise, each step
is a step of `PublicationRecord` or a stutter, and a main message beyond the first is
charged to a fault. What the execution lease is worth needs
`LeaseInv`: a task in a call holds the lease of its attempt under its own name. It
holds for tasks in processes of their own (`OwnProcesses`), which is a hypothesis
of `OneExecutorHolds` and `DuplicatesPerFaultHolds` and not of the others: the code gives each
process one holder id, so that two commands of one bot share theirs, and their
lease then keeps neither from the other (section 6). The two tasks of the run are
in processes of their own as well. `EnrichInv` charges each post that was made, and each way to one more, to the
first enrichment or to a fault.

**The collection.** One invariant follows a collection through its places. Up to
the end of the requests, the ETag that was sent is the one that is stored, so
that a 304 is about the version the ETag stands for. Afterwards the feed in the
variable of the adapters is the one that was fetched: nothing but the collection
itself writes it, and a restart, which ends the collection. While a feed is saved, the items that are done have their
rows, and the row found for the next item is the only one of that article
(`StoreInv`): otherwise a later write might take a row from another item.

**The cycle.** `GotInv` accounts for what a cycle got: as long as it is not degraded,
each article it found new or changed is in its hands (eligible, or being
handled) or brought to its end in the database. A fault degrades the cycle or
ends it as failed, and a cycle that completes has nothing in its hands, which
is `CompletedLostNothing`. `HiddenInv` does the same for what is stored: without an
interruption, the items an ETag stands for are saved or in hand, and a saved
row is matched or in hand. It needs that a feed lists an article once, and in
the feed of its source only (`FeedInv`): that is how saving one version cannot undo
what the ETag of another source stands for.

**The attempts.** An analysis never has a number in mind beyond the next free one,
because rows only grow; hence a number that is free is the next one, and one
that is taken shows that others recorded since it was read. For the bound on
holds, rows that put a content off and analyses that may still add one are
counted together: an analysis joins them only when it has read one row at most,
and then the others are at most the tasks at work.

**The inference lease.** A call between the grant of the lease and its release
is the last `owner`, and the lease still has to run for what its inference may
still take (`LeaseInv`). So the lease is not free while such a call exists, no
second one arises, slots are never contended (`QueueInv`), and a forced
reanalysis never gets past the lease it holds itself (`ReanalysisInv`). Two
hypotheses: every call takes the lease (`Hypothesis`: no catch-up script), and the
lease outlasts an inference (`Outlasts`). The code ensures neither; see section 6.
`SlotsInv` needs neither: whoever holds a slot is the one call of its client that is
past the wait, and who gives up waiting leaves the line in the same step.

**The worker.** `TimerInv` says where a timer comes from: what is left of it and
the time since `start()`, or since the end of the last cycle, add up to the
delay. The worker's own invariant (`Quiet`) orders the shutdown: closing implies
shutting down and no active cycle.

**The audit.** Between its operation and its row a command keeps in memory what it will
claim, which is what the answer said or a failure, and a batch what the rows of its
members say (`AllSound`); no two commands are at one operation (`Alone`), and none has a
row before it took place (`RowsKnown`), so that nothing else writes what a batch
remembers. A batch whose row is written consists of operations that are settled, hence
agrees with them for good (`AllWritten`), in every interleaving of commands and faults.
Without a fault (`RowsDue`) no command is at its second try, the row it is to write is
empty, and every batch that nobody works on has its row.

**The matching.** `StageInv` gives the folders their shape: the latest first, each
once, each led by the article it is named after, their members apart, and a
decision on record for each of them. A cycle is known by its types only: what
it loaded may be stale. That suffices, because the transaction that would place
an article again is rolled back by the unique index (`RolledBack`). What a stale
cycle may do to the events of a folder is no invariant; for cycles that bring one
article each and do not overlap (`OneAtATime`) `EventInv` adds that the snapshot of a cycle
with work left is the folders as they are (`Fresh`). An attachment then meets no
conflict with the merged fingerprint, whose product is that of the first member
that names one (`FirstDefinedIs`), hence with no member. `MatchingInvHolds` supposes that
one shared entity is enough (`MinSharedEntities` is 1 in `matching-thresholds.ts`):
with more, words in common would not do what the property says.

**The context.** Induction over data is done on a set of numbers (`UpTo`, from the
well-foundedness of the naturals), since the provers cannot instantiate a
theorem with an operator. So a `FlattenSeq` has the words of its texts and grows with
them (`FlattenText`, `FlattenLength`): the text facts are anchored in is part of the prompt, and
a prompt is never shorter than its heads. `RankFollows` and `EachRank` say that ranks in
a linear order are its places: the enrichments emptied are the oldest, and every fact
has its turn.

**The registry.** `Resilient` says what the resilient reading has seen: the ids and the pages
of the entries it accepted, and no others. An entry is then a duplicate exactly when
an accepted one before it has its id or page. The strict reading is the same
until an entry is rejected, and does not change afterwards (`ModesStep`).

**Contents.** Each part of a main publication is cut to a limit of its own when
it is built, and the limits of all parts but the summary sum up to less than
the total. So cutting the summary is always enough (`SummaryAlwaysGivesWay`) and
the rest of the chain of `EnforceEmbedTotal` is never reached; an enrichment fits
without it.

**The decision.** The composite score is a weighted sum (`WeightedMonotone`) and
each threshold a lower bound, so that an input that is better by one part
passes every test it passed before. What a fallback publishes has scores of its
own, and the thresholds of the channels leave none of them out.

The proofs assume the named ASSUMEs of the modules, and the hypotheses
`Hypothesis`, `OwnProcesses` and `MinSharedEntities = 1` where the theorem states them. TLC checked each
inductive invariant on the instance of its run before it was proved.

Left to TLC:

- Liveness under fairness (`OrphanedRunEnds`, `PartialGetsThread`, `CollectionEnds`,
  `ListedIsDecided`, `PartialIsResumed`, `ShutdownEnds`, `CyclesGoOn`) and ENABLED are out of
  reach of the provers.

Every invariant and every other safety property that a passing run checks is proved.

## 6. Known disagreements and limits

Two runs show that the code does not do what its documents and comments say:

- `publication_double`: "Persist snowflakes after each Discord success; never
  double-publish." (`P/publication-orchestrator.ts:40`). The execution lease is
  released at line 733, before the message is recorded, while the attempt is
  still reserved; a second process claims it and sends the message again.
- `inference_reanalyse`: "reprendre via `/radar-admin reanalyse`"
  (`docs/Setup/INSTALL.md:97`). `P/admin-ops-service.ts:743` takes the lease that the
  analysis it starts then asks for.

The following were met while modelling. The premises of the properties, or the
shape of an instance, set them aside; they are recorded here so that nobody
reads more into a passing run.

- `recordFailure` reads the row of a folder without locking it, then updates it by id
  (`P/publication-repository.ts:826`). It may find the folder pending while another task
  records its main message, and then writes `failed` over `partial`, a transition
  that `P/publication-types.ts:212` does not allow: the folder has a main message that no
  command sees any more, and the next one publishes it again. `reservePublish` may
  write `pending` over it in the same way. `RowInv` and `MainIsKept` hold until one of
  these writes happens (`Unharmed`); without that premise the run `publication` finds both
  violated by two tasks side by side and one error of Discord.
- A resumption whose thread fails again (kind `partial`) is audited as a success
  (`P/admin-ops-service.ts:604`), and the row of its batch counts it as resumed (line 684),
  although `docs/Audits/AUDIT_SOURCES_ET_DIFFUSION.md:151` has "complète message/fil" of a
  resumption and `P/pipeline-orchestrator.ts:1209` counts the same answer as a failure.
  `SuccessIsTrue` sets it apart (`partly`): with `reached` alone it is violated without any
  fault.
- A crash, a lost lock or a database error between the storage of a source's
  ETag and the matching of its articles loses those articles: the next fetch is
  answered 304, and saved articles are not looked at again
  (`docs/Audits/AUDIT_SOURCES_ET_DIFFUSION.md:358`). `StoredIsDecided` and
  `ListedIsDecided` hold for uninterrupted cycles.
- Candidates are loaded once per cycle, so that two articles of one cycle about
  one new event make two folders, and two versions may enter one folder; an
  article edited after it was placed may contradict its folder. Only the 500
  most recently active folders are candidates.
- When Discord is not available the publication is deferred
  (`P/pipeline-orchestrator.ts:1108`) and nothing retries it.
- A thread that was created and whose answer was lost is refused by Discord at
  every resume: the thread exists, the row stays partial.
- Side by side, a folder may end with two main messages and the thread of the
  first: `recordThreadCreated` does not compare the main message it was created
  for with the one of the row (`P/publication-repository.ts:692`). `RecordsAreReal` asks
  for messages that exist, not for a thread of the right one, when commands
  overlap.
- `recordFailure` updates the attempt and then the folder, the other records the folder
  and then the attempt: two of them may wait for each other, until the database
  ends one with an error (`DbError`).
- A cycle that lost its lock and notices it only when it releases is recorded and
  audited as completed (`P/pipeline-orchestrator.ts:1271`).
- Two items of one feed with one identity make its row change at each
  collection, hence two articles to match each time (`UnchangedFeedIsQuiet` leaves
  such feeds out).
- The whole body of an answer is read before its size is compared with the limit
  (`packages/collector/src/http-client.ts:265`).
- Words of fewer than three characters are not looked for when the others of a
  value are: a fact with a wrong short version number is retained when its other
  words were shown (`packages/analysis/src/analysis-fact-validation.ts:23`).
  `FactsWereShown` speaks of the significant words.
- Two comments do not say what the code does: `analysis-context-builder.ts:160`
  keeps 3 000 characters of the primary article where the code empties it;
  `source-registry.ts:137` has ids of 2 to 64 characters where the pattern admits one.
- `resume()` does nothing for a pending publication, although its comment says
  it does (`P/publication-orchestrator.ts:54`).
- Two commands of the bot share one execution holder id, hence one lease.
- `PIPELINE_LOCK_TTL_MS`, which is also the TTL of the inference lease, may be
  configured shorter than an inference with its retries
  (`packages/config/src/schema.ts:250`). Only `OnePerProcess` is left then.
- The catch-up script infers without the lease.
- The record of a technical failure insists on a number and may never be
  written (`packages/analysis/src/analysis-service.ts:727`).
- A forced reanalysis that decides to publish records its decision and publishes
  nothing.
- The audit row follows the effect: a death or a failing write in between leaves
  an operation without a row, or with one that says it failed.
- The other signal during a shutdown exits in the middle of the cycle.

## 7. What is not modelled

- In `Collector`: two collections at once in one process (a robbed cycle and a
  command of the same process; the variable of the adapters would then be
  shared), the ranges of refused addresses, sizes and delays, the grammar of
  RSS, Atom and JSON feeds. `PipelineCycle` takes a collection as one step with
  any of its outcomes.
- The wording of the prompt and the shape of a proposal
  (`validate-analysis-proposal.ts`): `AnalysisAttempts` takes a proposal as accepted
  or refused. Sanitizing of texts and the choice of the sources shown:
  `DiscordContent` starts from their lengths.
- Configuration beyond the relations between delays; logs; the health route of
  the API; the Ollama probe; the read-only commands; allowlist and rate limiter
  (`AdminOps` admits every command at any time, hence every sequence they admit;
  a property of the limiter itself would restate its comparison of two times).
- In `Publication`: a transaction is one read and one write, its queries are not told
  apart further, and two that wait for each other are the database error of one of
  them; one enrichment per folder; the folder stays open (no code closes one); deletions by moderators,
  archived threads and differences between clocks are left out.
- In `Matching`: source tiers, idle and closed folders, the choice among
  candidates of low confidence.
- In `PipelineCycle`: overlap of cycles (`MatchingStage` and `Publication` have
  it), counters, the purge of raw feeds.

## 8. The plan

Built so far, in this order: the lock, the publication with its abstract
specification, the matching, the cycle, the inference lease, the decision, the
attempts, the worker, the audit log; proofs of the lock, the lease and the
worker; then the collector, the contents, the context and the registry; proofs
of the contents and of the decision; then proofs of the publication with its
refinement, of the slots, the collection, the attempts and the cycle; then of the
audit, the matching, the context and the registry. The reads and the writes of the
publication were then told apart, and the log was set against what operations came to.

Next, in order:

1. `OneExecutor` for two commands of one process: which of their steps the shared
   holder id lets through, and what is left of the property.
2. A second enrichment key in `Publication`.
3. A caller that starts the scheduler again after its stop, in a run of its own.
