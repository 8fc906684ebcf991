# linkrus: verification project

TLA+ models of linkrus, a link-sharing search engine written in Go, with TLC
configurations that check them on small instances and TLAPS proofs for every
size. Paths below are relative to `src/internal/` unless they say otherwise.

## 1. The system

| Component | State | Operations | Talks to |
|---|---|---|---|
| BSP graph processor, `bspgraph/graph.go` | `superstep`, `vertices` (each with `active`, two message queues, edges), `pendingInStep`, `activeInStep`, channels `vertexCh`, `errCh`, `stepCompletedCh` | `addVertex`, `AddEdge`, `SendMessage`, `BroadcastToNeighbors`, `step`, `stepWorker` (one goroutine per compute worker), `Reset`, `Close` | compute function (user), message queues, relayer (user) |
| BSP executor, `bspgraph/executor.go` | the graph's `superstep`, `err` of the current run | `NewExecutor`, `RunToCompletion`, three callbacks | graph |
| Message queue, `bspgraph/message` | `msgs`, a stack under a mutex | `Enqueue`, `PendingMessages`, `DiscardMessages`, `Next` | graph, compute function |
| Pipeline, `pipeline/pipe.go`, `stage.go` | channels `stageCh[0..N]`, `errCh`, two contexts | `Process`, source and sink workers, stages `FIFO`, `FixedWorkerPool`, `DyanamicWorkerPool`, `Broadcast` | source, sink, processors (user) |
| Link graph, in memory, `linkgraph/store/memory` | `links`, `edges`, `linkURLIndex`, `linkEdgeMap` under a mutex | `UpsertLink`, `FindLink`, `Links`, `UpsertEdge`, `Edges`, `RemoveStalEdges` | crawler |
| Link graph, database, `linkgraph/store/cdb`, `src/schema.sql` | tables `links`, `edges` | the same interface, one SQL statement each | crawler, CockroachDB |
| Crawler, `crawler/` | a pool of payloads, a counting sink | stages: fetch, extract links, extract text, then update graph and index (a `Broadcast`) | pipeline, link graph, text index |
| Text index, in memory, `textindexer/store/memory` | `docs` under a lock, a bleve index beside it; per search an iterator with its page of hits | `Index`, `FindByID`, `Search`, `UpdateScore`; `Next`, `Close` of the iterator | crawler, searchers, bleve |
| Text index, Elasticsearch, `textindexer/store/es` | none but the refresh option; the documents are the server's | the same interface, one request each | crawler, searchers, Elasticsearch |

How they interact: a crawler is a pipeline whose stages call a link graph and a
text index; several crawlers may share a database. The BSP processor stands by
itself: a caller builds a graph, an executor runs it superstep by superstep,
workers run the caller's compute function, which calls back into the graph.

What is hard here, and where the models go:

- **Interleaving**: compute workers and the executor meet on unbuffered channels
  and one atomic counter; pipeline goroutines meet on unbuffered channels, with
  selects that choose at random; crawlers interleave their store calls.
- **Ordering**: the parity of `superstep` decides which of a vertex's queues is
  read and which is written; closing a channel must come after the last send.
- **Failure**: a compute function, a processor, a sink or a store call fails in
  the middle of a longer operation; a context expires at any point.
- **Stale reads**: iterators page through an index that changes; payload objects
  are used again for other links.
- **Resources**: the token pool of the dynamic stage; the capacity of the two
  `errCh` channels (0 in one package, stages + 2 in the other).

All hazards, with their lines, are in `PROJECT.json` under `hazards`.

What makes each component correct: the executor never overlaps a superstep with
another or with callbacks, messages are read in a later superstep than they were
sent in and are not lost, and "no vertex was active" means the computation is at
rest, but for what callers send, what failed and what a stop delays; a pipeline
neither loses, repeats nor reorders payloads and reports errors; a dynamic pool
bounds its goroutines and outlives them; the link graph's maps agree and times
only go forward; a crawl leaves a page's own edges and no older ones, and never
mixes two pages; a text index keeps text and score of a document apart from each
other's updates, and a search lists each hit once (on Elasticsearch that depends
on how the server reads the request).

## 2. Modules

| Module | Models | Kind |
|---|---|---|
| `MessageQueue` | the queue as operators on a sequence | operators |
| `Superstep` | what the BSP processor promises: an inbox and an outbox per vertex, exchanged between supersteps | abstract specification |
| `BSPGraph` (extends `MessageQueue`) | graph, workers, executor; the refinement mapping to `Superstep` | model |
| `BSPGraphInv` | the inductive invariant `StepInv` | invariant |
| `BSPGraphProofs`, `BSPGraphRefinement` | proofs about `BSPGraph` | proofs |
| `MemoryGraph` | the in-memory link graph | model |
| `MemoryGraphIterator` (extends `MemoryGraph`) | its listings and iterators, beside the writers | model |
| `MemoryGraphProofs` | proofs about both | proofs |
| `CDBGraph` | the SQL statements of the database link graph | model |
| `GraphUpdater` (extends `CDBGraph`) | the crawler's graph updater over the database | composition |
| `GraphUpdaterProofs` | proofs about `GraphUpdater` | proofs |
| `Crawler` | the crawl: source, stages, `Broadcast`, sink, pool of payload objects | model |
| `CrawlerProofs` | proofs about `Crawler` | proofs |
| `Pipeline` | one `Process` call | model |
| `PipelineProofs` | proofs about `Pipeline` | proofs |
| `DynamicWorkerPool` | the dynamic stage, shared by several `Run`s | model |
| `DynamicWorkerPoolProofs` | proofs about `DynamicWorkerPool` | proofs |
| `Indexer` | what `textindexer/index` promises of a text index | abstract specification |
| `SearchIterator` | the paging iterator of both text index stores | model |
| `BleveIndexer` (extends `SearchIterator`) | the in-memory text index; implements `Indexer` | model |
| `TextIndexProofs` | proofs about `BleveIndexer`, `ESIndexer` and `SearchIterator` | proofs |
| `ESIndexer` (extends `SearchIterator`) | the Elasticsearch text index | model |
| `MCBSPGraph`, `MCMemoryGraph`, `MCPipeline` | values and symmetries for TLC | instances |
| `MCCrawler` | `Crawler` or `GraphUpdater`, one at a time | instance |
| `MCTextIndex` | `BleveIndexer` or `ESIndexer`, one at a time, and fairness | instance |

An operator marked `mutant` stands before the operator it is a broken form of.
No specification uses it: it is there to show that the properties notice the
mistake it stands for.

### BSPGraph

`pc` is the caller's goroutine in `run()` and `step()`; `wpc[w]` a worker's in
`stepWorker`. The unbuffered channels are rendezvous: `Dispatch` is a send and a
receive on `vertexCh`, `Signal` on `stepCompletedCh`, `WorkerExit` the receive
that finds `vertexCh` closed. `Inspect` is the loop body up to the call of the
compute function, `NextMessage`, `Freeze`, `StartSending`, `Deliver` what the
function may do, in any order, `ComputeOK` and `ComputeFails` its return, and
`Finish` the atomic decrement. `Inspect`'s two parts touch only the worker's own
vertex and the buffer no sender writes in this superstep, so they are one step.

- A message is the number of the step that sent it (0: sent between steps);
  nothing else about a message matters to the package.
- `errCh` has capacity 0 as in the code: a send with `default` and a receive with
  `default` never meet, so `TryEmitError` drops every error.
- `NewExecutor` sets `superstep` to 0 and `EndRun` leaves it: the model contains
  every sequence of runs, stops and new executors.
- Queues are the in-memory ones, which cannot fail; `DiscardMessages` and `Reset`
  have no error path. `addVertex` and `AddEdge` of known ids, aggregators and
  values change nothing the model has. Callers that misuse the package (two
  `Close`s, a run after `Close`, `NewExecutor` during a run, a negative worker
  count) are left out.

`ImplementsSuperstep` maps `pc` to a phase, `todo` and the workers that have not
inspected their vertex to `waiting`, workers in a compute function to
`computing`, and the two queues, by parity, to `inbox` and `outbox`. Counters,
channels, `superstep`, `held`, `out` have no counterpart. `Superstep` allows a new
executor to exchange the boxes (`Restart`) and a stopped run not to (`Advance`):
that is what the code does. (The comment on `SendMessage`, graph.go:224-225, has
messages delivered "in the next superstep"; after a run that
`PostStepKeepRunning` stopped they wait one superstep longer, since `break` skips
the increment of executor.go:59.) `ReadInNextStep` states the comment for the steps it
is true of, those that are `OnTime` (below).

What a caller may make of a step that reports no active vertex is `HaltIsSafe`. That
nothing is active, the buffer just read is empty and the step sent nothing holds
always; that no queue holds a compute function's message needs two things the
history records when a step is over. `due` is the buffer it wrote to: the next step is
`OnTime` if it reads that one, which it does not after a stop. `kept` are the vertices
whose compute function failed with messages unread. Messages of callbacks and setup
code (`Outside`) go to the buffer that is read later, and are excepted.

### MemoryGraph and MemoryGraphIterator

Each method holds `s.mu`, so it is one action. An object in the Go heap is its
id; its fields are functions of the id (`url[id]`, `src[e]`), so the pointers that
`links` and `linkURLIndex` share are modelled as they are: an update through the
index is seen through `links`. `UpsertLink` updates the old link *and* inserts a
new one, as the code does. A slice of edge ids is a set. `usedEdges` is history
that keeps a removed edge's id from being drawn again, as a UUID would not be.

`Links` and `Edges` collect pointers under the lock; `NextItem` and what `Link` and
`Edge` copy come later, with any writes in between. So `list` and `current` are ids,
and what they lead to is read from the store as it is by then. Ids are random: those
in `[fromID, toID)` are any set of them. One iterator is open at a time, since
iterators share nothing but the store they read.

### CDBGraph and GraphUpdater

One action per SQL statement, from the text of the query: `GREATEST` for
`retrieved_at`, `NOW()` for `updated_at`, `updated_at < $2` for removal, the unique
keys and foreign keys of `schema.sql`. Rows of `links` are unique by url and are
never deleted, so the url stands for the id as well. `GraphUpdater` takes
`Process` call by call; other updaters run between any two calls; `Fail` ends
`Process` at any call. Payloads (`Page`) are taken as the link extractor's types
allow: a page's links and nofollow links are disjoint (it drops what it has
seen), and a page may link to itself. (As the code stands `resolveURL` drops every
link, so the crawler itself produces empty sets; the updater is modelled for the
payloads it is written for. The crawler package also declares its `Graph`
interface with the method names `UpdsertEdge` and `RemoveStaleEdges`, which the
updater does not call and the stores do not have; the model follows the calls.)
One clock serves the database and the crawlers (see section 6).

### Pipeline

The source, the stages' workers and the sink are goroutines of groups 0, 1..N and
N + 1; group i sends on `stageCh[i]`. `Pass` is a rendezvous on that channel, open
or not; `Quit` is the `Done` case of a select, which may be chosen whenever the
context is done (stages see `ctx`, source and sink `pCtx`); `CloseOutput` is what
each goroutine of `Process` does after its worker returned. The sink's closes
`stageCh[0]`, as in the code: a second close, or a send on a closed channel, sets
`panicked` and ends the program. Every call ends that way, so the other
properties speak about everything up to the panic. Processors, source and sink
may forward, drop or fail at any payload.

### Crawler

The stages of `assembleCrawlerPipeline` with the data that goes through them;
`at[r]` is what a goroutine does, `held[r]` its payload object, `payload[o]` the
fields of an object. Channels are rendezvous (`HandOver`) and goroutines return
(`Return`) as in `Pipeline`; what is taken over from there in less detail is
reporting: an error cancels source and sink at once (`failed`), not when the
caller gets to it, which only adds behaviours.

- A page is named by its url; `RawContent` and `TextContext` are *sets* of pages,
  so that content of two pages in one buffer would show. Whether a page exists, is
  skipped, is private, is html, or breaks the link extractor is left open.
- `payloadPool` holds the objects `Get` may return: those put back and those it
  would make. `Get` never blocks; there are more objects than a crawl can take.
- `Reset` is `MarkAsProcessed`, which leaves `LinkID`; `Clone` moves the rest of
  `RawContent` to the copy, behind what the copy's buffer has; `ExtractText`
  empties it and sets `Title` only for a page that has one.
- `ExtractLinks` changes nothing: `resolveURL` (link_extractor.go:113) returns nil
  for every target that parses, and panics on one that does not, as
  `ensureHasTrailingSlash` does on `<base href="">`. So `Links` stays empty.
- `broadcast` starts with the last FIFO, the indexer's, and counts *up*
  (stage.go:204): after the first clone it panics (`BroadcastPastEnd`). Until the
  panic the clone may go on to the index, the sink and the pool, and be used for
  the next link. The graph updater never gets a payload.
- Every crawl ends in a panic, this one or the second close of the source's
  channel: the run checks for deadlocks and finds no other end.
- `RowsEnd` is `linkIterator.Next` of the database store: rows that fail to come
  end the source like the last row, since `rows.Err()` is never read.

### Indexer, SearchIterator, BleveIndexer, ESIndexer

A document is its text (title and content together, abstracted to whether the
query matches it) and its score. In `BleveIndexer`, `mu` says which call holds the
lock and how far it is: `Index` writes bleve (`IndexBleve`) before the documents
(`IndexStore`), `UpdateScore` the documents before bleve (`ScoreBleve`). `Search`
and the iterator read bleve in between; `MemLoad` is `findByID`, which waits for
the lock. A write to bleve may fail: `Index` then returns without unlocking
(`"leaked"`, memory.go:61-63), `UpdateScore` unlocks but leaves the index behind
(`lagging`). Documents are passed to `Index` with PageRank zero, as the crawler
does.

In `ESIndexer` an update merges fields into the stored document; searches see the
documents of the last refresh, which an update asks for if `syncUpdates` was set,
or the server does by itself. A request that was lost changes nothing, one whose
answer was lost is an update like another: the caller's error has no counterpart.
`FindByID` is a search for one document and changes nothing. The field names
(`title` in a stored document, `Title` in a query) are taken as the code uses them.

What the server makes of a search is not the code's to say, so `server` leaves it
open. The request has `from`, which `Next` advances, and `to`, which nothing does
(es.go:214-215, es/iterator.go:34); the number of hits is decoded from
`hits.total.count` (es.go:69). A server may refuse the query or answer with a total
that is no object (`"refuses"`: `Search` returns an error); give a total without
`count`, which decodes as zero (`"uncounted"`: `Next` is false at once); take `to` for
the end of the hits (`"range"`: the second page is empty and `Next` panics); or pass
over it and send pages of its default size (`"page"`, the only one on which the
iterator works: that default is ten hits, as is `batchSize`). `ListingAsAnswered` says
what is listed on each; on the last that is `ListingIsExact`, which holds of the
in-memory store too.

`SearchIterator` has the iterator both share: `itpc` is where `Next` is, `rs` the page,
`from`, `rsIdx` and `cumIdx` the code's three counts. `"panicked"` is a hit taken
from beyond its page, `"nilresult"` the Elasticsearch iterator's `Close` after a
page that failed. `seen`, `listing` and `moved` are history. One iterator is open
at a time; it only reads, so iterators do not affect each other.

### DynamicWorkerPool

`tokens` is the number of tokens in the channel. `Spawn` takes one or, if the
context is done, goes on without; `PutToken` is the deferred send and blocks while
the channel is full; `Drain` is one iteration of the last loop. Sending after
`Run` has returned is a panic, since `Process` closes the output channel then, unless
the select takes the context, which is done by then.
`CHECK_DEADLOCK FALSE`: Runs end, or wait forever for tokens.

## 3. Runs

| Run | Instance | Shows |
|---|---|---|
| `bsp_safety` | 2 vertices, 2 workers, 2 steps, relayer, 1 edge per vertex, 1 sending call per compute, 1 message at a time from outside | barrier, isolation of supersteps, draining, halting count, mail read in the next step, one worker per vertex, no message lost |
| `bsp_progress` | 2 vertices, 2 workers, 3 steps, fairness | `StepInv`, the refinement, and that a step that begins and `Close` return |
| `bsp_error_ends_run` | as `bsp_progress` with fewer steps, violation | a compute function's error is lost |
| `memory_graph` | 2 urls, 3 links, 2 edges, an iterator | the four maps agree, times go forward, removal takes the oldest, iterators lead to links |
| `memory_graph_duplicate` | violation | two links for one url |
| `crawler` | 2 links, one with a title, 2 fetchers, 3 payload objects; or 2 updaters, 2 urls, 3 pages, 2 times | payload objects have one holder and pages do not mix; a page's edges after concurrent and failed crawls |
| `pipeline` | a pool of 2, a FIFO, 3 payloads | no loss, repetition, reordering, use after marking; first error kept |
| `pipeline_returns` | one FIFO, 1 payload, violation | `Process` panics instead of returning |
| `dynamic_pool` | 2 Runs, 2 tokens, 2 payloads each | bound, waiting for goroutines, a Run alone returns |
| `dynamic_pool_shared` | 2 Runs, violation | Runs that share the pool wait forever |
| `text_index` | either store: 2 documents, 2 texts, 2 scores, pages of one hit, four kinds of server, fairness | documents and index agree, hits are found, `Indexer` is implemented (memory); what a search lists, on each server (es) and exactly (memory); scores keep texts (es); searches end |
| `text_index_score` | the Elasticsearch store, violation | `Index` takes the score away |

Two runs have two parts and pick one at the start. `text_index` is run for either
store, as `indextest.SuiteBase` is; the in-memory store's part has the server that
passes over `to`, so `ListingAsAnswered` is `ListingIsExact` there. The parts of
`crawler` are one package, in which the code never gets from the stages to the graph
updater.

**Bounds and why they are enough.** Every bound is a constant. Two workers and two
vertices let one worker finish, compute, or take a second vertex while the other
is anywhere in its step, and let the last decrement come from either. Two steps
let a message be sent, read and overtaken by a change of parity; three in
`bsp_progress` let a failed vertex read old and new messages. `MaxQueue` only
bounds what is sent from outside a step. `MaxTime` 2 gives an older and a newer
reading and equal ones. Three links let a url have an old and a new link while
another has one, two edges let one be removed while the other is listed. Three
payloads in a pool of two and a FIFO fill the pipeline and let one payload
overtake. Two Runs with two tokens are the smallest that can starve each other.
Two links are what it takes to use an object again while the panic of `broadcast`
is still to come, and three objects what they and one clone take. Two documents on
pages of one hit make an iterator turn the page, come back short, or find the
index grown; offsets are 0 and 1.

**Symmetry** is used for vertices, workers, ids, updaters, fetchers and payload
objects, in runs of safety properties only.

**Fairness.** `bsp_progress`: weak fairness of each hand-over on a channel that
both sides are ready for and of each worker's own steps: the Go scheduler runs
every goroutine that can run. It includes that the compute function returns, which
the user owes. Nothing makes a caller start, continue or end a run. `Pipeline` and
`DynamicWorkerPool`: weak fairness of what can run; sources end, processors
return. Contexts need not expire. `text_index`: bleve returns to the call at the lock
(weak), and whoever searches calls `Next` until it is false; strong fairness there
because the lock is taken again and again, and Go's `RWMutex` lets waiting readers
in whenever a writer unlocks. `SearchEnds` excepts an `Index` that kept the lock.

**Mutants.** Every property of a passing run has a mutant in `PROJECT.json`: one
operator of the model with the kind of mistake its name says, which the property
must notice.

## 4. Proofs

TLAPS proves, with no bound on vertices, workers, steps, messages, urls, ids,
times, stages, payloads, tokens, documents, scores or sizes of pages:

- `BSPGraphProofs`: `StepInvariant` (`Spec => []StepInv`) and from it
  `TypeCorrect`, `BarrierCorrect`, `Isolation`, `Drain`, `SafeHalt`,
  `MailIsOnTime`, `OneWorkerPerVertex`, `MessagesAreKept`; and `ErrorsAreLost`,
  the finding about `errCh` for every graph.
- `BSPGraphRefinement`: `Refinement` (`Spec => ImplementsSuperstep`).
- `MemoryGraphProofs`: `StoreInvariant`, `StoreTypeCorrect`, `MapsAgree`,
  `EdgesAreWellFormed`, `IndexIsExact`, `LinksOnlyMoveForward`,
  `OldestEdgesGoFirst`; with an iterator `ReadInvariant`, `IteratorsLeadToLinks`,
  `EdgesAreLikeTable`.
- `GraphUpdaterProofs`: `UpdaterInvariant` (`Spec => []UpdaterInv`) and from it
  `UpdaterTypeCorrect`, `VisitedEdgesStand`, `StaleEdgesGone`,
  `CrawlsAreRecorded`, `EndsAreKnown`, `RemovedAreStale`.
- `TextIndexProofs`: `StoreInvariant` (`BleveSpec => []StoreInv`) and from it
  `StoresStayTogether` and `Implementation` (`BleveSpec =>
  BleveImplementsIndexer`); with the iterator `BleveInvariant` (`BleveSpec =>
  []BleveInv`), `BleveTypeCorrect`, `HitsHaveDocuments`, `MemoryListingsAreExact`,
  `HitsComeBestFirst`; of the Elasticsearch store `ESInvariant` (`ESSpec =>
  []ESInv`), `ESListings`, `ScoresKeepTexts`.
- `CrawlerProofs`: `CrawlInvariant` (`CrawlSpec => []CrawlInv`) and from it
  `CrawlTypeCorrect`, `PayloadsHaveOneHolder`, `PagesAreKeptApart`.
- `PipelineProofs`: `PipelineInvariant` (`Spec => []PipelineInv`) and from it
  `PipelineTypeCorrect`, `MarkedPayloadsAreGone`, `FirstErrorIsKept`,
  `NoPayloadIsLost`; about the order of payloads `OrderInvariant` (`Spec =>
  []OrderInv`), `StagesAreFIFO` and, for a row of FIFO stages,
  `FIFOsKeepSourceOrder`; and `NoCallReturns`, the finding about `Process` for
  every pipeline.
- `DynamicWorkerPoolProofs`: `PoolInvariant` (`Spec => []PoolInv`) and from it
  `PoolTypeCorrect`, `WorkersAreBounded`, `RunsWaitForWorkers`; and
  `OneRunReturns`, the safety side of the finding about shared pools.

Assumptions: `BSPAssumption` (finitely many vertex ids, at least one worker,
bounds are naturals), `StoreAssumption` (`Nil` is no id or url),
`ClockAssumption` (the clock has a reading after 0), `PageAssumption` (pages
hold urls, a link is either followed or not, `Null` is neither page nor url),
`IndexAssumption` (finitely many documents, queries match texts, a score is a
natural, `NoText`, `NoDoc` and `Nil` are no text, entry and result page, a page has
room for a hit),
`IteratorAssumption` (`Nil` is no edge id), `PipelineAssumption` (pools are not
empty), `PoolAssumption` (finitely many Runs, at least one
token), `CrawlAssumption` (routines, objects and links have names of their own;
finitely many links, and more objects than links).

**Why `StepInv`.** `BarrierHolds` does not follow from the barrier's own state: one
needs to know that `pendingInStep` is the number of vertices whose decrement is
still to come (`Count`), which needs every vertex to be on the channel or with
exactly one worker (`Ownership`), and workers to be away from the channels only
while `step` runs (`Control`). So the decrement that reaches zero is the last act
of the step, and at most one worker signals. `SuperstepIsolation` needs the stamps
of the messages in *both* buffers (`Stamps`), since the one that is written in this
step is read in the next or, after a stop or a new executor, later. `HaltIsSafe`
needs that a vertex that was skipped is inactive, has no mail (`Progress`,
`Drained`), that nothing was sent if nothing was computed (`ActiveCount`), and that
the buffer the step before this one read was left empty where nothing failed and has
since only been filled from outside, or by this step (`Exchanged`): if the step is on
time, that is the buffer it does not read. `ReadInNextStep` is the same for vertices
that computed.

**Argument of the refinement.** Each action maps to one abstract action or a
stutter; the exchange of inbox and outbox is the change of parity in
`NextSuperstep` and `NewExecutor`. `StepInv` supplies that a worker's vertex is a
member, that vertices waiting and computing are disjoint, and that a step ends
with none left.

**The store.** The four invariants are inductive together: `InsertEdge` keeps edges
unique because the edges listed under a link are all that leave it. Iterators add
that what is still to be listed was once a link, and links are never removed, or
once an edge, whose id is never used for another.

**The graph updater.** `UpdaterInv` adds to the properties of the run what an
updater's locals hold (`AtWork`) and that nothing remembered is later than the
clock (`Past`). An upserted edge gets the present time, which no cutoff read
before it exceeds, so a removal by another updater can take it only with a later
cutoff, and `swept` records that: this is `PageEdgesStand`. `OnlyStaleRemoved`
follows from it when no later cutoff has been removed from the page, and from
`NoStaleEdges` otherwise: then the edges older than this cutoff have gone already.

**The in-memory text index.** `StoreInv` says what the call at the lock has written so
far: between the two writes of `Index` bleve has the entry that the document will
be (`InIndex`), between those of `UpdateScore` the document has the entry's text
(`InScore`), and every other document agrees with its entry. `Index` takes effect
for the `Indexer` in `IndexStore`; what it stores then was built from the stored
score when the lock was taken, and `InIndex` carries that over.

**The iterator.** Both stores' searches are proved with one set of lemmas about
`SearchIterator`, over any order of the hits. Without a change of the index the
iterator is in step with the order (`InStep`): its page is what the order has from
`from` on, and `cumIdx`, `from + rsIdx` and the number of documents loaded stay the
same distance apart. The new page begins where the old one ended, and is asked for
only if a hit is left, so it is not empty (`PagingKeeps`), unless the server takes
`to` for an end. Whether or not the index
changes, `Next` stays on the page it has (`OnPage`). That there is an order by
PageRank at all, for any finite set of matches, is `RanksCanBeSorted`: an element's
place is the number of those that come before it. `HitsAreFound` needs that bleve
forgets no document (`HitsKnown`), and that a reader gets the lock only when `Index`
is not between its two writes (`StoreInv`).

**The Elasticsearch store.** Every stored document has a text and a score, as an
update merges fields into what is there (`MergedFields`), and what searches see is
what was stored at the last refresh; `InStep` is then about that. Its lemmas take the
way the server reads a search as a parameter: where pages end early, or the total is
zero, what was seen is still the beginning of the order (`SeenIsPrefix`), and the
invariant says at which count the listing stops or panics.

**The pipeline.** `NoPayloadIsLost` needs an order of exits: as long as no error was
emitted and the context has not expired, a goroutine returns only when its input is
closed, a channel is closed only when all that send on it have returned, so nobody
returns before anyone of an earlier group (`ExitInOrder`). The one way around it is
the cancelled context of source and sink, and it is cancelled before all groups have
exited only if an error was emitted (`CancelledLate`). Every payload taken is then
marked, at the sink, or with a goroutine before the sink (`AllKept`).

`StagesKeepOrder` says of every two payloads that were sent that they came in the
same order; as no payload comes twice, that is the same as what was sent being what
was received without some of it. It is inductive with
where each payload has been: through every channel up to its holder, once
(`PassedOnce`, `PassedDown`, `HeldBetween`), and behind everything the holder's stage
sent, if the stage has one worker (`OneAtATime`). Along FIFOs only, whoever is
further down holds an older payload, and every channel has passed older ones than
those held before it (`SourceOrderInv`). `NoCallReturns` is by the order of two
closes: the caller waits for the sink to exit and the source too, and each closes
`stageCh[0]`; after the second the program has panicked.

**The dynamic pool.** Until a context expires, the tokens in the channel, the
goroutines that have one to put back and those the ending Runs have drained are
`MaxWorkers` together (`TokensKept`). So goroutines are bounded, and a Run that has
drained `MaxWorkers` leaves none for any goroutine, its own included, and none for
another Run: of the Runs that share a stage at most one returns.

**The crawl.** `CrawlInv` says what a payload is by where it is: a link before the
fetch, a page until the text is extracted, then title and text of the same link;
and that an object in the pool is empty but for `LinkID`, which the source sets.
The clone of `Broadcast` is one of the last kind until it is handed over.

**Only model-checked**: liveness (`StepReturns`, `CloseReturns`, `AloneReturns`,
`SearchEnds`), since fairness and `ENABLED` are outside the prover's reach. Every
safety and action property of a passing run is stated by a theorem.
`EdgesAreLikeTable` is a consequence of `MapsAgree` and `EdgesAreWellFormed` with
no run of its own. Of the violated properties, `NoCallReturns`, `ErrorsAreLost`
and `OneRunReturns` prove the reason for every size; the other two
(`OneLinkPerURL`, `ESImplementsIndexer`) are traces of the model checker. One
thing inside a proof is counted on sets instead of computed by recursion, the
order of hits, because induction over data is outside the prover's reach too.

## 5. Findings

| Where | What |
|---|---|
| `bspgraph/graph.go:281` | `errCh` is unbuffered: errors of compute functions never end a run |
| `linkgraph/store/memory/memory.go:45` | the update branch of `UpsertLink` does not return: a url gets a second link and a new id |
| `pipeline/pipe.go:100` | the sink's goroutine closes the source's channel: `Process` always ends in a panic |
| `textindexer/store/es/es.go:292` | `Index` sends a PageRank of zero: indexing a document again takes its score away |
| `pipeline/stage.go:150` | a dynamic pool's tokens are never put back: Runs that share the stage hang |

The models have more of what contradicts a comment or cannot be meant. The properties
above are stated around it, and no run is spent on a trace of it:

| Where | What | Stated around it by |
|---|---|---|
| `bspgraph/executor.go:59` | a stopped run does not advance `superstep`: after a resume messages come a superstep late, against graph.go:224-225, and a step with no active vertex may leave them queued | `OnTime` in `HaltIsSafe`, `ReadInNextStep` |
| `pipeline/stage.go:129` | a goroutine started without a token, once the context is done, puts one back: `Run` may return before its goroutines, against stage.go:115 | `expired` in `WorkersExitFirst`, `AtMostMaxWorkers` |
| `pipeline/stage.go:204` | Broadcast counts its index up and panics after its first processor | every crawl ends in a panic |
| `textindexer/store/memory/memory.go:61` | an `Index` that bleve fails keeps the lock: every later call and iterator waits | `"leaked"` in `SearchEnds` |
| `textindexer/store/memory/iterator.go:47` | `Next` takes the first hit of a page that may have none, if the index shrank | `moved` in `ListingIsExact` |
| `textindexer/store/es/es.go:69`, `:215` | the total is read under `count` and `to` is never advanced: a search fails, lists nothing, or panics on its second page, unless the server passes over both | `server` in `ListingAsAnswered` |
| `textindexer/store/es/iterator.go:22` | `Close` reads a result that is nil after a page that failed | `"nilresult"` ends the run |
| `linkgraph/store/cdb/iterator.go:18` | `rows.Err()` is never read: rows that fail to come end a crawl like the last | `RowsEnd` |
| `pipeline/pipe.go:77` | stages run with `ctx` instead of `pCtx`, so an error does not cancel them | every call ends in a panic first |
| `crawler/link_extractor.go:113` | `resolveURL`'s inverted test drops every link | `Links` is empty |

## 6. Not modelled

- Which urls, pages and links match: regular expressions, HTML sanitizing, url
  resolution. They decide between outcomes the model leaves open.
- Clock skew: `GraphUpdater` has one clock for database and crawler. With two,
  `PageEdgesStand` cannot hold (its mutant `ClockAhead` is that case).
- Queries of the database store that only read, and retries and pooling in
  `database/sql`.
- Creating the Elasticsearch index, the encoding of requests and responses beyond
  what a server makes of a search, aggregators (user code behind an interface),
  the wording of errors.
- `countingSink.getCount`: a crawl never returns, so nobody reads it.
