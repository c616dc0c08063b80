# A verification development for TerseContext

TLA+ modules, TLC runs and TLAPS proofs about the TerseContext services
(`services/` of this repository). The first part is the inventory of the system,
the second the plan, and the rest documents what is on disk: what each module
models, what each run checks, what is proved and what is left out.

## 1. Inventory

The system indexes repositories into Neo4j (graph) and Qdrant (vectors), traces
their tests, and answers questions over both. Services talk through Redis streams
read by consumer groups, Redis lists and keys, the two databases, and gRPC/HTTP.

| Part | State | Operations | What is hard |
|---|---|---|---|
| consumer loop (`shared/consumer.py` and its copies) | stream, group position, PEL, batch in memory | read `>`, handle, XACK, dead-letter, `post_batch` | crash between any two awaits, lost replies, an exception inside an `except` |
| repo-watcher | `last_indexed_sha` in Redis, git history | `/hook`, `/index`, poll loop, diff | no lock around read–emit–write, a run failing half way, rescans |
| parser | none | parse, diff filter | reads the checkout, not the commit |
| embedder | none (reads Neo4j) | hash lookup, embed, emit | stale hashes, tombstones that look known |
| graph-writer | `_parsed_file_cache`, Neo4j | edge consumer, node consumer | join of two streams through memory |
| vector-writer | Qdrant | upserts, deletes | two streams race over one point |
| symbol-resolver | `pending_refs:<repo>` list | imports, retry | replicas sharing the list, failures half way |
| graph-enricher | batch in memory, Neo4j edges | `handle`, `post_batch` | acknowledges before it writes; edge provenance |
| entrypoint-discoverer, trace-runner | job list, 24 h cache | push, BLPOP, run, emit, mark | at-most-once jobs, emit-then-mark |
| instrumenter | up to 100 sessions, trace hooks | instrument, run, evict | check-then-add, eviction while running |
| trace-normalizer | Redis aggregates | build call tree, aggregate | unbalanced events, read-modify-write of counts |
| go-instrumenter, go-trace-runner, `tracert` | sessions, run status, ring buffer | rewrite, run, record, drain | goroutines, bounded buffer, accept deadline |
| spec-generator | Postgres versions, Qdrant | render, upsert | two stores, older commit after newer |
| api-gateway | token buckets, HTTP fan-out | rate limit, `/query`, `/index` | clock read outside the lock, partial answers |
| query-understander, dual-retriever, subgraph-expander, serializer | LLM cache; none; none; none | classify, retrieve twice and fuse, expand, prune | timer against two goroutines, token budget |
| perf-tracker | Postgres | collect, report | measurement only |

What makes each part correct, in one line each:

* a handler runs at most once on an entry, and an acknowledged entry was written,
  dead-lettered or refused;
* the stream of FileChanged events replays to the tree of the recorded commit;
* when the queues are empty both stores show the same, and HEAD but for what was lost on the way;
* no unresolved import is duplicated, lost or dropped before its time;
* a trace tells of its own run, and a job passes for done only when it was traced;
* a Go run that passes for completed was not cut short and has the newest of its trace, all
  its ring had room for, and neither runs nor session directories stay behind;
* no more requests are admitted than the rate allows; a query returns what its searches
  delivered, and ends whatever they do, as long as Redis answers;
* a node of an answer is scored by its best path, and the budget goes to the best scores;
* a call that traces confirmed is not reported as one they never observed.

The hazards behind these properties are listed with their lines in `PROJECT.json`.

## 2. Plan

Order, most important first. All but the last are done.

1. `ConsumerGroup` and its abstract specification `Delivery`: every other service runs it.
2. `RepoWatcher`: what enters the indexing pipeline.
3. `IndexPipeline` (extends `RepoWatcher`): parser, embedder, graph-writer and
   vector-writer composed over three streams, up to the two stores.
4. `PendingRefs`: the retry list of the symbol-resolver.
5. `TraceJobs`: entrypoint-discoverer, trace-runner and instrumenter, with the
   sessions and asynchronous hooks that runs share.
6. `TraceRing` (the ring buffer of `tracert`), and `GoTraces`, which extends it: a Go job
   from the client in the trace-runner over both Go services and the binary to the trace.
7. `RateLimiter` (the gateway's token bucket), and `QueryPath`, which extends it: the
   gateway's four calls, the understander with its cache, the retriever with its timer.
8. `CallGraph` (the relations in Neo4j, with the three services that write them), and
   `SubgraphExpansion`, which extends it: the expander over a graph that changes.
9. Not begun: the aggregates of the trace-normalizer, the two stores of the
   spec-generator, rank fusion.

Of the theorems this plan began with, every safety invariant, action property and
refinement the runs check is proved (section 6); left to TLC is liveness.

## 3. What is modelled

### `ConsumerGroup`, `Delivery`, `ConsumerGroup_proofs`

An entry is its position in the stream. `last` and `pel` are the group's state in
Redis; `pc`, `pos`, `end`, `buffer` are the process of one replica. Each await of the
loop is a step: `Read` (XREADGROUP), `HandleOk`/`HandleBad`/`HandleError` (one per
way the handler ends), `DlqAdd`, `Ack`, `PostBatch`. Each Redis call has a failing
twin, in which the effect may or may not have happened (`ReadReplyLost`,
`DlqAddFails`, `AckFails`, `ExceptAckFails`); a failing call inside the `try` is one
more exception of the entry, one inside an `except` leaves the `for` loop and skips
`post_batch` (`Abort`). `Crash` and `Restart` keep what is in Redis.

The loops were copied and then changed: what follows an exception and where the write
happens differ. The constant `Policies` is the set of policies considered, and the
variable `policy` one of them, chosen at the start and kept; `consumer_loop` considers
all of them:

| Service | `bad` | `error` | `deferred` |
|---|---|---|---|
| base class (spec-generator, trace-normalizer) | dlq | keep | no |
| graph-enricher | dlq | keep | yes |
| embedder, graph-writer, vector-writer | ack | keep | no |
| parser | keep | keep | no |
| symbol-resolver | ack | ack | no |

`Delivery` is what they all really promise: an entry is absent, queued, taken, and
then done, rejected or lost, and a final status never changes. That a lost entry is
never taken again is the point: see the findings. "Applied" means that the handler came
to its end: a node consumer that misses the cache warns, writes nothing and acknowledges, and
it is `IndexPipeline` that follows what this leaves in the graph.

### `RepoWatcher`, `RepoWatcher_proofs`

A commit is its position in `commits`, a tree maps each node to its hash or `Absent`.
A request is three steps, because the code reads, emits and writes without a lock:
`Begins` (the first reads: `Hook`, `Poll`, `Index`, `Rescan` differ in what they read
first), `ListFiles` and one `Emit` per file, then `Save`; HEAD may move between the reading
of HEAD and the listing of files (`ReadAsHead`); `Abandon` is an exception or a
crash at any of them. `EventFor` is the body of the loop of `process_commit`, with the
name-status letters of git, renames included (`DiffType`, `ChangedFiles`).

`torn` and `ghost` are history variables. `torn`: the nodes whose events a failed run
emitted without recording the commit, or whose file a full rescan did not list. `ghost`:
the nodes that vanished without being reported deleted, because a full rescan reports no
deletion and a rename only its new path. The replay property leaves the first out and
lets the second outlive their file. So it does not say that this damage never happens (it
does, see section 4), but that no other node is wrong, and that it heals when a later event
names the node.

### `IndexPipeline`, `IndexPipeline_proofs`

Composes the watcher with the four services behind it. A consumer group is a read
position (the loop itself is `ConsumerGroup`), a handler is one step per await:
the embedder reads hashes and then emits; the edge consumer caches, writes edges, and
tombstones; the node consumer looks the cache up and then writes. `Lose` and
`GraphWriterRestart` are a handler that raises, or a process that dies with a batch.
`Detached` follows the Cypher of `TOMBSTONE_QUERY` literally, row elimination included.
`graphStale` and `vecStale` are history variables: the nodes one of whose events was
lost, missed the cache, or was skipped because the graph seemed to know it. The store
properties leave the marked nodes out: they bound the damage and do not deny it. A mark goes
when a later event writes the node.

### `PendingRefs`, `PendingRefs_proofs`

A reference is one occurrence of an import: a file parsed again sends its imports again, and
an import that is in the list twice is two references. Each is in one of seven places: `unseen`, the `todo` of a worker, `queue`, the
`batch` of a worker, `written`, `dropped`, `lost`, the last for what an exception or a crash
took. `FetchAll` is LRANGE and DEL in one
MULTI; the retry loop is one step per entry with its four endings; `Requeue` is one
RPUSH of the error path, so another replica can take the list in between. Time is one
bit per entry: more than 24 hours old or not. Malformed entries of the list cannot occur
(only this service writes it) and are left out.

### `TraceJobs`, `TraceJobs_proofs`

An attempt is one job taken by the trace-runner (`PopJob`) and names its session too.
`worker` is what the single worker awaits; `call[k]` is where the instrumenter is with
attempt `k`, whose two requests are handled by a thread each (`check`, `register`, `stamp`
for `/instrument`; `lookup`, `install`, `run`, `restore` for `/run`). The two are coupled
only through answers: `TimesOut` returns the worker to the queue and leaves the handlers
going, which is how runs overlap. A timed-out step of Redis may have taken effect, a
cancelled request may never have arrived (`Cancelled`).

`createTask` is what `asyncio.create_task` is bound to, the original or the patch of a
session, and `saved` the global that `install_async_hooks` fills and a patch calls;
installing and uninstalling are one step each, coarser than what threads can do.
`asyncio.gather` is treated by the same lines and stands behind the same variable.
`EvictScan` and `EvictSessions` are the two halves of the eviction task, which scans every 30
seconds whether or not a session is old; a handler that changes the dictionary in between may
end it (`Disturbs`). `mixed` and `spawned` are
history variables: the attempts that did not run alone, and those that created a task.

### `TraceRing`, `GoTraces`, `GoTraces_proofs`

`buf`, `head` and `count` are the fields of `ringBuffer`; a history, `log`, is what was
written since the last drain. `GoTraces` follows one job: session directory, socket and
status are named by fresh UUIDs, so jobs meet nowhere. `client` is `process_job` of the
trace-runner's Go client; `builder` the handler of `/instrument`, whose outcomes are the
kinds of `binary` a build can leave; `lock`, `aged` and `janitor` the cleanup of session
directories, which looks and then removes. `run` is the goroutine behind `/run`, step by
step, `collector` the one behind the socket, and both race the binary: its `process`, the
connection `conn`, the ring, and two goroutines with a `stack` of open calls each, which
call, return, panic, recover and are cut off at any point by `Kill`.

`holder` is a process started by the test that keeps its output open: the runner waits
for it although the binary is gone. The runner's status is read without synchronisation;
a torn read is not a final status, so it is one more poll. The memory of a process is
reset when it ends. Span numbers go on through `Init`, where the real counter starts over;
nothing before `Init` is kept anyway. The collector answers with all it was sent, or with
nothing (`ReadAll`): a line over 1 MiB ends its scanner with an error, for which the runner
puts no events at all, those read included. Only a panic's line can be that long, for it has
the printed panic value in it (`Overlong`). `recorded` and `opened` are histories: what the
ring was given until it was drained, and the calls of the test's own goroutine. `NilBuffer` is
the race of `tracert.go:37`: the flag
is up before the buffer is there.

`Replay` is one turn of the loop in which the trace-normalizer rebuilds calls from the
events, `Reconstructed` what the loop leaves.

### `RateLimiter`, `QueryPath`, `QueryPath_proofs`

`RateLimiter` is one bucket. `ReadClock`, `Store` and `Allow` are what the code does before,
at and under the mutex, so clock reads are used in any order. Tokens are counted in the
time they take to refill, which keeps fractions exact. `from` and `spent` are histories: a
window of time and what it admitted; `StartWindow` moves it, and changes nothing else.

`QueryPath` adds what follows for the queries in `Followed`; others only use up the bucket
and change the cache. Processes are separate: `gate` is the gateway's handler, `task` the
understander's, `search` and `wait` the retriever's goroutines and its select loop, and
each goes on when the one before has given up. A `search` is one step from start to its
channel, embedding included. The answers of the model, the stores and Redis are choices;
`arrived` is a history. `GiveUp` is the end of the gateway's call to the understander, by its
deadline or because the connection is refused. Redis may also stay silent: the understander's
client sets no timeout (`query-understander/app/main.py:39`), and `AwaitsRedis` is a handler
that waits for it. A client that disconnects is left out: it cancels like `GiveUp`.

### `CallGraph`, `SubgraphExpansion`, `SubgraphExpansion_proofs`

The state of `CallGraph` is what the queries of the three writers read and set: `active`,
`last_traced_at` (`traced`), and of each relation `source` and `confirmed_at`, of which
only matters how it compares to the `updated_at` of the caller. A session of Neo4j is a
step; a batch of the enricher is five, between which the others write, and of which any
may fail (`BatchFails`). The normalizer names observed frames by function name, nodes are
found by `stable_id`: of a trace only its entrypoint matches a node, so
`UpsertDynamicEdges` writes nothing. `seen` is a history: the calls confirmed since their
caller was written.

`SubgraphExpansion` is the expander's BFS, one query per hop, over that graph while it
changes, with its rows in any order. A score is a product of weights; the model adds up
their negated logarithms, scaled to integers in which sums that are equal or differ in the
code are so here. `Ways` is the reference its scores are held against: the ends and costs
of all ways of so many arcs, by recursion on their number. Pruning sorts by score, ties in
any order. The queries after the pruning fill in data and edges and change nothing. No
node has a spec (section 4), so a seed always counts 120 tokens and another node 20.

## 4. The runs

| Run | Checks | Bounds |
|---|---|---|
| `consumer_loop` | types, at-most-once, no lost acknowledgement, nothing stranded without a fault, refinement of `Delivery`, every entry settles | 5 policies, 2 replicas, batches of 2, 3 entries, 1 fault |
| `watcher_replay` | types; the events replay to the recorded commit | 3 nodes in 2 files, 3 commits, the poll loop and 1 request, 1 fault |
| `pipeline_stores` | types; both stores match HEAD | 1 file, 2 nodes, 2 versions; 3 commits one after the other, hooks and rescans, 1 fault |
| `pipeline_overlap` | the stores agree, body and hash belong together; HEAD is recorded and, but for what came back, becomes searchable | 1 node, 2 versions; the poll loop, 3 commits in flight, no fault |
| `pending_refs` | types, one place, no early drop, bounded retries; the queue drains | 2 replicas, 3 references, 1 fault, 1 change of Neo4j or passing day |
| `trace_jobs` | types; a cached job was traced, none is traced again while cached; the queue is worked off, sessions are reclaimed | 2 jobs, 2 discoveries, 2 attempts, 1 session, 1 fault |
| `trace_overlap` | the trace of a run that was alone is its own; without overlap asyncio is restored | 1 job, 3 discoveries, 3 attempts, 2 sessions, no fault |
| `go_traces` | types; the ring holds the newest events, each call gets its own end, a completed run has the newest of its trace, no session is removed in use; runs end, sessions are reclaimed | 2 goroutines, a ring of 3, 3 calls, 1 fault |
| `query_path` | the rate holds, what arrived is returned; everything ends but a wait for a silent Redis | 3 requests, 1 of them followed, a bucket of one token, time enough to refill it once |
| `expansion` | scores are those of best paths, the budget goes to the best, a confirmed call is not disputed | 5 nodes, 6 relations, 3 seed sets, 2 batches, 1 write, 2 hops |

Batches of two over three entries are the smallest in which a batch is cut by a fault
with an entry after it, and in which a second replica takes the next batch meanwhile.
Two nodes of one file are the smallest repository with a CALLS edge, two versions the
smallest with a modification; three commits are needed for a node to be deleted and
added again, and for a version to come back, in either pipeline run: with two,
`EventuallySearchable` would hold without its conditions and hide both failures described
below. One node is enough there: each event of the file names it or does not, and only the
lag of one consumer behind another matters. One session is the smallest limit that refuses a job; three attempts are the
fewest in which one runs alone after two that overlapped. A ring of three wraps with the
six events of three calls, and loses the beginning of a call whose end it keeps. Three
requests are the fewest that tell a refusal that keeps the bucket's time from one that
does not. In the graph of five nodes in `MCExpansion` both bounds of `ScoredByBestPath` are
needed: by the order of rows a score may be better than the best path of two hops, and a
node may miss a better, longer one; two batches and a write are
needed for a confirmed call to be indexed again and looked at again. `Decay` and the
weights are those of the code (0.7; 1, 0.9, 0.8 and 0.6; 0.8 of an IMPORTS); 160 tokens hold a seed and two
more nodes. One fault is a crash or a failed call anywhere; the theorems below hold for
any number. `CHECK_DEADLOCK FALSE` stands where the bounds on entries, commits and
requests stop the actors; `pending_refs` checks deadlock, for its workers never rest.

### Disagreements found

Two runs expect a violation; each shows the code doing something else than a comment says.

* `consumer_redelivery`: "message will be redelivered" (`shared/consumer.py:94`); it
  never is, for the loop reads `>` only and nothing claims the PEL.
* `trace_hooks`: "Restore original asyncio.create_task and asyncio.gather"
  (`instrumenter/app/trace.py:190`); of two runs that overlap, the first to end puts the
  patch of the one that started first back, and the second restores nothing.

Others showed up while modelling and have no run of their own. Designs are files of
`docs/superpowers/specs`. In indexing:

* the graph-enricher acknowledges before its batch is written ("Consumer ACKs messages
  after successful processing", its `tests/test_consumer.py:147`);
* a tombstoned node without outgoing relation keeps its incoming ones (`writer.py:40`),
  where the graph-writer design (line 218) says the tombstone "removes edges atomically";
* two overlapping hooks for one commit emit every event twice, where
  `agents/repo-watcher/PROMPT.md:13` asks for an idempotent hook; and the slower of two
  requests may record the older commit;
* the node consumer may overtake the edge consumer without any failure and then drops
  the event, where the graph-writer design (line 66) calls cache misses exceptional;
* with commits in flight together a version that comes back is lost. The embedder reads the
  hash of the third commit's version, which is the first's, before the node consumer has
  written the second's; it skips the node as known, and both stores settle on the second.
  TLC finds it, without a failure, when `EventuallySearchable` is stated without the condition
  of `Unrepeated` on versions that come back. The embedder design (line 11) means to skip
  unchanged nodes only;
* a node removed and added again may vanish from Qdrant: the delete consumer, lagging, takes
  away the point the upsert consumer has written meanwhile. TLC finds this one too, when the
  other condition of `Unrepeated` is dropped. A node deleted and added again unchanged is
  never embedded at all, for its tombstone still has the hash (`embedder/app/neo4j_client.py:12`);
* the graph-writer's restart empties the join cache, and events that then miss are dropped;
* a full rescan does not correct a lost deletion, where
  `docs/issues/modified-diff-missing-edges.md:31` counts on it;
* a watcher run that fails after an event repeats the event under the same commit and
  path; the parser may read a newer file the second time, and the node consumer then
  stores the newer body with the older hash. A full rescan of a commit already indexed,
  and two overlapping runs for one commit, repeat it just the same. `BodyMatchesHash` is
  therefore stated, and proved, for runs without failures that come one at a time and
  without rescans;
* the gateway's `POST /index` writes to `stream:file-changed` entries without the key
  `event` (`api-gateway/internal/handlers/index.go:48`), which the parser cannot read.

In tracing:

* the eviction task removes sessions that are running, where the design of 2026-03-31
  (line 80) has it remove those that were never run; and it iterates over a dictionary
  other threads change and catches nothing: one RuntimeError ends it. `SessionsReclaimed`
  promises nothing once it is dead;
* a Go binary that panics takes its ring with it: events are sent only when the tests are
  over (`tracert/emitter.go:32`), where the Go tracing design (line 414) has the collector
  retain "all pre-panic events". Without a connection the ring is never sent either, where
  `emitter.go:24` says that events will be buffered;
* a binary without the tracer completes without a trace; a goroutine that emits while
  `tracert.Init` is between flag and buffer kills the binary (`tracert.go:37`);
* a ring that wraps drops the oldest calls, and a panic whose value prints to more than 1 MiB
  makes a line at which the collector throws all events away (`collector.go:80`, `run.go:100`);
  the run is completed in both cases, with part of a trace or none, and its client told ok;
* the collector neither groups events by goroutine nor maps names to stable ids, where the
  same design (lines 382-384) has it do both. `PairsOwnCalls` is therefore stated for
  traces of one goroutine, and the enricher finds nodes for entrypoints only;
* all traces of a batch go into one set of ids (`graph-enricher/app/consumer.py:82`), so
  that two entrypoints traced apart confirm a call between them, where the comment on the
  query (`enricher.py:24`) speaks of one execution path;
* `coverage_pct` of the normalizer is always 1.0, and its `total_runs` the largest number
  of runs plus one, so the ratios differ from those documented.

In queries:

* the expander's query for specs names columns the table of the spec-generator does not
  have (`subgraph-expander/internal/postgres/queries.go:13`): no seed ever has one;
* seeds are never pruned, and 20 of them exceed the budget of 2000 tokens, where the
  expander design (line 255) says the answer never does. `BestFillBudget` excepts them;
* `lookup` queries follow DEFINES relations, which nothing writes;
* the gateway's timeout of 30 s is as long as the understander's for one attempt, so a model
  that does not answer never reaches the fallback in time;
* the understander asks Redis through a client without timeouts
  (`query-understander/app/main.py:39`): one that accepts and stays silent holds the handler
  for ever, where the gateway's own call ends after 30 s. A Redis that fails is caught;
* relations and conflict warnings of an answer come from two queries and may disagree.

## 5. Fairness

`ConsumerGroup`: weak fairness of each replica's own steps: a running loop is a
`while True` that never blocks for ever (XREADGROUP has a timeout). There is no fairness
on `Restart`, because no service of `docker-compose.yml` has a restart policy, and so
the liveness property stops promising once no replica runs. `IndexPipeline`: weak
fairness of the poll loop, which catches every exception of a run, and one weak fairness
over all handlers: of the consumers with something to do one does it. That is less than that
each of them keeps running, and as there are finitely many events it is enough;
nothing is assumed of hooks, commits and requests to `/index`. `PendingRefs`: weak fairness of a worker's own steps and
of taking files, that is, files keep being indexed: the queue is only retried when a
file arrives, and without this the property is false.

`TraceJobs`: weak fairness of the worker, of its timeout, of the eviction task, of the
handler of `/instrument` and of time going by for a session (60 seconds are longer than
the 30 a job is waited for). None of `/run`: outside the main thread nothing ends an
entrypoint, and `JobsTaken` must hold all the same.

`GoTraces`: weak fairness of the services' handlers, goroutines and loops and of the
timeouts (of the client, of the collector, of the binary), each of which the code sets;
none of the traced program, which may call, block or hold its output for ever.
`RunEnds` and `SessionReclaimed` except what that and a dead runner leave behind.

`QueryPath`: weak fairness of the handlers, of the timers and of the return of a call
whose context is cancelled. Nothing makes the model, Redis, the embedder or the stores
answer: of the understander's steps only the timeout of an attempt is fair, and
`EverythingEnds` lets a handler wait for a silent Redis. The expander and the serializer, for which the gateway sets no timeout, are taken
to answer or fail. `CallGraph` and `SubgraphExpansion` state no liveness.

## 6. What is proved

Every theorem below holds for every value of the constants the modules' assumptions allow:
arithmetic ranges, which sets contain which, that the nodes of the graph are finitely
many, and that an event of `GoTraces` is an event of its ring. A theorem that needs more
says so as a hypothesis, and the hypothesis is one some configuration of the runs
satisfies.

`ConsumerGroup_proofs` (any replicas, entries, batch size, faults and set of policies):

* `TypeCorrect`: `Spec => []TypeOK`.
* `AtMostOnce`: `Spec => []HandledAtMostOnce`. The invariant is that no entry beyond
  `last` was ever handled, that an entry in a replica's batch from its present position
  on has not been handled yet, and that batches of different replicas are disjoint.
* `AckAfterOutcome`: `Spec => []AckedNeverLost`. The property is about services
  whose handler writes itself (`~Deferred`): the graph-enricher acknowledges first. The
  invariant (`AckInv`) says what a replica knows of the entry it
  is on at each of its steps.
* `StrandedHasCause`: `Spec => []StrandedOnlyByFault`. With the types it is inductive itself:
  a loop takes its hand off an entry only when it leaves the PEL or has one of the three
  causes to stay there (lemma `StrandStep`).
* `DeliveryImplemented`: `Spec => ImplementsDelivery`, the refinement: every action is
  shown to be a step of `Delivery` under the mapping or to leave it alone. `EndInv` says
  that an entry not yet reached is fresh and that only rejected ones are dead-lettered; with
  batches disjoint (from `AtMostOnce`), a final status can then never change.

`RepoWatcher_proofs` (any repository, threads and requests):

* `WatcherTypeCorrect`: `Spec => []WatcherTypeOK`; git's answers are the hard part, that a
  diff with renames names only nodes of the two trees (`Known`).
* `StreamReplaysToIndexed`: `OneAtATime => (WatcherSpec => []ReplayIsIndexedTree)`. The
  invariant (`ReplayInv`) follows a run: the nodes it has named already replay to its new
  commit, the others to the recorded one, but for `torn` and `ghost`. `OneAtATime` is that
  one thread calls `process_commit`; with two the property does not hold, for the slower
  may record the older commit.

`IndexPipeline_proofs` (any repository, threads, requests and faults):

* `TypeCorrect`: `Spec => []TypeOK`, the streams, handlers, cache and stores.
* `StoresNeverDisagree`: `Spec => []StoresAgree`, with commits overlapping as they like.
  Both writers read the same stream, and `AgreeInv` ties what each shows of a node to the
  newest event with it that the writer has handled (`Newest`), and what the node consumer
  has in hand to the event it is at. At rest both have handled all, so the two are the same.
* `BodyBelongsToHash`: `OneAtATime /\ NoRescan => (Spec => []BodyMatchesHash)`. `OnceInv`
  says that a run without failures emits a path once per commit, `BodyInv` that each entry
  of the cache is the parse of the event with its key. Both hypotheses are needed; each,
  dropped, repeats a key (section 4).
* `GraphShowsHead`, `VectorsShowHead`: `~Pipelined => (Spec => []GraphMatchesTip)`, and the
  same of `VectorsMatchTip`. `~Pipelined` is that a commit waits until the last one is
  indexed, with any number of threads running on it and rescans as they like. With commits
  in flight together it is false: an event of the older one, parsed late, can bring a node
  back that the newer one deleted. The invariant (`HeadInv`) says of each node that
  the store shows HEAD, or that an event still to come makes it so, and has a part for every
  place where that event can be: a run that has not listed or not emitted its file (`AtTip`),
  the streams (`FlowInv`), the hands of a service (`HandInv`). `GraphInv` and `VecInv` are
  then about the stores. `PaceInv` is what joins them: the embedder skips a node whose hash
  the *graph* already has, and says so to Qdrant by saying nothing. So a node the graph
  shows must have that version in Qdrant too, unless an event that one of the two has still
  to see will change that, or the node is marked.

`PendingRefs_proofs` (any replicas, references and `MAX_ATTEMPTS`):

* `TypeCorrect`, `OnePlace`: every reference is in exactly one place. Each action is
  shown to move one set of references to one place (lemma `MoveTo`); it needs
  `HandsFree`, that a worker holds references only in the phase that uses them.
* `Bounded`, `DroppedExpired`: from the invariant `CountsTries`, which ties the
  `attempt_count` of an entry to the number of fruitless retries of its reference. It
  needs `OnePlace`: only because no other entry has the same reference does counting one
  miss leave the others right.

`TraceJobs_proofs` (any jobs, discoveries, attempts, sessions and faults):

* `TypeCorrect`, `CachedEmitted`: a key is set only by the worker that emitted the trace,
  or by a request of it that timed out and took effect later (`CacheInv`).
* `NotTracedTwice`: `Spec => NoSecondTrace`, an action property.
* `TraceOfOneRun`, `AloneLeavesAsyncio`: from `RunInv`, which says what `createTask` and
  `saved` are while exactly one run that met no other is between its two hooks, and that
  after any overlap everybody involved is in `mixed`.

`GoTraces_proofs` (any capacity, events, goroutines, calls and faults):

* `RingTypeCorrect`, `DrainIsNewest`: `RingSpec => []RingHoldsNewest`. `RingInv` says
  where each event of `log` is: the newest `count` of them stand in the slots behind
  `head`, going round. The proof is the arithmetic of `%` that a write moves every other
  slot one further from `head`.
* `TypeCorrect`, and `BinaryDrainsNewest`: `Spec => []RingHoldsNewest`. The whole system's
  steps are steps of the ring or leave it alone, except that the end of a process resets it.
* `RunKeepsSession`: `Spec => NotRemovedInUse`. `SessionInv` says who holds the lock of a
  directory at each step of the runner and of the janitor.
* `OkMeansNewest`: `Spec => []OkIsNewest`. The longest argument here after the pipeline's.
  `TracerInv` follows the binary: until it drains its ring, every call of the test is in `log`
  (`AllCalls`) and, once the test has returned, with its end; when it has drained, this
  is true of `recorded`, and what it took is the newest of that (`Captured`, by `RingInv`).
  `OkInv` follows what was taken: to the socket (`SentInv`), through the collector, all of it or
  nothing and nothing only for a reason (`GotInv`), into the trace (`TraceInv`,
  `EmittedInv`), and to the status and the client, which are set after the trace is emitted
  and tell the exit code (`CompletedInv`). A kill anywhere before the end shows in that code.
* `OwnCallsPaired`: `Spec => []PairsOwnCalls`. The trace is a part of `log`: the ring cuts
  its beginning off and a kill its end. So `PairsInv` speaks of every part of `log`, and of
  its suffixes says what the next event needs: if all of it is of one goroutine, the stack
  a replay of it ends with is the top of that goroutine's own (`OnTop`). A suffix that begins
  in the middle of a call has the smaller stack, and finds it empty where the call ends.

`QueryPath_proofs` (any callers, capacity, cost and clock):

* `LimiterTypeCorrect`, `RateIsLimited`: `LimiterSpec => []WithinRate`. Three facts make it
  inductive: what was
  spent and what is in the bucket never exceed a full bucket and the time between the
  window's start and the last refill (`Conserved`), the bucket is never over full
  (`BucketBounded`), and no clock read still to be used is older than the window
  (`ReadsInWindow`). It covers reads used out of order, by which tokens go below zero.
* `PathIsLimited`: the same of the gateway, since its other steps leave the limiter alone.
* `ArrivedReturned`: `Spec => []ArrivedIsReturned`. `SearchInv` says that what
  arrived is taken or lies in its channel, and it lies there only while somebody will look.

`SubgraphExpansion_proofs` (any graph, entrypoints, batches, writes):

* `GraphTypeCorrect`, and `NotDisputed`: `GraphSpec => ConfirmedNotDisputed`, from
  `SeenIsFresh`: a call confirmed
  since its caller was written still has a `confirmed_at`, newer than the caller, whatever
  its `source`; only `DetectConflicts` disputes, and only calls without one.
* `NotDisputedUnderQueries`: the same with expansions under way.
* `ExpansionTypeCorrect`: `Spec => []ExpansionInv`, the types, that only seeds have the best
  score, and that no node is further away than the query has come.
* `ScoredByBest`: `Spec => []ScoredByBestPath`. While the graph holds still (`ScoresInv`):
  each score is that of a way along nodes with better scores (`Earned`), of which
  there are fewer than nodes; and between two levels every way of as many arcs has an end
  that was found and a score that is as good (`LevelDone`). Within a level that holds but for
  the rows to come (`LevelUnderWay`), where a row may be read after its parent's score got
  better and then passes on a longer way's score.
* `BudgetToBest`: `Spec => []BestFillBudget`, for any budget and any order of equal scores.
  `WithinBudget` says it of the nodes the pruning has gone through so far; the next one
  keeps to it, as a seed comes before all others.

What `ScoredByBest`, `BudgetToBest` and `OwnCallsPaired` say is about recursive functions
on numbers (`Ways`, `KeptOf`, `Replayed`). That such a function exists, and equals
what its recursion says, is proved with them (`IterationExists`, `ReplayExists`) by an
induction over a *set* of numbers (`NatInduct`, from the least element of its complement):
the library's induction theorems take an operator, which the provers here cannot instantiate.

Model-checked only is liveness, under the fairness of section 5: it needs ENABLED, which is
out of the prover's reach (`EventuallySettled`, `EventuallySearchable`, `PollCatchesUp`,
`QueueDrains`, `JobsTaken`, `SessionsReclaimed`, `RunEnds`, `SessionReclaimed`,
`EverythingEnds`). Before they were proved, TLC checked `HeadInv`, the largest invariant, in
every state of `pipeline_stores`, and `PairsInv` in every state of `go_traces`.

## 7. What is not modelled, and why

* Redis, Neo4j, Qdrant and git are external: modelled from how the services use them.
* Parsing of source text (tree-sitter), embedding, rendering: pure data; a tree is
  given node by node. Languages other than Python: the watcher sends their files with
  empty node lists.
* In tracing: Go and Python jobs in one queue, concurrent requests to `/discover`, the
  mocks of I/O and the line tracer (`sys.settrace` is local to a thread). The rewriting of
  Go source is given by what rewritten code does; that `go f(x)` then evaluates `x` later
  is a change of the traced program, not of the trace.
* The trace-normalizer's aggregates over several runs: one trace is emitted per job, and
  the counters only feed ratios nothing decides by.
* The spec-generator: rendering is text; its versioned upsert in Postgres with the copy in
  Qdrant runs under the consumer loop, and only the loop is modelled.
* In queries: rank fusion and the serializer's text (pure data), the gateway's `POST /index`
  and its proxies, clients that disconnect, and what the last queries of the expander add
  to nodes already chosen.
* Metrics, logging, health endpoints, dashboards, demo, perf-tracker: no state the rest
  depends on.
