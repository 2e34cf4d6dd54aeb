# A verification development for Thorondor

Thorondor is a self-hosted semantic web-search stack: an orchestrator (FastAPI, one asyncio
event loop) that searches, fetches, maps and crawls sites, with a semantic chunking service,
an egress proxy, search and crawl engines behind HTTP, and command-line tooling. These TLA+
modules model the part of it whose correctness is hardest to see in the code and to reach with
a test, check it with TLC on small instances, and prove the properties of its core with TLAPS
for every value of the constants.

## Inventory

| component | state it keeps | operations | interacts with | what is hard | what makes it correct |
|---|---|---|---|---|---|
| **crawl job store** (`crawl_job_store.py`) | three SQLite tables: jobs, results, failures | claim, claim_next, increment_attempt, append_result, append_failure, finish, request_cancel, recover_interrupted, the expiry sweep, reads | each call runs in a thread (`asyncio.to_thread`), one transaction each | concurrent transactions, clocks read before the write lock, reads that are not one snapshot, calls abandoned by a deadline | one row per idempotency key, the record cap, one outcome per page, stable ordinals, final verdicts, tombstones |
| **crawl job manager** (`crawl_jobs.py`) | worker task, `_active_cancel`, `_wake`, `_closing` | create, status, results, cancel, worker loop, attempts with retry and backoff, recovery | store, site crawler (runner), HTTP handlers | a commit and its in-process effect are two steps; crashes; store errors; cancels at any moment | no orphaned or doubly run job, attempt budget, cancellation wins, no lost wake-up, every job ends |
| **result paging** (`results`, `_result_page`) | an opaque cursor at the client | page, complete, expired, invalid cursor | store, worker, expiry | rows appended and expired between and within requests | no gap, no repeat, "complete" only at the end |
| **site crawler** (`site_pipeline.py`, `crawl_policy.py`, `robots_policy.py`, `sitemap_policy.py`) | the frontier: discovered, queued, in flight and finished records, aliases by redirect | discover, merge, pop, reconcile_final, mark, cancel_queued | fetcher, robots and sitemap fetches, job callbacks | redirects merge two records; limits meet in-flight fetches; cancellation | one outcome per final address, page and depth limits, robots respected, best-first order |
| **page cache and fetch refresh** (`page_cache.py`, `fetch_pipeline.py`, `target_watch.py`, `diffing.py`) | SQLite records, tombstones, target baselines; per-key refresh locks; background refreshes | get, put, touch, tombstone, cleanup; fresh, stale, refresh, 304, coalesce | crawl client, politeness | stale-while-revalidate races foreground refreshes; coalescing on another's write; retention loop wake-ups | no older content over newer, one refresh per key at a time, baselines belong to the content they were taken from |
| **politeness** (`politeness.py`) | per-host lock, next allowed time, cooldown | wait, record, evict | crawl client | eviction of a host somebody is about to wait for, a cooldown recorded during a sleep | spacing between two requests of a host, cooldowns obeyed |
| **admission** (`resource_policy.py`, `clients/crawl4ai_client.py`, `app.py`) | route slots, global and per-host semaphores | acquire with timeout, release, cancel on disconnect | every route | a timeout racing an acquisition, a disconnect racing the answer | no slot lost or released twice, no deadlock between the two semaphores |
| **search pipeline** (`pipeline.py`, `merge.py`, `prefilter.py`, `selection.py`, `assembly.py`, `content_dedup.py`, `evidence_*.py`) | one request's candidates, pages, chunks, budget | plan, search, fetch, chunk, rerank, assemble | all clients | stage deadlines and partial failures, degradation | the token budget holds, degraded answers are labelled, citations match passages |
| **semantic chunking service** (`cluster_semantic.py`, `recursive_splitter.py`, `app.py`, `embedding_function.py`) | none between requests | split, embed, segment by dynamic programming | embedding server | boundaries of the dynamic program | the segmentation is optimal and covers the text once |
| **egress proxy** (`ssrf-proxy/proxy.py`) | open relays | CONNECT, resolve, relay, close | crawl engine | half-closed relays | both directions end, only checked addresses are dialled |
| **structured extraction** (`structured_extraction.py`, `schema_contract.py`, `fetch_pipeline.py`) | the parsers' stacks and counters, for one page | parse links, tables, JSON-LD; ask a model, validate, trim to the response | fetch pipeline, LLM server | tags in any order, limits met in the middle of a row, a model's answer that is partly supported | every answer satisfies its own contract, omissions are counted, data is grounded on the page |
| **text conversion** (`markdown_cleaner.py`, `normalize.py`, `evidence_metadata.py`) | none | pure conversions of text | fetch and search | none that concurrency reaches | faithful text |
| **URL identity and safety** (`url_identity.py`, `url_safety.py`) | none | canonicalise, compare, refuse | everything | character-level parsing | equal addresses get equal keys |
| **MCP server and adapters** (`mcp_server.py`, `thorondor_mcp.py`, `thorondor_contracts.py`) | none | translate tool calls to routes | REST routes | none | faithful translation |
| **CLI and deployment** (`thorondor_cli/`) | `.env` files, compose state | edit, probe, deploy, wire | docker compose | one step of a deployment failing | files are written whole or not at all |
| **clients and settings** (`clients/`, `settings.py`, `observability.py`) | none | one HTTP call each | external services | timeouts | errors become typed outcomes |

`PROJECT.json` repeats the list with what is modelled of each component, and lists the hazards
of this code at the line where each one bites.

## How the modules correspond to the code

```
JobLifecycle            the promise: each job by itself
     ^ refined by (Life, in CrawlJobStore) and EveryJobLives
CrawlJobStore           the three tables, one action per transaction
     ^ extended by                ^ extended by
CrawlJobs                         ResultPages
worker, handlers, crashes,        one client paging through a job while
faults, abandoned calls           everybody else uses the store

                                                  Loops
                                                 ^     ^
PageCache               CrawlPolicy  ContentBasics     SearchBasics <- Discovery, Evidence
     ^                       ^         ^        ^                          ^  ^   CrawlAnswer
FetchRefresh            SiteCrawl  Chunking  HtmlExtraction              SearchPipeline
                                       ^        ^
RequestGates  Politeness               |     StructuredFetch
                                       +----+---+
                                       PageContent
```

How the parts meet in the program, and where the models meet: a fetch, a search and a site
operation all pass the gates (RequestGates) and the pacing of hosts (Politeness); the crawl
service's answers mean the same to all of them (CrawlAnswer); a fetch may be served by the
cache (FetchRefresh) and its page gets its structured part (StructuredFetch); a search has its
pages chunked (Chunking); a job runs a crawl (SiteCrawl seen through the callbacks in
CrawlJobs). Each model takes the one below it as a set of answers, so that every answer the
lower one can give is among them.

**CrawlJobStore** — `job`, `results` and `failures` are the tables, `clock` is `time.time()`.
A row has the columns some transaction branches on. A claim is the pair of scope hash and
idempotency hash; a fingerprint, a claim and a page key are model values. Each operation of the
class is one operator on the tables (`Claim`, `ClaimNext`, `IncrementAttempt`, `AppendResult`,
`AppendFailure`, `Finish`, `RequestCancel`, `RecoverInterrupted`, `Sweep` for `_expire_due`), with
the sweep inside those transactions that begin with one. Two details are kept on purpose:

* `now = clock()` is read before `BEGIN IMMEDIATE`, which may wait for another connection's
  lock; a transaction therefore uses a reading at most `StaleBy` behind the clock at its commit.
* `append_result` and `append_failure` insert whatever the state of the job; only the counters
  are conditional on `state = 'running'`.

`StoreSpec` lets any caller use the store in any order, with two habits of its only caller: a
job that is still queued is not finished, and an attempt past the budget is not begun.
`CrawlJobs` contains the caller in full, and its property `UsesStore` checks that the habits are
its own.

**JobLifecycle** — the abstract specification: a job is accepted, begun within its attempt
budget, perhaps requeued or asked to cancel, ended once ("cancelled" exactly when it was
cancelled), keeps results that only grow, and is forgotten by retention. It knows no store,
worker or clock. Since one sweep can move many rows, a step of the specification moves each job
by an action of its own or not at all.

**CrawlJobs** — the manager. asyncio switches at `await` only, and each awaited store call is a
transaction in a thread, so one action is a transaction together with the code that follows it up
to the next `await`. `pc` names where the worker coroutine is; `Holding` are the places inside
`_run_job` and its failure handler. Where a commit and its in-process consequence are two steps in
the code they are two actions: `ClaimFirst` and `RunJob` (the event is registered after the claim
has committed), `Create` and `CreateWakes`, `Cancel` and `CancelSignals`, `ClaimNone` and `ClearWake`, `ReadFinalRecord`,
`CountResults` and `FinishJob`. The runner (the site crawler) is reduced to what a job sees of it: it
admits a page if cancellation is not visible, fetches it, and hands over a result, a failure or
nothing (a duplicate); then it returns or raises. Added around the code: store calls that raise
(`Faults`), process crashes with restarts, and calls abandoned by the attempt deadline, which
`asyncio.to_thread` cannot stop and which commit later or never (`stray`).

Two history variables serve the properties: `invoked` counts how often the runner was started,
`late` records jobs that an abandoned call wrote to while they were not running or between the last
reading of their record and `finish`.

**ResultPages** — `_result_page` runs the sweep, the row's SELECT, the COUNT and the page's
SELECT on one connection. Python's `sqlite3` opens a transaction before the first statement that
writes; when the sweep has nothing to write the three reads are separate snapshots, and so they are
three actions. `cursor` is the ordinal inside the opaque cursor, `got` what the client has received.
Everybody else may take any step of the store (`Others`), an append to a job that has ended or expired
included; pages are recorded only of a job that a worker has started. Three history variables serve the
properties: `ever` is what the job stored until retention removed it, `atEnd` how many results there were
when the job ended, `regrown` that something was written to a row after its expiry.
The signature of a cursor and its expiry inside the token are not modelled: the client here is an
honest one that sends back what it was given.

**PageCache, FetchRefresh** — a record is the version of the page that it holds with its three
times; the site publishes versions in order, so "older content" is a comparison. A step of a task is
one cache transaction or one fetch, up to the next `await`. `holder` is the per-key refresh lock,
`background` the coordinator's table, `stray` a put whose caller was cancelled and whose thread goes
on. A request reads its record, decides (fresh, stale while revalidating, refresh), waits for the
lock, reads again, and joins the refresh it finds, or fetches: content, 304, a failure, or a
tombstone. Watches compare the target's last state with the new one in the transaction that stores
it. The retention task reads the next deadline, sleeps, cleans up and clears its event.

**CrawlPolicy, SiteCrawl** — `CrawlPolicy` is the frontier as a value: discover, merge, pop,
reconcile a redirect, mark, cancel. `SiteCrawl` is `_SiteOperation.run`: seed, sitemaps, search
augmentation, then one page after the other. What is true of an address (scheme, origin, path,
safety, robots) is a table; what a fetch returns, where it redirects and what it links to is chosen
when it happens, and the robots file of an origin may be readable, absent or unreachable, cached
already or not. Cancellation is looked for where `_check_cancelled` is called.

**RequestGates** — route slot, permit of the process, permit of the host, in the order the code
takes them. Semaphores are asyncio's: waiters queue, a release hands the permit to the first of
them before it runs, and a cancelled or timed-out waiter that was handed one passes it on. A
host's semaphore lives as long as a task refers to it (the code keeps them weakly), so it may be
made anew while requests go on. A cancellation is a mark on the task; what it holds is released at
its next step.

**Politeness** — `wait` up to the lock, the sleep under it, the check after it, and `record`
without it. `_evict_idle` runs when another host is first seen.

**Discovery, Evidence, CrawlAnswer, SearchPipeline** — the pure parts are operators (parsing and
merging of results, selection in three passes, deduplication, prefilter, scores of batches, quality
gate, cutting to the three budgets, citations), and the pipeline is one action per awaited service,
each with its failure and its deadline. Scores, lexical matches and noise are given with the chunks;
a text is a name with a length, and a passage is a span of it. When a passage is cut its span and
evidence hash are dropped, and that is what `verbatim` says. The loops, filters and stable sorts of the
code are operators of **SearchBasics** and **Loops**, defined by functions over the positions of a sequence so
that a proof can reason about them. `RequestOK` and `AnswersOK` say what a request and the answers of
the services may be; an execution chooses one of `Searches`, which fulfil them.

**Chunking** — a text is a sequence of letters, white space and full stops, so that splitting at
the separators, stripping and searching for a segment behave as they do in Python. Embeddings are
vectors of three directions with whole-number similarities, chosen freely for each segment. The 25th
percentile is compared after multiplication by four, which keeps it exact.

**HtmlExtraction, StructuredFetch** — the parsers are driven by a stream of start tags, end tags
and data in any order; a position is a number of tokens. Data of a schema is a map from names to
values with leaves; evidence is a piece of the page's words. The response is bounded by trimming the
largest extraction until it fits. `Token`, `JsonBlock` and `Value` say what a page and a model may
contain at all; a run chooses some of it. `seen` counts what a reader of the page sees, beside the
parsers and never read by them.

**PageContent** puts Chunking and StructuredFetch side by side, and **MCAnswers** puts SearchPipeline
beside them for one run; they share no state, and an execution is about one of them. (`Chunk` of
SearchPipeline takes the chunking service's answer as it comes, valid or not, so it does not rest on
Chunking.)

**MC modules** give the finite instances: tables of addresses, texts, answers, and the symmetry
sets (page keys, claims and fingerprints are interchangeable; identifiers are not, they are ordered
by ORDER BY job_id). No symmetry is used where a liveness property is checked.

The operators commented "Mutant of X" are plausible bugs. Nothing uses them: each one
replaces X in a run to show that the run's property would notice.

## What the runs check

| run | question | bounds |
|---|---|---|
| store | one outcome per page, counters never negative, uniqueness of claims, record cap, finality of verdicts, tombstones, under any order of transactions | 3 identifiers against a cap of 2, 1 claim, 2 fingerprints, 1 page key, clock to 2, readings up to 1 old |
| manager | exact pages and attempts, honest "completed"; manager and store together implement JobLifecycle, and the manager stays within StoreSpec | 1 job, 2 page keys, 2 pages an attempt, 2 attempts, expiry, 1 crash, 1 store error or abandoned call |
| manager_settles | no job is forgotten, a committed cancellation wins, every accepted job ends (liveness) | 2 jobs, 2 attempts, 1 crash, 2 store errors, no pages |
| result_pages | pages in order, "complete" means whole, a cursor stays valid, results only grow | 1 job, 2 page keys, 2 a page, 2 attempts, clock to 2 |
| cache_refresh | honest dates and answers, no older content over newer, retention deadlines, one alarm per change, no lock without a task | 1 key, 3 versions, 2 requests, 1 background refresh, 1 cancellation or clear-url, lifetime 1, stale window 1, retention 2, clock to 2 |
| site_crawl | one delivery per page, robots, scope and safety through redirects, every record settled and counted, "completed" leaves nothing out, termination | 5 addresses of 4 pages, at most 3 of them discovered, 2 origins, an excluded query, 2 sitemaps, 2 links a page, 5 worlds of robots files and requests |
| gates | permits conserved, host bound, nothing goes on behind an answer, every request is answered (liveness) | 3 requests, 4 tasks, 2 hosts, 2 slots, 2 permits, 1 a host |
| politeness | no request before the time agreed for its host | 3 callers, 2 hosts, 4 locks, clock to 3 |
| answers | of a search: faithful evidence, budgets, counters, reasons, selection, no page crowded out; of a text: chunks quote it and lose none of it, the grouping is optimal; of a page: extractions satisfy the contract, and omissions are counted | 7 addresses, 3 texts, 3 families of searches, each varying one part of the pipeline; all texts of at most 4 characters and 4 longer ones, 4 strategies, 3 directions; pages of 7 tokens or 3 blocks, every limit at 1 to 3 |
| cancel_gap | *violated*: cancellation stops admission | 1 job, 1 page |
| torn_expiry | *violated*: a reader is never told "complete" before it has everything | 1 job, 1 page key |
| ld_left_out | *violated*: JSON-LD documents the limits leave out are reported | blocks of up to 4 documents at a limit of 2 |

Why the bounds are enough. Jobs meet one another only in the queue order, the record cap and the
uniqueness of claims: two jobs contend for the worker, three identifiers overfill a table of two
and reuse a claim whose first owner has expired. Two page keys are what a redirect needs (a requested
and a final address, each of which may have failed before). Two attempts give one retry, and with a
crash and a store error reach the combinations the code treats apart. Retention and tombstone are one
tick: only comparisons with them matter, and a stale reading lies on the other side of each deadline.
In the cache, keys share nothing but the retention task; two requests and a background refresh are a
holder of the lock, one that waits for it and one that was started meanwhile; three versions let a
page be seen before, at and after a change. In the gates two tasks of one request and one of another
compete for a host while a third request needs another host. In the crawl, a page may be reached by
two links and by a redirect from the other. For the chunker, four segments are the least with a
choice of two cuts, and the limit of the dynamic program is crossed with five. The parsers' limits are
one or two, so that every limit is met and exceeded within seven tokens.

### Bounds that are not parameters of the program

`MaxClock`, `StaleBy`, `MaxPages` (the program's `max_pages` per crawl), `MaxCrashes`, `MaxFaults`,
`MaxStrays`, `MaxItems`, `MaxVersion`, `MaxLinks`, `MaxEntries` and `Worlds` of SiteCrawl, `Locks`, `Searches`,
`ChunkTexts`, `Strategies`, `Jobs`, `ModelReplies`, `MaxTokens` and `MaxBlocks` bound the exploration. They
appear in guards and in the choice of inputs only. The limits of HtmlExtraction (`MaxLinks`, `MaxRows`,
`MaxCells`, ...) are the program's own constants at small values.

### Fairness

`CrawlJobs!FairSpec` is weakly fair to `Worker` (the worker's own steps) and to `Start`. The event loop
runs every ready coroutine; every awaited call returns or raises (SQLite's busy timeout, the attempt
deadline, the poll timeout); the attempt ends because `MaxPages` bounds its pages and its deadline
its time; and the compose files say `restart: unless-stopped`. Nothing is assumed about clients,
time, or abandoned calls. Store errors and crashes are bounded: with a store that fails for ever no
job could end.

`RequestGates!FairSpec` is weakly fair to what the event loop and its timers do: a granted waiter runs,
a wait for a permit and the fetch stage time out, a cancelled task reaches its next await. The crawl
service itself need never answer, clients need never hang up, and the route's deadline need not pass.

`SiteCrawl!FairSpec` is weakly fair to the operation's own steps: each fetch has a timeout. Nobody
need cancel it.

## Where the code and its documentation disagree

Three of these are runs whose counterexample TLC prints.

* **cancel_gap.** `docs/architecture/pipeline-workflow.md:82`: "Cancellation sets a durable request
  flag and an in-process event, stops new URL admission". The event is registered in `_run_job`,
  after `claim_next` committed. A cancel between the two finds no event; the flag is durable, the
  answer is 200, and the runner, which looks at the event only, fetches every page. The job still
  ends "cancelled": `CancelWins` holds.
* **torn_expiry.** If another request expires the job between the SELECTs of a results request,
  the client is told that an empty list is complete, not that the job expired. `CompleteIsWhole`
  and `CursorStaysValid` say what does hold: as long as retention has not taken the results, the
  answer is right.
* **ld_left_out.** `README.md:420` says that omissions are counted ("JSON-LD blocks or fields"), and
  `tests/test_structured_extraction.py:260` expects "truncated" and one omission of one document too many. Of
  JSON-LD, roots and graph nodes behind the limit of documents are left out before anything is counted
  (`structured_extraction.py:484`), so a graph of three articles at a limit of two is "ok" with nothing omitted.
  `NothingIsLost` says what does hold: the history `seen.documents` counts every root and node of the blocks
  within these limits, and `seen.crowded` those of the others. Either way "truncated" makes no promise about
  documents: an omission may be a whole block, a document both cut and over the cap is counted twice, and a
  second caption replaces the first.

Met while reading, without a run of their own:

* A page write abandoned by the attempt deadline may commit after `finish`: the results of a terminal
  job change while its counters do not (`tests/test_crawl_jobs.py:212` calls terminal reads idempotent).
  `CrawlJobs` contains the step (`StrayLands`), which is why `ExactProgress` and `HonestCompletion`, the parts of `HonestAccounts`, speak
  of jobs no late write touched (`late`). `ResultPages` contains it too: `CompleteIsWhole` promises a client
  that was told "complete" what was stored when the job ended, and such a row comes after it. A row
  written after the expiry has taken the others begins again with the first ordinal, which is the exception
  `regrown` in `PagesInOrder`.
* `docs/architecture/pipeline-workflow.md:148` names failures of engines where the reason code, in the code and
  in `ReasonIsTrue`, also counts failed subqueries.
* `docs/architecture/configuration-reference.md:290`: with `ALLOWLIST_ONLY` and no `DOMAIN_ALLOWLIST`,
  per-call `domains` are said to make requests work; the intersection with an empty list is empty.
* `docs/architecture/pipeline-workflow.md:70` and `security.md:124`: a background refresh that was started
  when another's done callback removed its entry is not awaited at shutdown, and a put abandoned by its
  caller is unknown to the retention task until the next wake-up (`unwoken` in FetchRefresh).

Worth knowing when reading the properties: an abandoned put may place older content over newer
(`NeverBack` excludes it), a cancelled watcher's alarm is lost after its commit, a 304 to a request that
began before a clear-url stores the record again, an idle host's eviction forgets its count of refusals,
after a redirect from a to b a later link to a is fetched again and found to be a double, and chunks the
reranker did not score are not held to the relevance floor.

A page first met under a link with a `utm_` parameter is recorded under the key of the plain address
(`url_identity.py:131` drops the parameter), yet `_path_rejection` (`crawl_policy.py:152`) looks at the
whole query: with the query policy "exclude" the record is filtered as `query_excluded`, and a later link
to the plain address merges into it and is never fetched, whatever the crawl reports.
`CompletedIsClosed` therefore says of a page that "completed" left out that its record was refused, under
the spelling it was first met by, for a reason that is true of that spelling (`RefusedAs`); it does not say that
the reason is true of the others. The MC instance has such a page (`tagged`).

## What is proved

TLAPS proves, for every value of the constants, nearly all of the safety properties that the runs
check, and two refinements: the store implements `JobLifecycle`, and the manager implements the
store. Every property was model-checked before it was proved; for each module the inductive
invariant was checked by TLC on the instance of its run first. The layout is the same everywhere:
lemmas about the operators, the invariant as a conjunction of named parts, one lemma per action (or
per family of actions that disturb the same parts), the theorems.

### The store: `CrawlJobStoreProofs`

| theorem | statement | argument |
|---|---|---|
| StoreTypeCorrect | `StoreSpec => []StoreTypeOK` | inductive as it stands; one typed lemma per action |
| ClaimUniqueness | `[]UniqueClaim` | needs that a row without a claim is exactly one that has expired or does not exist: an INSERT happens only if no swept row has the claim |
| RecordsCapped | `[]RecordCap` | strengthened by the finiteness of the stored set: `JobIds` may be infinite, one insertion adds one identifier, the sweep only removes |
| OneOutcome | `[]OneOutcomePerPage` | a result removes the failure under its key in the same transaction, a failure is skipped when its key has a result |
| OrdinalsStable | `[][...]` `ResultsAppendOnly` | every action keeps the results, appends one, or clears them with the row's expiry |
| TerminalFinality | `[][...]` `TerminalIsFinal` | a row moves by the sweep, an insertion or the worker; only the sweep touches a terminal row, with a reading not above the clock |
| TombstoneLasts | `[][...]` `TombstoneKept` | strengthened by `PurgeAfterTombstone`: an expired row's purge time is its deadline plus the tombstone |
| StoreImplementsLifecycle | `StoreSpec => Life!Spec` | strengthened by `QueuedCanRun`: a queued row has attempts left and is not flagged for cancellation, which is what lets `Begin` and `End` be matched |

What each action does to a single row (`RowMoves`) and to the pages of a single job (`PageMoves`) is
proved once; each property follows from those two, without opening the actions again.

### The manager: `CrawlJobsProofs`

| theorem | statement | argument |
|---|---|---|
| ManagerTypeCorrect | `Spec => []TypeOK` | inductive together with the parts of `ManagerInv` |
| ManagerImplementsStore | `Spec => UsesStore`, that is `StoreSpec` | the two habits `StoreSpec` grants its caller are consequences of `Owned` (who is finished is running) and `Budgeted` (what the worker remembers of the row is what the row says) |
| ManagerImplementsLifecycle | `Spec => EveryJobLives` | the two refinements composed |
| NobodyForgotten | `[]NoJobForgotten` | `Owned`: a running row has the worker, or the process is down or about to recover; `NoLostWake`: a queued row finds the worker awake or about to be woken |
| BudgetHolds | `[]AttemptBudget` | `Budgeted` |
| CancellationWins | `CancelWins` | of the store's rows; `Cancelling` ties the registered event to the flag |
| AccountsAreHonest | `[]HonestAccounts` | `Accounts`: the counters are the cardinalities of what is stored, transaction by transaction, except for jobs in `late`; with it BudgetHolds and CompletionIsHonest |
| CompletionIsHonest | `[]HonestCompletion` | `Accounts`: between the count and `finish` a "completed" reply goes with no failure, except for `late` jobs |

`ManagerInv` is `ManagerTypeOK`, `Owned`, `Budgeted`, `Cancelling`, `Deciding`, `NoLostWake` and
`QueuedCanRun`. `Owned` alone is not inductive: recovery must not be skipped while a row runs without
an owner, which is why it says where the worker may be then; `Deciding` carries what `_final_result`
decided through the three transactions it takes. Because the manager implements `StoreSpec`, the
theorems about the store hold of the service, crashes, faults and abandoned calls included.

### Paging: also in `CrawlJobStoreProofs`

`PagesInvariant`, and from it PagesComeInOrder (`PagesInOrder`), CompleteIsFinal (`CompleteIsWhole`),
CursorsStayValid (`CursorStaysValid`); PagesUseTheStore says that the whole is a use of the store
(`PagesSpec => StoreSpec /\ ResultsAppendOnly`). The invariant adds to the types what a request that
is between two SELECTs may rely on: results are all there ever was until retention removes them, and a job
that has ended had no more of them then (`Recorded`), a job nobody started has none (`Unborn`), the client has
a prefix of them (`Place`), a terminal verdict once read stays and a count once read is not above what is
stored (`Seen`), and what was told stays true (`Told`).

### Refreshes: `FetchRefreshProofs`

LocksAreLive, AnswersAreHonest, RefreshesGoForward (an action property), RetentionIsKept and
OneAlarmAChange prove all five properties of the run `cache_refresh`. The invariant `RefreshInv`
relates tasks to the cache: a lock is held by the task that refreshes its key (`Exclusive`); what a task
carries is as old as it says (`Informed`), what is stored or abandoned is honest about its dates
(`Kept`), nobody about to write saw the site before the record did (`Forward`), a watch that reports saw
the change (`Watchful`), and after a report the target is expected again only at a newer version
(`Alarmed`, which needs the order of tasks on one key that `Exclusive` gives). That the retention task does
not sleep past a deadline is proved beside it (`RetentionNotSlept`).

### Gates and pacing: `RequestGatesProofs`, `PolitenessProofs`

PermitsAreKept (`PermitsKept`) and NothingStaysBehind (`NothingGoesOn`) rest on one predicate, `Sound`,
that says of a semaphore who queues, who was handed a permit and who holds one, and that these with the
free ones add up; lemmas say what acquiring, releasing, granting and leaving do to a sound semaphore,
wherever in the queue the one that leaves stands. `GatesInv` is `Sound` for the route's pool, the process
and each known host, that a task refers to the registered semaphore of its host (`Referring`), that a
registered one is somebody's and of one host (`Registering`: this is what makes forgetting and remaking
it harmless), and that the tasks of an answered request are done or doomed (`Ending`).

SpacingHonoured (`NeverTooEarly`) rests on `Remembered`: what was agreed for a host and has been forgotten
is over.

### A crawl: `SiteCrawlProofs`

PagesComeOnce (`OncePerPage`) and RefusalsHold (`RobotsRespected`), for any site, scope, sitemaps,
redirects and limits. `CrawlInv` says, besides types: the index and the queue of the frontier name
records; a record that waits may be fetched, by the robots file that was read for it (`SiteOK`); every page
delivered has its key settled as fetched (`Fetched`), which is what `reconcile_final` looks at before a second
delivery. Two orders carry it through the operators of the frontier: `WaitStill` and `WaitAs` (what waits
waited before, or is the address just checked), and `Keeps` (a robots file once read and a page once fetched
stay so). That addresses are admitted one after the other, in whatever order, is an induction over the
numbers of a recursive function. The theorems that take an operator as a parameter cannot be used, so
`SetInduction` states induction for a set of numbers and gets it from the well-foundedness of strict
inclusion of finite sets.

RecordsAreSettled (`EveryRecordSettled`) says that an operation that ran to its end has handed over each
page it fetched and each page it lost, once, and leaves nobody waiting. It rests on `Accounts`: as long as
the operation runs, as many results as records are fetched, as many failures as records failed and
are no double, and every record that waits is in the queue or is the one in hand (`Balanced`). Three lemma
shapes carry it through the frontier: a step that is `Calm` settles nothing that counts (admission, a
merge, a redirect that makes a double), `SettlesOne` settles one record that waited, and what is
queued stays queued until it is popped. A cancellation or a refused seed owes nothing, which is why the
property speaks of operations that ran through.

### A search: `SearchProofs`

| theorem | property | argument |
|---|---|---|
| EvidenceStaysFaithful | `EvidenceIsFaithful` | a chunk is verbatim only after `_exact_span` found it (`Genuine`), and comes from a page that is left (`FromPage`); cutting it keeps both or drops the span; a citation is found again by its document, and a page of raw Markdown by the source of its citation |
| BudgetsStay | `BudgetsHold` | of each loop with a budget (bounding evidence, assembling, raw Markdown): what is kept so far weighs what the counter says and is within the limit |
| StatsStayTrue | `StatsAddUp` | of each stage: the two counters of what goes on and what does not add up to what came in (`Counts`); with room for all, no step of the assembly cuts or skips (`FullServes`) |
| ReasonStaysTrue | `ReasonIsTrue` | `NoPages`, `Nothing` and `Reasons`: where a stage leaves nothing, the counters say so |
| SelectionStaysSound | `SelectionIsSound` | of each of the three passes: who is not picked had no room, or its domain had none; candidates have different keys because merging keeps one result of each |
| NoSourceStaysOut | `NoSourceIsCrowdedOut` | the best chunks of the sources come first in the queue of the prefilter, so the first `MaxCandidates` hold one of each |

`SearchTypes` says what each variable holds and from which stage on: pages that came from an address that
was asked for, chunks that come from these pages, a selection of different addresses within the
limit. `Counts` and `AnswersWell` are proved together, since what the answer counts is what the stages
counted before. The theorems hold for whatever `Searches` contains: any number of subqueries, results,
pages, chunks and batches, any scores and lengths, any limits, services that fail or answer partly.

The loops of the code are recursive functions over the items. The library's induction theorems cannot be
instantiated, so a lemma on a loop names the values that are wanted as a set, which `LoopStays` (from
`SetInduction`, as in the crawl) shows to be kept by every step. A sort is an order of the positions; that
the k-th of a finite strict order exists and is one (`Nth`), and that a sorted or filtered sequence has
the items it should have, is proved once for all sorts and filters.

### The structured part of a page: `ContentProofs`

| theorem | property | argument |
|---|---|---|
| NothingStaysLost | `NothingIsLost` | of the links, and of the cells, seen so far each is kept, counted as omitted, or in a draft that is open (`LinksOK`, `CellsOK`); when the page ends nothing is open. In a block within the limits of `_json_ld_nodes` the nodes looked at are all there are, and each document among them is kept or marks the whole truncated |
| ExtractionsStaySound | `ExtractionsAreSound` | an extraction is from the HTML (`FromHtml`), or from the model and then `Proven` or `Refused`; trimming keeps both |

They hold for any page, that is, any sequence of tokens and any JSON-LD blocks, any request, any answers of
the model, any limits and any budget of the response. `StructuredInv` is the invariant. What makes it
inductive is the account of the drafts: an open row holds cells that count in `cells` though no table has
them yet (`Kept`), an open cell has been seen and counts nowhere (`Open`), and a link is waiting or will
never count, by its address (`Waiting`). Tables may be nested and their tags unbalanced, so each lemma on
an end tag says what happens to the innermost draft and leaves the sums of the others alone. Two facts about
time belong to it: what is open began before the token that is read, so a span ends behind its start; and
nothing is open but while the page is read. `TrimmedKeeps` moves items from what is there to
what is counted, one row at a time, and refuses data as a whole.

A sum is the cardinality of a set of pairs (`SumOf`), so that its lemmas (`SumOfOneMore`, `WeighItems`) are
about finite sets; a loop is a function over the positions (`Looped`), and `LoopRuns` and `LoopLeads` carry
an invariant through it. What `Verdict` counts is proved finite first, since no failure is counted only if
the set of failures is empty and not if it is infinite.

### What the proofs assume

The named assumptions of the modules, which TLC evaluates in every run. Those that are not plain
typing:

* `StoreConstants`: identifiers are naturals (ORDER BY job_id), NULL is no claim or fingerprint, the
  budget and the two retentions are positive (the settings refuse 0).
* `CacheConstants`: retention covers the lifetime and the stale window (the settings validate it); None is
  no number, record or snapshot (`NoneIsNoValue`).
* `FetchConstants`: requests and background refreshes are different slots.
* `GateConstants`: the tasks of all requests together are finite (a request names finitely many addresses).
* `PoliteConstants`: a Retry-After is cut to the cooldown's maximum.
* `SiteConstants`, `PolicyConstants`: the seed is an address; at least one address may be discovered.
* `SearchConstants` and those of Discovery and Evidence: requests and answers are of the shapes the
  clients let through (`RequestOK`, `AnswersOK`): budgets are positive (the request models and the settings refuse 0), a
  span counts as found only if the text there is the chunk's, a failed fetch is not coded as content. The
  engines of the provider are finitely many, and None is no chunk, address or set of domains.
* `JobsAreRequests`, `RepliesAreObjects`: requests name known formats and types (a schema of type null is
  refused, `schema_contract.py:23`), and a model's answer that was parsed is a finite object.
  `NilIsNoValue`: None is neither a cell nor a row.

### What is only model-checked

* Liveness (`JobSettles`, `EveryRequestAnswered`, `Finishes`): fairness and ENABLED are beyond the prover.
* `CompletedIsClosed` of the crawl: its invariant, what each key of the frontier became, is not yet stated
  for redirects, which move a key from one record to another.
* `ChunksAreVerbatim` and `GroupsAreBest` are about what mutually recursive definitions compute from
  an arbitrary text. `GroupsAreBest` compares a dynamic program with all groupings: its proof is an induction
  over the segments for a recursive definition with two arguments, and needs the additivity of the reward
  over them.

## Not modelled

* **In the modelled components.** Schema creation, migration and quarantine of the databases;
  failure summaries, warnings and texts; the scoping of a read by tenant; the admission slot of the job API
  and the cryptography of the cursor; the health flag `_store_available`; the parsing of robots files,
  sitemaps and HTML targets, whose verdicts are inputs; how scores, lexical matches and noise are computed
  from text; HTTP exchanges below one request and one answer; batching of embeddings; enumerations,
  nesting and descriptions in extraction schemas; `asyncio.gather` over the
  cached pages of one request (`fetch_pipeline.py:1191`), which hands a cancellation on to every fetch but would leave
  the others running if one raised; the segment
  of the chunker that is not found in the text and loses its span (`cluster_semantic.py:203`), and segment sizes of
  0 or less, which the service accepts (`strategies.py:38`), with which `_force_split_by_size` does not end and
  which `ChunkingConstants` excludes. A redirected page that succeeds under its final address
  in one attempt and fails under its requested one in the next keeps both outcomes, because the store
  cannot know that they are one page; `OneOutcomePerPage` is a statement per key.
* **Egress proxy**: a relay of bytes whose only state is a connection. **URL identity and safety**, **text
  conversion**: pure functions on characters. **MCP server and adapters**: stateless translation.
  **CLI and deployment**: interactive, around docker compose. **Settings, observability**: no state.

## Plan

1. **Chunking**: `ChunksAreVerbatim`, after the loops of the splitter are written with `Looped` of
   Loops, whose lemmas then serve it too.
2. **SiteCrawl**: `CompletedIsClosed`, with a relation between frontiers that says what became of each key
   (known, settled, refused or cancelled) beside `Keeps` and `Calm`.
3. **Politeness, CrawlJobs, RequestGates, ResultPages, FetchRefresh, SearchPipeline, StructuredFetch**: no
   property of their runs is left but liveness.
