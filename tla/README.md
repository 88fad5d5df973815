# A TLA+ verification of D-Eye

D-Eye (`src/deye`) is a local research tool: a router picks connectors that fetch
web sources, the results become evidence packets in SQLite, and a small backend
(job queue, event bus, object store, users, usage meter) and a set of lifecycle
commands surround that core. It runs as a CLI, as MCP servers and as a library, so
several processes share one `DEYE_HOME`, and threads share one router.

This directory holds TLA+ modules that model the parts of D-Eye whose correctness
depends on the order of events, TLC configurations that check them on small
instances, and proofs, checked by TLAPS, that all the safety properties these
configurations check hold for every value of the constants. `PROJECT.json` lists the components, runs, mutants, theorems, hazards and
findings, and maps each definition to the source lines it translates.

## 1. The system: parts, state, interactions

| Part | State | Operations | What is hard | What must hold |
|---|---|---|---|---|
| `backend.Queue` | `jobs` table in `queue.db`, one connection per call, WAL, autocommit | `enqueue`, `claim`, `complete`, `stats` | concurrent claims; crash in a transaction; late `complete` | a job is delivered once, in FIFO order, within the tenant; nothing starves |
| `backend.events.EventBus` | subscriber lists in memory; jobs in the queue | `subscribe`, `unsubscribe`, `dispatch` | handlers that raise or change the list; workers polling the same job; crash | the verdict of a job is that of its handlers; no event stays pending |
| `core.router.Router` (with `registry`, `policy.ConsentPolicy`, `backend.usage`) | a `_Breaker` per connector, audit list, meter | `route`, `route_named`, `health_all` | late answers, cool-off, breakers without a lock, threads past an open gate, a failing meter | consent is never bypassed; breakers fill up only by as many charges as the threshold; fallback is exhaustive |
| `research.multi_source` | a packet and an error dict per search | `multi_source_search` | completion order, failures in the pool | each source is accounted for once; the search ends |
| `connectors.base`, `core.policy` | none | `safe_get`, `safe_post` | DNS that changes between check and connect, redirects, retries on other addresses, caps, decompression | every connection goes to a vetted address; traffic is bounded; a cut body is reported |
| `connectors.*` | none | `health`, `run` | requests made for another candidate; services that fail, or answer with an error object | a request made for another candidate is no failure of the service |
| `connectors.youtube` (captions) | none | two routes to one text | a shortfall of one route at any of its fetches | "no captions" only after both routes |
| `app`, `mcp_server` | none | `research`, `fetch`, `query_evidence` | a fetch or the store failing half way | each picked page is in the packet or among the warnings |
| `core.evidence.EvidenceStore` | `packets`, `sources` in `evidence.db` | `record_packet`, `query`, `changed_since`, `stats`, `delete_tenant`, `export_tenant`, migration on open | transactions against multi-statement reads; two processes migrating | no orphans, exports take a packet whole |
| `core.quality` | none | scores, `deduplicate`, `change_monitor` | overlapping clusters | every dropped row is represented by a kept one |
| `research` (full text, answers), `app.semantic_answer` | indexes built for a question | fast, deep, answer, semantic mode | the corpus changes between the two reads of a question | citations are the caller's rows |
| `backend.ObjectStore` | one file per SHA-256 | `put`, `get`, `delete` | crash or full disk in a write, check-then-act races | what is stored is whole |
| `backend.AuthStore`, `RBAC`, `Lifecycle` | `users`, `sessions` | users, tokens, roles, tenant filter, export and deletion of a tenant | expiry and revocation between check and use; two databases without a common transaction | dead tokens stay dead; answers stay in the tenant |
| `lifecycle` | the files under `DEYE_HOME`, archives | backup, restore, update, rollback, uninstall, portable config | crash between steps, concurrent writers | nothing is removed that is not backed up |
| `init_claude` | a client's config file and its backups | merge an entry | backup names, unreadable file | the original can be recovered |
| `browser` | Playwright handles, profile directories | session, read and write methods | any call into Playwright may raise | handles are released |
| `release` | files of a bundle | manifest, sign, verify | steps interleaved with changes | a verdict is right about the bundle |
| `core.graph` | graph of claims | build, contradictions | (pure) | |
| `cli`, `remote`, `skills` | none | wire the parts together | | |

Interactions. `EventBus.dispatch` calls `Queue.enqueue` before and `Queue.complete`
after its handlers, while workers in other processes call `claim` on the same
database. `multi_source_search` runs `Router.route_named` in a thread pool, so all
its threads share the breakers, the meter and the audit list. Connectors reach the
network through `safe_get` and `safe_post` only. `app.research` searches and
fetches through the router and stores its packet with `EvidenceStore.record_packet`,
which opens a connection and so may migrate the database; `query_evidence` and the
offline modes read it. `Lifecycle.delete_tenant` deletes from the queue database
while workers hold claims on the deleted jobs. Backups, restores and an uninstall
walk the files that all the others write.

## 2. Modules

### The queue and its users

**JobTable** has the rows and statements of the `jobs` table as operators: the
`_CLAIM_SQL` selection (`Matches`, `IsOldest`), the two UPDATEs (`Claimed`,
`Settled`), the DELETE (`Purged`). Payloads, timestamps and error texts are left
out; nothing in the queue reads them.

**JobQueue** is the abstract queue: each operation is one step. A worker holds the
receipt that `claim` returned until its `complete`. `orphans` is a history variable:
jobs whose worker died. The code has no lease, so they stay `in_flight`.

**QueueSql** is the queue as the code runs it: `BEGIN IMMEDIATE`, `SELECT`, `UPDATE`,
`COMMIT` or `ROLLBACK` are separate steps, writes become visible at `COMMIT`, one
connection at a time holds the write lock, and a process that dies loses its open
transaction. `ImplementsJobQueue` says that it implements JobQueue, with
`held` mapped to `HeldBar`: a worker holds its receipt once the COMMIT has happened.
`DeliveredOnce` is stated here, where two claims can interleave between their statements.

**EventBus** extends JobQueue: dispatch threads enqueue, walk a snapshot of the
subscribers and complete; a worker polls the same queue; both may die. The queue's
operations are atomic here, which is what QueueSql justifies. `audience` and `log`
are history variables (who was to be called, who was called).

### Routing

**Router** models `route` and `route_named` over any registry. A `_Breaker` is the pair
the code keeps (`failures`, `opened_at`), has no lock, and is shared by threads, so each
read and each write of one of its fields is a step: `is_open()` reads the count
(`LookClosed`, `LookFull`), then the stamp (`StayOpen`, `CoolDown`), then clears the count
(`Reset`); `record(True)` is one assignment (`RunOk`); `record(False)` reads the count
(`Load`), writes one more (`Store`), reads it again (`TestBelow`, `TestFull`) and stamps the
breaker with a time read before (`Stamp`). What touches no breaker is part of the
neighbouring step: consent, factory, the usage log, and `health()`, whose answer is fixed
for each built-in connector (`usable`). When the log raises after `record(True)`
(`RunOkMeterFails`), the `record(False)` of the `except` clause follows in later steps, and
other threads move in between. The sort of `for_capability()` is given by rank: the k-th
candidate is the one that k - 1 others come before (`Before`, `Position`). The threshold,
3 in the code, is any number above 1. The usage meter is reduced to whether `record()`
raises. The audit list is written only, and left out; `trail` is the history of what became
of each candidate, and `ledger` that of each breaker: what it was charged with (`own`,
`lent` to the usage log), how often it was cleared while a charge was under way (`met`),
how many threads it let through since it was cleared (`passes`), and how many increments
were overwritten (`lost`).

**MultiSource** extends Router with the fan-out: a queue of submitted candidates,
pool threads that run `route_named`, and `Collect` for `as_completed`. A candidate is
a position in the list of capabilities and one in the registry, since a capability
named twice is asked twice (`Times`). It starts from
a router that earlier searches may have used (`MaybeFailed`).

**Catalogue** has the registry that `app.build_registry` builds: each built-in
connector with its capability and preference (`BuiltIn`), which requests its `run()`
takes to the network (a request is a capability, the key it carries and where it
points), which it turns down with an exception, and what it makes of the answers of
its service. A breaker is only its count of failures here; `faults` is the history of
the failures that were the service's. Its one run shows a finding (section 5); that an
answer is about what was asked is not stated, as what is parsed out of it is not modelled.

### Fetching and evidence

**SafeFetch** is one call of `safe_get` or `safe_post`: the policy vets the URL and
resolves the host once, the vetted addresses are tried in order, redirects are vetted
again, the body is read up to the cap and decompressed up to the cap. The name
service is the other actor; it changes its answers at any moment (`Rebind`).

**Transcript** is `YouTubeTranscript.run`: two routes with two fetches each, any of
which may raise; choice of the track by language and kind.

**Research** has clients that run `research()`, `fetch` and `query_evidence`. Every
routed request may fail, and so may the store.

**EvidenceStore** has `record_packet` and `delete_tenant` as transactions (begin,
one step per inserted source, commit, or rollback at any point) and `export_tenant`
as the separate SELECTs it is. `recorded` is the history of what each packet was
stored with.

**EvidenceMigration** is `EvidenceStore._conn` statement by statement: each CREATE TABLE,
each look at `table_info`, each `ALTER`, each CREATE INDEX of a tenant column is a step. The statements run in
autocommit mode (`executescript` commits first, DDL opens no transaction), so other
processes interleave and a crash leaves a half migrated database.

**Dedup** is `deduplicate()`: three passes over one list, the third turn by turn,
because similarity is not transitive and the loop's order decides the outcome. A row
is its normalised URL, its hash and its shingles (`Norm` and `Hash` are the keys of the
two dictionaries; a URL whose port cannot be read, `BadPort`, makes the call raise); `Similar` computes the Jaccard
comparison as a comparison of products.

**Answers** has the offline modes and the semantic answer: index or hits from the
rows of all tenants, then the rows of the caller's tenant, then the snippets; packets
are added and tenants deleted in between. The index matches a row by its text and by its
other columns (`label`: URL, connector, hash), the extraction by its text only. Both reads
have a limit and take the youngest rows (`IndexRows`, 200 or 5000 in the code, and
`ReadRows`). Ranking is left open: any order is allowed.

### State on this machine

**HomeLifecycle** is `deye.lifecycle`, file operation by file operation, on the files
of `DEYE_HOME`, its archives and the installed package: `backup_home`, `restore_home`,
`uninstall`, portable import and export, `setup`, `apply_update` (only that pip may install
something; the report is left out, see section 5). The commands of `Creating` make
the home when there is none. Other processes write and delete data files in between, and a command may die anywhere. Archives are
named by the second they are made in. The order in which `rmtree` removes files is open.

**DesktopConfig** is `write_desktop_config`: read, merge, copy to a backup named by the
second, write in place; runs overlap and die.

**Access** has `AuthStore`, `RBAC` and the backend's `Lifecycle`: tokens are issued for any
user id, existing or not, as `issue_token` does; clients present a token, are resolved, authorised and answered, while time passes, tokens are revoked
and tenants deleted between these steps.

**BrowserSession** is a `with BrowserAdapter(...)` block: acquisition, methods with
their consent gate, close in reverse order; each call into Playwright may raise.
`open` is what is open, `held` what the attributes still name.

**ReleaseBundle** has the manifest, the signature and the verification of a bundle, each
reading the directory file by file while the bundle changes or the signer dies. An
artifact is a path; those that `build_manifest` passes over by their last component, at
any depth (`Excluded`), are neither hashed nor checked, and `VerdictIsExact` speaks of
the others.

**ObjectStore** has the file system calls of `put` (exists, open with truncation,
write), `get` (exists, read) and `delete` (exists, unlink). `inode` tells whether the
path still names the file a writer has opened. `write_bytes` is one write.

### Instances and variants

Modules named `MC...` give the constants of a specification their values. Two of
them are sums of components that do not share state: **MCLocalState** (HomeLifecycle,
DesktopConfig, Access, BrowserSession, ReleaseBundle, ObjectStore) and
**MCEvidencePipeline** (SafeFetch, Transcript, Research, EvidenceStore,
EvidenceMigration, Dedup, Answers). A behaviour of a sum is one of a single
component, chosen in the initial state (`part`, `stageRun`); the variables of the
others stay at one initial value. So a sum has every behaviour of each component
and no others, and a property of one component is checked on all of its behaviours.

Operators with the comment "Faulty variant" or "..., had it ..." are mutations of the
definition that follows them, used to show that a property depends on the code
(section 6).

## 3. Runs, bounds and what they show

| Run | Instance | States | Shows |
|---|---|---|---|
| `queue_sql` | 2 workers, 2 topics, 2 tenants, 3 jobs, 1 crash | 57 k | refinement to the atomic queue, no job to two workers, stable selections, FIFO order, isolation, progress |
| `event_bus` | 2 dispatchers, 1 worker, 2 handlers (both may raise, one nameless), 2 jobs | 429 k | verdicts, single calls, in-flight rows, progress |
| `router` | 2 threads with 2 calls each, 4 connectors (one write, one unusable, one without factory), a usage log that may raise, threshold 2, cool-off 1, 3 instants | 1.7 M | consent, breaker, fallback |
| `multi_source` | 2 pool threads, 6 manifests in 2 capabilities, failing meter | 50 k | accounting, termination |
| `evidence_pipeline` | below | 364 k | fetch, captions, research, evidence, migration, deduplication, answers |
| `local_state` | below | 840 k | home, Claude config, access, browser, release, objects |
| `event_bus_replay`, `event_bus_nameless`, `object_store_crash`, `uninstall_race`, `healthy_backend_skipped`, `fetch_not_stored` | smaller instances of the same modules | small | the findings of section 5 |

Instances of `evidence_pipeline`: a fetch of one host with three addresses, two of
them public, two rebinds, one redirect, a cap of one unit and bodies of up to three;
videos of up to two tracks in three languages; two clients with one tool call each over two
pages; two writers, one reader and two packets of up to two sources; two openers with
two crashes from every starting schema; lists of three rows; a corpus of two rows, two
sites, two tenants, two terms.

Instances of `local_state`: two lifecycle commands over a config file and the data
files of `MCHomeLifecycle`, two seconds, one write by others, one crash; two overlapping
config runs, one death; one client, one token, two users of two tenants, three
instants; a browser session with two method calls; a bundle of two files and one in a
subdirectory that is named like the public key, with two keys, one change, three calls; three processes on one object, with one crash or failed
write.

Why the bounds are enough for what is asked. Claim races need two claiming
workers and a job; three jobs of two tenants and topics let a filtered worker pass
over jobs and let ids be compared. The reuse of an id needs a claim, a deletion and
another enqueue: three jobs. The breaker's hazards need as many failures as the
threshold plus one late answer, and time to pass the cool-off once; the threshold
is 2 instead of 3 and the cool-off one tick instead of 30 seconds, which keeps both
comparisons and their boundaries. Two threads are enough to lose an increment, to clear a
count that another is about to write back, and to stamp late. A stale check needs an answer that was vetted
and a different one at the connect, at the first hop or after a redirect: two rebinds,
one redirect. Truncation needs a body at, one over, and well
over the cap. A torn export needs one packet with two sources and a delete between
the reads. A chain of clusters across three passes needs three rows. A question is
disturbed by one insertion or one deletion between its two reads. Two seconds tell
backups with the same name from those with different ones. One file that is there
before a command and one written during it decide every backup property. Objects do
not interact, so one is enough; a stump needs an opening process, a writing one and
a deleting one.

Every bound is a constant: the constants whose names start with `Max` or `Last`, and
the sizes of the sets. In `MCLocalState` the two commands are interchangeable
(`SYMMETRY Twins`); the run has no liveness property, so this is sound. Deadlock is
checked where the system has always something to do. `CHECK_DEADLOCK FALSE` is used
in the other configurations, whose systems stop when the bounded calls, files or
jobs are used up, or because a search, a question or a session is over.

Fairness.
 - `queue_sql`: a live process takes the next step of a transaction it has begun
   (weak fairness on its statements), and eventually gets the write lock when it
   tries again and again (strong fairness on `BEGIN IMMEDIATE` and on the single
   UPDATE of `complete`): SQLite's busy handler retries, the lock is held for one
   short transaction, and a worker that is turned away polls again. A claimed job is
   eventually completed by a live worker. Nothing is assumed of enqueuers,
   administrators' next deletions or crashes.
 - `event_bus`: a live dispatch thread goes on, a live worker keeps polling (weak).
 - `multi_source`: pool threads run, and `run()` ends because every request has a
   timeout (`Limits.timeout_seconds`), hence weak fairness on each thread.
 - `evidence_pipeline`, migration: callers come back after a failed open, as every
   tool call opens a connection of its own (weak fairness on each opener's next step).
   The other stages have no liveness property and no fairness.

Type invariants are proved (section 4), so the configurations list the properties that
relate several pieces of state.

## 4. Proofs

Every invariant and every action property of a passing run is stated by a theorem, for
every value of the constants that satisfies the named assumptions of the modules, and
so is the refinement of the queue. Each component has one inductive invariant that
holds initially, is kept by each action (one lemma per action, one step per conjunct
the action can disturb) and implies the properties. The four liveness properties
(`EveryJobSettles`, `EventSettles`, `FanOutEnds`, `OpenSucceedsInTheEnd`) are out of the
prover's reach and are checked by TLC only. No module that the proofs use has a
recursive operator.

Assumptions. Bounds are natural numbers, sentinels (`None`, `Nobody`, `Absent`, ...) are not
members of the sets they mark, and sequences given as constants are sequences. Beyond
that: threads are finitely many and the breaker's threshold is above 1
(`RouterAssumption`); grams and terms are finite sets and the overlap threshold is a
fraction between 0 and 1 (`DedupAssumption`); the reader asks for at least one snippet
(`AnswersAssumption`); English is one of the languages (`TranscriptAssumption`).

### The queue: `JobQueueProofs`, `QueueSqlProofs`

The five invariants of the abstract queue follow from `IndInv`, the type invariant
with the `Ledger`: ids from `nextId` on have no row; a row was claimed once exactly if
it is not pending; a held receipt has a used id, is the only one with it, agrees with
its row if the row is still there, and its holder has not died; every in-flight row has
a holder or is orphaned.

At SQL level `IndInv` adds that a transaction is open exactly while its process holds
the lock (`OneWriter`), that what was selected stays the oldest match until the commit
(`SelectionStable`: every other action that writes `jobs` needs the lock to be free), and
that a working process has a receipt. `JobsReachOneWorker` needs `OnceInv`: a row that was
handed out is never pending again, and a pending one was never claimed (`HandedOut`), so
the COMMIT of a claim, whose selection is stable and pending, hands out a new
job. `ClaimsOldestFirst` is an action property on top
of it. `TenantsIsolated` needs `TenantInv`: ids are handed out once (`IdsIssued`), so that
the row a worker holds is its tenant's or gone, never a later job's with that id.
`SqlImplementsQueue` maps initial states to initial states and each step to a step
of JobQueue or a stutter (the COMMIT of a claim is `Claim`, that of a deletion
`DeleteTenant`, the death of a working process `Crash`).

### The event bus: `EventBusProofs`

The bus extends the queue, but a dispatch completes jobs that were never claimed, so the
queue's own invariant is not inductive here: `QueueInv` distinguishes rows by the number
of claims only. `BusInv` adds that each dispatch in progress has a job of its own
(`OwnJobs`), that it stands between the part of the audience that has been called and
the part to call, with an error exactly if one has raised (`InProgress`, `Halfway`), and
that audiences have no repetitions. From it follow `VerdictAlwaysEarned`,
`HandlersCalledOnce`, and the abstract queue's `DeliveredOnce` and `InFlightAccounted` for
the bus.

### Routing: `RouterProofs`

`Before` is a total order on the matching connectors, so each rank is taken exactly once
and `CandidatesInOrder` holds for any registry. `RouterInv` says of each call that
what it tried and what is left are its candidate list and that a running one passed
the gate (`Calling`), and of each breaker (`Accounts`) that neither its count nor a count
that a thread has read and will write back exceeds what was charged (`ChainCounted`), that
the charges of the usage log are paid for by clearings (`LogCounted`), and that a thread
that was let through is in the count, among the lost increments or still on its way
(`PassesCounted`). The passes are therefore bounded by the threshold plus the other threads
plus the lost increments (`HammeringAlwaysBounded`), which needs cardinalities of sets
of threads; the bound is reached. `FanInv` keeps `RouterInv` under the steps of `multi_source_search`
(`FanOutRoutes`) and adds the balance `SourceAccounted`: envelopes, waiting candidates
and running calls of a connector add up to the times it is asked, or to less once
it is among the errors.

### Evidence: `EvidenceProofs`

`StoreInv`: counters run ahead of all rows, each recorded packet is whole, the rows of an
open transaction are those of its packet and not visible, and an export knows recorded
packets only; with it `NoOrphans` and `ExportAllOrNothing` hold under all interleavings.
`MigrationInv`: an opener that is past a statement of `_conn` finds what that statement
makes (`TablesExist`, `PacketsMigrated`, `SourcesMigrated`, `IndexedWhenOpen`), whoever made
it, because no statement ever takes something away. `AnswersInv`: the rows
at hand are the caller's, and in the corpus unless their tenant has been deleted.

### Fetching, reading and collecting: `RetrievalProofs`

`FetchInv`: the untried addresses of a hop are public (`UntriedVetted`), hops count up,
and earlier attempts have smaller addresses or smaller hops. `TranscriptInv`: which
routes have come to nothing at each stage; `ChoiceHonours` is the order of preference of
the caption tracks. `DedupInv`: a row is dropped in one cluster that it does not head, and rows kept apart
by the passes so far are unlike (`KeptApart`, up to the turn of the third pass), for any
similarity, transitive or not. `ResearchInv`: the packet and the warnings are the picked
pages already fetched, in order (`Collected`), and what is in the store is dated by a
client's call.

### State on this machine: `LocalStateProofs`, `HomeProofs`

`AccessInv`: a dead token has no session or one the clock has left behind; a request
presented late is stuck before the expiry check, which it cannot pass any more; the
row a request has read is a user's, who is its principal. `BrowserInv`: handles that `close` has
passed are closed or stuck, and a page is open only inside a method. `ObjectInv`
counts files: deleted plus existing are at most the created ones. `DesktopInv` counts the
copies under way per second; as long as there is one per second, a complete backup
stays, and no run reaches its write before there is one. `ReleaseInv` ties the
verifier's partial verdict to the files it has passed, without the excluded ones.

`HomeInv` has seven statements about each command by itself (`Own`: what it has staged,
put in its archive, watched, removed, restored, merged) and one about two
commands (`NoRival`: who shares the archive that another one is filling knows of
it). Each action of one command leaves the statements of the others alone
unless it writes what they watch, and then it is in their `touched` set.

### What the proofs changed

 - `ImportKeepsOtherKeys` was false beyond the run's bounds: an export made without a
   configuration, imported where there is none and imported again, changes the default
   the first import wrote. It now says what a merge keeps of the configuration it
   reads.
 - `EverySourceAccounted` was false when a capability is named twice: the connector is
   asked twice. It counts the times.
 - `OpenIsAccounted` and `HammeringBounded` are false as one would first write them ("at
   most one of the failures is the usage log's", "at most the threshold plus the other
   threads"): section 5. What holds counts the clearings that met a charge, and the lost
   increments. The threshold has to be above 1.
 - Candidate lists, exports, deduplication and the picked pages are stated by position or
   by key instead of by folds over sequences.

## 5. Findings

 - **No replay** (`event_bus_replay`). `EventBus` says that every dispatch persists a
   job so that a worker can re-play it; `dispatch` settles the job itself, and
   `claim` returns pending jobs only.
 - **Nameless handlers** (`event_bus_nameless`). "record + continue" fails for
   callables without `__name__`: the dispatch is aborted and the job left pending.
 - **Stumps** (`object_store_crash`). `put` writes in place and later trusts the
   existence of the file, so a write cut short is never repaired.
 - **Late writes are lost** (`uninstall_race`). `uninstall` "always backs up", but the
   backup is taken before pip runs, and `rmtree` removes what the home holds after it.
 - **Healthy backends are skipped** (`healthy_backend_skipped`). The breaker counts
   every exception of `run()`, also those a connector raises because the request was
   made for another candidate of the capability.
 - **A fetch is not stored** (`fetch_not_stored`). The web discovery skill tells its
   reader to confirm a fetch with `query_evidence`; `fetch` writes no evidence.

Behaviour that the models contain and no run judges:
 - Queue: in-flight jobs of dead workers stay in flight.
 - Router: `route_named` writes no audit line for an open breaker or an unhealthy connector.
   Metering happens inside the `try` that counts failures (`router.py:94`): an unwritable
   usage log drops the result and charges the backend. One thread alone charges at
   most once that way, since `record(True)` clears the count before; several threads may
   clear first and charge afterwards, and then the log alone opens the breaker of a
   backend that answered every time.
 - Breakers: `failures += 1` of two threads may count once (`router.py:37`), so that a
   backend that is down is run once more for each lost increment; a count that is cleared by
   a success may come back with the increment of a slower thread. A thread that reads
   a full count before `opened_at` is stamped (`router.py:38-39`) compares the clock with
   the stamp of an earlier opening, or with 0, and clears the breaker at once.
 - Fetching: HTTP status codes are not looked at, and a plain body that the peer cuts
   short is not noticed; a partial gzip stream carries no warning. A request whose
   answer is lost is sent again to the next address, a POST too.
 - Connectors: a failed feed URL is answered with the hot topics of `v2ex_feed`;
   `v2ex_fetch` reads an error object as a topic without a title; `"no public caption
   tracks"` is also said after a network failure; the second caption route reads the
   watch page although the module's docstring rules scraping it out.
 - Evidence: an export may list a packet without its sources when the tenant is
   deleted in between, and exports of the backend hold the packets of all tenants;
   one of two processes that migrate at once gets an OperationalError. Results of the
   reddit fallback search are not picked by `research()`; a search envelope's own page
   is cited; two URLs that redirect to one page are both cited. A canonical URL of one
   cluster may itself be dropped by a later pass.
 - Answers: "No supporting evidence found" can be said while a row matches, as only the
   five best-scored rows are looked at; `fast` and `deep` ignore the tenant, as does the
   evidence skill's `changes`.
 - Access: `issue_token` takes a user id that does not exist; a `service` is scoped to
   its tenant although the docstring of `scope_query` and the comment above the matrix
   (`backend/__init__.py:329-330`) say it sees everything. `AnswersScoped` is therefore
   stated for the role `user`, of which code and comments say the same.
 - Home: a torn `config.json` makes every command raise, restore included, since the
   configuration is loaded first; two backups of the same second share an archive; a
   backup that raises leaves a short but readable archive. The `previous_version` that
   `apply_update` reports, "so `rollback_to()` can restore it" (`lifecycle/__init__.py:320`),
   is the version of the running process (line 333): with `python=` it need not be
   what pip replaced in that interpreter, and after two updates in one process the second
   reports the version before the first.
 - Browser and release: a launch failure is reported as "playwright available"; files
   named like the manifest, its signature or the public key are left out of the manifest
   at any depth (`release.py:59`), so one that is added or changed in a subdirectory passes
   a verification whose docstring speaks of the whole bundle.
 - Objects: a reader may see the prefix of an object that is being written.

## 6. How the properties are tested

For each property of a passing run `PROJECT.json` names a mutant: a definition and a
faulty variant of it, such as a claim without `BEGIN IMMEDIATE`, ids that are reused,
a missing `ROLLBACK`, a `break` for a `continue`, a redirect that is not vetted, a
second clustering pass over dropped rows, a close that stops at the first error. With
the variant in place of the definition TLC finds the property violated, so none of
them holds whatever the code does.

## 7. Plan

Written so far, in this order: queue (JobTable, JobQueue, QueueSql and their
proofs), EventBus, Router, MultiSource, EvidenceStore, EvidenceMigration,
ObjectStore; then HomeLifecycle, DesktopConfig, Access, BrowserSession,
ReleaseBundle, SafeFetch, Transcript, Catalogue, Research, Dedup and Answers.

Proved, in this order: the queue at both levels, SafeFetch, Router, EventBus, the
evidence store and its migration, answers, access, browser, objects, desktop config,
release, the home, MultiSource, Transcript, Dedup, Research.

To come: an abstract evidence store with atomic
`record_packet` and `delete_tenant`, implemented by EvidenceStore; the change report of
`core.quality` as an operator against a reference.

## 8. Not modelled

The evidence graph is a pure function of rows in which everything depends on regular
expressions over sentences (which claims negate each other), so no small abstraction
keeps what matters. Scores are arithmetic over features of text. Provenance records,
redaction, logs, metrics, SBOMs and changelogs format text. Browser profiles are single
directory operations. Argument parsing, the bearer check of the HTTP server and the
skill wrappers have no order of events to check; the commands and skills that do more
are modelled with the components they drive. Passwords and signatures are library
functions. Busy timeouts appear as steps that change nothing: an operation that gives
up raises and leaves the database as it was. Build and audit scripts are not part of
the running program. Parsing of what services answer is left out: what a connector
does with an answer is modelled by whether it raises or returns.
