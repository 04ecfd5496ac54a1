# Formal models of the Hearthstone data service

TLA+ modules about the parts of this repository where processes overlap, die,
retry, run against a limit or are overtaken by a change of policy: publication
of datasets, refreshes and their routes, paid providers, recovery chains, the
run queue, the scheduled jobs and the synchronisation of the control panel. TLC
checks small instances of all of them; TLAPS proves the safety properties of the
central ones for every value of their constants.

    tlc -workers 2 -config DatasetPublication_crash.cfg MCDatasetPublication
    tlapm DatasetPublicationProofs.tla

`PROJECT.json` lists the components with their status, the runs, the mutants,
the hazards at their lines, the theorems, and for every definition the lines of
the code it models.

## 1. The system

About forty systemd timers start short-lived processes (`docker compose run …
python -m app.…`) beside a long-running API server, a Trigger.dev task that
drives it, and a PHP control panel with scripts of its own. The processes share
no memory: they meet in files under the data directory (JSON replaced
atomically, guarded by `flock`), in SQLite databases (`BEGIN IMMEDIATE`), in
Redis and at the providers they pay. Nearly every hard behaviour is therefore an
interleaving of transactions of different processes, one of which may die
between two of them; within a process, asyncio tasks and thread pools add their
own.

| Component | State it keeps | Operations | Hard behaviour | What makes it correct |
|---|---|---|---|---|
| Protected publication channel (`app/dataset_publication_store.py`) | attempt control file, version records, manifest, mutable cache and status | number an attempt, publish, roll back, reconcile, repair at start | overlapping writers; crash between durable writes; lost files | manifest backed; newest attempt wins; copies converge |
| Refresh (`refresh_sources` of `app/fetcher.py`, `app/resource_locks.py`) | locks, results of its phases, datasets, statuses, telemetry | lock, preflight, fetch tier by tier, record, review, release | overlapping calls, held locks, broken phases, a refused proxy | exclusive fetches, complete accounting, the circuit holds |
| One fetch (`fetch_source`) and the provider cascade (`app/firecrawl_backend.py`) | route, candidate, trace | Firecrawl, API, legacy page, ParsesUnix, re-login, gates | fallbacks of fallbacks, refused accounts | paid at most once, refused stays refused, reported as it went |
| Post-patch policy, gates, validators (`app/post_patch_policy.py`, `app/publish_gate.py`, `app/source_validators.py`, …) | policy in the control file, baselines | capture, judge, save provisional or stable, keep a baseline | a policy that changes under a fetch, expiry, crash between baseline and dataset | stable readers get stable data that never goes back |
| Read APIs and caches (`app/public_cache.py`, `app/graphql_api/governance.py`, `app/redis_cache.py`) | entity tags, entries of two tiers, registered queries | 304, answer, cache, register a digest | tag and body read one after the other; Redis that stops answering; credentials | what is told was published; nothing private is shared |
| Database of snapshots and decks (`app/hsreplay_archetypes_db.py`, `app/hsreplay_bg_minions_db.py`, `app/db.py`) | runs, rows, exported files, decks | refresh, store, export, merge a dataset | partial runs, an export that fails, a file rewritten in place, two refreshes at once, decks of several sources | readers get whole snapshots, files too unless their write was disturbed; no dataset is refused |
| Reliability telemetry (`app/reliability_telemetry.py`) | rows of sources, runs | classify, record, record again, update, report | jobs taken up again, runs of one window, rows that were not written | the report adds up and hides nothing |
| API tokens (`app/api_token_limits.py`, `app/api_tokens.py`) | tokens, monthly usage, burst counters | issue, revoke, charge, book | revocation and month turn during a request; cancelled requests | quota and rate kept, the books add up |
| Bright Data ledger (`app/brightdata_state.py`), key pools (`app/scrapfly_keys.py`, `app/firecrawl_keys.py`) | month, bills, reservations, circuit; credits by key and period | reserve, finish; take a key, report, exhaust | dead workers, late answers, turn of the period | monthly limit on both sides; every credit counted; refused key stays out |
| HSReplay transport, browser rotation (`app/hsreplay_client.py`, `app/scrapers/rotator.py`) | snapshot locks, probe, circuit, budgets | ask through channel after channel | cancelled tasks, a probe that outlives its task | one fetch per snapshot, budget kept, attribution true |
| AI review (`app/ai_review.py`) | lanes, budgets, circuits, queued reviews | quarantine a candidate, review late | attempts that run out of budget or time | rejections backed, lanes bounded |
| Convergence (`app/convergence_store.py`, planner, worker, policy) | chains, attempts, leases, cursor | add a failure, reconcile, claim, finish | leases that end under a worker, sources added meanwhile | late answers decide nothing; attempts bounded; every chain settles |
| Parser control (`app/parser_control.py`), Trigger.dev task | runs, results, request ledger, worker thread | enqueue, deduplicate, execute, checkpoint, resume, cut the list | crash, failed write, lost answer | nothing executed twice, nothing lost, one run per request |
| Schedule ledger (`app/schedule_ledger.py`, `app/reliability_telemetry.py`) | windows, attempts, results | reconcile, claim, record, report | configuration changed inside a window | no slot invented or lost, verdicts final |
| Long runs (`app/hsguru_meta_matrix.py`, `app/hsguru_archetype_analysis.py`, `app/job_run.py`) | checkpoint, counters, dataset | discover, resume, fetch slices, publish, recover, join | deadlines, crashes, a matrix that changes | published whole, of one window; progress kept |
| Panel scripts (`panel/scripts/*.py`, `run_sync_job.sh`) | tables, hashes, pictures, memories, status file | sync pages, pictures, cards, run jobs | die before the commit, memory and file apart, two runs | changes told, memory true, one sync at a time |

How they interact: timers start refreshes; a refresh locks its sources, fetches
each through its route (and its route through providers with accounts, pools
and budgets), passes the gates under the policy it captured, and publishes: the
protected source through the publication channel, the others as dataset,
baseline and status files. It records terminal results; the schedule ledger
counts them, the planner turns failed ones into chains, and a worker repeats the
fetch as a recovery. The API server reads what is published, answers from its
caches, serves rollbacks, uploads and the administrator's runs. The panel's
scripts fill its tables from the wiki and the feeds.

The hard behaviours are listed under "hazards" in `PROJECT.json`, each with the
properties that would catch it.

## 2. The modules

| Module | Models | Checked in | Proved in |
|---|---|---|---|
| `DatasetPublication` | the publication channel with its callers | `MCDatasetPublication` | `DatasetPublicationProofs` |
| `PublishedDataset` | what the channel promises | same, as a refinement | same |
| `EarlyPublication` | publication of a patch-sensitive source: policy, gates, baseline, dataset, status | `MCPublicRead` | `PublicReadProofs` |
| `PublicRead` | entity tags and their clients | `MCPublicRead` | `PublicReadProofs` |
| `PublishRules`, `PublishGate` | contracts and validators over counts; the gate of a source over time | `MCPayloads`, `MCPublicRead` | `PublicReadProofs` (service) |
| `AnswerCache` | GraphQL answers and persisted queries in two cache tiers | `MCPublicRead` | `PublicReadProofs` |
| `SnapshotDatabase` | runs, snapshots and exports of archetypes and minions; the table of decks | `MCPayloads`, `MCPublicRead` | – |
| `ReliabilityReport` | telemetry of the refreshes and the report on a period | `MCPayloads`, `MCPublicRead` | – |
| `RefreshRun` | `refresh_sources` under its locks | `MCFetching` | `RefreshRunProofs`, `FetchingProofs` |
| `FetchRoute`, `ProviderCascade` | one fetch; one call of the cascade | `MCFetching` | `RefreshRunProofs`, `FetchingProofs` |
| `AIReview` | the reviews of a refresh | `MCReviews`, `MCFetching` | `RefreshRunProofs`, `FetchingProofs` |
| `BrightDataBudget` | the ledger and the request it pays | `MCCredits` | `CreditsProofs` |
| `KeyPool` | both pools of keys with credits | `MCCredits` | `AccountsProofs`, `CreditsProofs` |
| `HsReplayTransport`, `BackendRotation` | channels of HSReplay; browser backends of a page | `MCTransports`, `MCCredits` | `AccountsProofs`, `CreditsProofs` |
| `ApiAccess` | requests with an API token | `MCCredits` | `AccountsProofs`, `CreditsProofs` |
| `ConvergenceChain` | one chain with planner and workers | `MCConvergenceChain` | `ConvergenceChainProofs` |
| `ParserRunQueue` | run queue, worker thread, orchestrator task | `ParserRunQueue` itself | `ParserRunQueueProofs` |
| `ResourceLocks` | lock sets of the jobs | `MCJobs` | `AccountsProofs` |
| `MetaMatrixRun` | the run of the HSGuru matrix | `MCJobs` | `DatasetPublicationProofs` |
| `ArchetypeAnalysis` | the analysis of its archetypes | `MCJobs` | – |
| `ScheduleLedger` | obligations, claims, results, report | `MCJobs` | `ParserRunQueueProofs` |
| `PanelSync`, `CardPictures`, `ConstructedCards`, `SyncJob` | the panel's scripts | `MCPanel`, `MCJobs` | – |

`PublicRead` EXTENDS `EarlyPublication`; `PublishGate` EXTENDS `PublishRules`.
The `MC` modules give the constants values and put instances of modules that
share no state beside each other in one run: a variable that never changes
(`account`, `reading`, `level`, `job`) says which of them the behaviour is
about, the others stutter. This neither adds nor removes behaviour of any of
them; it is the union of their state spaces.

Definitions whose comment begins with "Mutant" are variants of the definition
that follows them, each with a plausible bug; replacing the definition by the
variant makes TLC find the property violated that `PROJECT.json` names under
"mutants". They take no part in the specifications.

### Publication

*DatasetPublication.* `stateFile`, `lastGeneration`: `attempt-state.json`;
`clock` stands for `time.time_ns()`. `files`: `versions/<hash>.json`;
`manifestFile`, `history`: `published.json`, the served version first; `cache`,
`status`: the mutable copies; `lock`: the flock of `publication_transaction`;
per process `pc` and what it holds. Each durable write is a step, so `Crash` can
fall between any two: `BeginRefresh`, `AcceptCandidate` or `RejectCandidate`,
`WriteVersion`, `CommitManifest` (the commit point), `PruneVersions`, then the
reconciliation `SaveCache`, `SaveStatus` in a transaction of its own. A rollback
does it all in one. The start-up repair chooses its snapshot (`ChooseRecovery`)
outside any transaction: the newest it finds, if it is newer than what is
published or that lies in the future (`Ahead`). `Fault` loses or damages a file; `SaveCacheFails` and
`SaveStatusFails` are failed writes. A version is a content hash with its fetch
time; validators are a free choice. Left out: `candidate.json` and the
quarantine directory, the migration of a schema-1 record.

*PublishedDataset* is one register with the versions a rollback may return to
and the copy behind it; `Publish`, `Rollback`, `Restore`, `Repair`, `Reconcile`,
`Lose` are single steps. `DatasetPublication` implements it with the mapping
`ImplementsPublished`: served is the head of the manifest, kept its tail with a
record on disk, copy the cache.

*EarlyPublication.* `policy` is the publication part of the control file with
its revision; a dataset is its row count, provisional mark, window, page, time
and version. The refresh that holds the source's lock is one record `job`:
`Begin` captures the policy and the time its candidate will bear, `Parse` gates a page, `Check` compares the policy
and reads the previous dataset, `Decide` is the regression gate, the strict
check and the choice between stable and provisional, `KeepOld`, `KeepNew`,
`Save`, `SaveStatus` are the writes in their order. `UpdatePolicy`, `Upload`,
`Crash`, `Tick` are the rest of the world. `Resolve` is
`resolve_public_dataset`: what readers get.

*PublicRead* adds a request and a client: `Open` computes the tag, `Answer` the
body, from files that change in between.

*PublishRules, PublishGate.* A payload is the record of the counts its rules
look at; `PublishRules` is the contract of each source and the validator of its
type, under both policies; `PublishGate` judges a candidate when it comes and the
publication again when a refresh fails (`_preserve_cached_ok_status`).

*AnswerCache.* `Send`, `GetLocal`, `GetShared`, `Resolve`, `Guard`, `Read`,
`PutShared`, `Finish`: every call to Redis is a step, `RedisFails` turns it off
for a process until `Retry` has passed.

*SnapshotDatabase.* `runs` and `rows` are the tables of runs and snapshots,
`dataset` the exported files, `status` the status file of the archetypes. A
transaction is a step, and so is the write of a file: `BeginArchetypes` or
`BeginMinions`, `Store` for each archetype or `StoreMinions` at once, `Finish`
or `FinishFailed`, `ReadPage`, the write of the file, `Tell`; `Die` can fall
between any two. The archetypes' file is replaced in one step (`Publish`;
`PublishFails` takes the run back). The minions' file is rewritten in place and
without a lock: `OpenFile` truncates it, `Rewrite` fills it, and a write that
fails (`OpenFails`, `RewriteFails`), is cut off by `Die` or meets another writer
can leave a torn file. `spoiled` says that the last write was disturbed so:
`FilesAreWhole` is that the file is torn only then, or while it is rewritten.
`Current` is the run readers are answered from. `Upload` merges the decks of a dataset in the
order of its list; the four `Merge…` operators are the lookups and updates of the
four sources, `Unique` the constraints that would roll it all back.

*ReliabilityReport.* `attempts` and `refreshes` are the tables. `Record` adds the
rows that are not there (`NewRows`) and merges the run (`Upserted`); `UpdateAI`
changes the AI fields. A status is a record of what the classifications read of
it; `Outcome`, `Reason`, `Completeness`, `Usage` are those. Everything below
`From` is the report, an expression over the tables: `Logical` keeps one attempt
for each window of a source, `Missing` counts rows that were never written,
`Coverage` the buckets and gaps of complete refreshes, `Objective` and
`CompletenessObjective` the verdicts. The scheduled part of the report is in
`ScheduleLedger`. Left out: the migration of old tables, percentages that are
only formatted.

### Refreshes and their routes

*RefreshRun.* `run[r]` is a call: its names, the locks it holds or passed over,
its selection, phase, running fetches, outcomes of the phase (`out`), merged
results, and the circuit of the paid proxy. `TryLock` takes one `flock` without
waiting; `Enter` selects; `Start`, `End`, `Raise` are the two ends of a fetch;
`NextPhase`, `LastPhaseEnds`, `PhaseFails` merge; the terminal results are
recorded in `Record`, reviews attach in `Review`, `Return` releases. `Fallback`
counts the Firecrawl fallback of a process. An administrator's `Upload` takes no
lock.

*FetchRoute* is one `fetch_source` under every combination of settings:
the cascade before or after the API, the page through browsers or ParsesUnix
(with its shadow mode), the repetition after a new login, gates, quarantine
and regression, save, status and trace. `Reported` is `_save_failure_status`: a
failure beside an older dataset that is still valid is written as the serving of
that one, and standard cards are reported from their store. `Faults` adds a status
that cannot be written and a new login that raises. The exception goes to the
handler around it; a repetition called from the API part returns it to that part
(`Resume`), which may log in once more, so that a fetch has at most three rounds.
Log lines, alerts and reviews catch their own errors and do not raise.
*ProviderCascade* is one `_scrape_sync` with the rotation of both key pools: a
page takes up to `max(8, keys)` keys of Firecrawl in all and up to
`max(4, keys)` of Scrapfly in each of its profiles.

*AIReview*: lanes with places, a budget and a circuit each; quarantine of
candidates and of their paid fallback; queued reviews after the refresh.

### Money and transports

*BrightDataBudget.* `ledger` is `usage.json` field by field; `process`, `paid`,
`spent` are the worker that holds a reservation and the provider's side: `spent`
is what the provider billed in the calendar month, whatever month the ledger is
in, and `carried` is how much of that the ledger charged to the month before,
since `finish_request` does not turn it. `_mutate` works under a flock, so an
operation is one step; its caller takes the time before it waits, up to `MaxWait`
earlier. Assumed: an answer whose billing
header says "not billed" was not billed. *KeyPool*: each access to
`key-usage.json` is one step; `spent` is the provider's account. Processes die,
the file is lost, the period turns.

*HsReplayTransport*: tasks wait for the snapshot's lock, go through the
independent channel, the proxy (behind a probe) and Scrape.do (behind budgets);
any may be cancelled and its probe runs on. *BackendRotation*: rounds over
backends, failures shared by scope.

*ApiAccess*: one token, its requests authenticated twice, counted in Redis or in
the process, charged, answered and booked.

### Recovery, queue, schedules, jobs

*ConvergenceChain.* `chain`, `attempts`: the rows of one chain; `cursor`,
`planner`, `reports`: the planner and its feed; `claim`: what a worker works on.
Each method of the store is one step, including its sweeps. `Finish` has any
decision the policy could derive; `FinishTooLate` is an answer the store refuses.
Left out: other chains, costs, shadow mode, the batch limit.

*ParserRunQueue.* `runs` are the runs of the file by number (cut to
`MaxRecent`), `ledger` the request ids, `worker` the thread with what it has
left, `client` the Trigger.dev tasks. `Ask`, `Create`, `View`, `Poll`, `TaskResult`,
`Deadline` are the task and the server's answers, which can be lost; `WorkerStep` claims, executes, checkpoints and ends runs;
`StorageError`, `Crash`, `Restart`.

*ResourceLocks*: jobs of mode "all" (give up at the first held lock) and "each"
(go on without it), with second sets; the description in the lock file is
written after the flock. *MetaMatrixRun*, *ArchetypeAnalysis*: checkpoint,
resumption, deadline, publication and (analysis) recovery with its budget; times
are ages or ticks. *ScheduleLedger*: one step per transaction; times are hours.
The run of a timer records what it refreshed once for each of its refreshes
(`Refreshes`, `part`): `refresh-api-tiers` claims one occurrence and records in two,
and may die or pass its deadline between them.

*PanelSync* is the page syncs as one machine with a record of their differences;
*CardPictures* six; *ConstructedCards* the four that share a table; *SyncJob* the
shell script with its inherited locks, its status file and the temporary file of
that, which every run shares: a page goes into the file that was opened (`handle`),
whatever it is called by then, two pages in one file may leave none (`mixed`), and a
rename takes whosever page is there.

## 3. What TLC checks

Twelve runs, one for each question.

| Run | Instance | Question | Kind |
|---|---|---|---|
| `publication_crash` | 2 writers of every role, 3 versions, 3 attempts, 1 crash, 1 fault | does the channel survive a crash between any two writes, and does it implement its promise? | safety, refinement |
| `publication_live` | 2 writers, 3 versions, 1 crash, fair | do attempts end, copies settle, publications arrive? | safety, liveness |
| `publication_bootstrap` | repair beside a refresh | does the repair leave a healthy publication alone? | violated |
| `credits` | ledger: 3 requests, limit 3, 2 month turns; pools: 2 scrapes, 2–3 keys; 3 HSReplay requests for 2 snapshots; 2 pages in 2 rounds; 2 requests of a token | are limits kept on both sides of every account, and do the refused stay out? | safety |
| `convergence` | 2 sources, 2 workers of one owner name, 5 moments, 1 crash | leases, late answers, bounds, cursor | safety |
| `convergence_live` | 1 worker, 1 failure, 1 crash, fair | do failures arrive and chains settle? | liveness |
| `convergence_fresh` | a source added under a claim | is a fresh chain fresh in every source? | violated |
| `run_queue` | 2 sources, 5 runs in a list of 4, 1 crash or storage error, fair | is anything executed twice or lost? | safety, liveness |
| `public_read` | a reader beside 2 versions, 1 policy change, 1 mishap; 3 versions, 2 changes and 3 moments unread, so that an early contraction is seen again when it is old enough; the gate with payloads at every limit; the cache with 2 processes and 2 clients; snapshots in 3 runs of 2 processes, 5 datasets with decks; telemetry of 3 runs and 7 results, and of 3 records over 2 buckets | is what readers are told what was published, and does the stable channel stay? | safety |
| `early_switch` | a policy change around the save gate | is the stable channel left alone after a switch? | violated |
| `fetching` | 2 calls, 3 sources, 2 phases; 2 paid calls; every setting of a fetch, with and without faults; one cascade of 3 keys of Firecrawl and 2 of Scrapfly; 3 instances of the reviews | exclusive fetches, complete accounts, bounded spending, honest reports | safety |
| `jobs` | 3 jobs over 3 resources, 2 faults; the long runs; 3 instances of the schedule ledger, one with a run in two parts; 4 of the panel | shared work, true records, nothing taken back | safety |

*Bounds and why they are enough.* Every bound is a constant named in a guard
(`MaxGeneration`, `MaxCrashes`, `MaxFaults`, `MaxTime`, `MaxReports`, `MaxRuns`,
`MaxVersion`, `MaxRevision`, `MaxMishaps`, `MaxUploads`, …). They are chosen so
that the case that matters happens: three versions are the fewest with which a
retention of 2 drops one; three attempts let one start before, during and after
a publication; three moments let a contraction grow as old as `ConfirmAge` asks and
be confirmed; a limit of three lets one request be in flight, one billed and
one given up; five runs in a list of four cut the list; ages are counted one
past the longest memory; two phases let a circuit outlive one. That each
property still depends on the code is shown by its mutant, which fails under the
same bounds. Where a theorem below states the property, the bounds do not matter.
Symmetry is used for interchangeable processes and requests, never with liveness;
the `VIEW`s drop what is never read again.

*Deadlock* is not checked: every instance really stops when its bounded numbers
or moments are used up.

*Fairness.* In `DatasetPublication` the holder of the lock runs on (weak fairness)
and a waiter is not passed over for ever (strong fairness of the steps that need
the lock: the kernel queues blocked `flock` callers, and each fetch has a timeout
that ends it). Nothing is assumed of the start of refreshes. In
`ConvergenceChain` time passes, the planner and a worker are started again and
again (`systemd/hs-data-api-docker-plan-convergence.timer`,
`…-run-convergence.timer`), and an attempt ends (`TimeoutStartSec=25min` at the
latest). Which decision it ends with is never assumed, nor that a fetch succeeds.
In `ParserRunQueue` the worker thread runs while the process is up, and a process
that died is started again (`restart: unless-stopped`); nothing is assumed of
clients or administrators.

### Where the code differs from what it says

Three differences are shown by a run and listed as findings: the start-up repair
can put the old cached snapshot over a newer one that was published after it chose
(`app/main.py:149`, `BootstrapKeepsHealthy`); a source added under a claim is closed as fresh with the
chain (`tests/test_convergence_worker.py:119`, `FreshMeansEverySource`); a switch
of the policy after the comparison still publishes an early candidate to the
stable channel (`app/fetcher.py:3883`, `SwitchLeavesStable`).

Others were met while modelling and are reproduced by the models, which state
properties that hold beside them:

* *Publication.* After the loss of the control file an attempt number can be
  handed out twice. A crash between the baseline and the dataset write lets a
  client be told "not modified" of a body that has changed (`NotModifiedIsTrue`
  excludes crashes). A page that depends on the policy is another page for the
  regression gate, so its contraction is not compared (`ContractionSeenTwice`
  holds where the page does not depend on it). A contraction once blocked can
  stay blocked. An upload takes no lock. Early rules are not a relaxation of the
  stable ones (`post_patch_policy.py:180`, `fetcher.py:3601`). The trinket rows
  are read from the dataset file whatever the policy says.
* *Database and telemetry.* The minions' file is written in place and without a
  lock (`hsreplay_bg_minions_db.py:403`): a write that fails, dies or overlaps
  another one leaves a torn file until the next. A refresh of archetypes of another rank or game type
  ends with the status "ok", while the file it exports is that of the older
  default run (`hsreplay_archetypes_db.py:1218`; `StatusIsTrue` speaks of the
  default ones). The objectives of the report say "collecting" whatever was
  measured, for `PIPELINE_SCHEDULE_LEDGER_READY` is false
  (`reliability_telemetry.py:44`); `MetIsWhole` also checks what they will say.
* *Refresh and routes.* The fallback cap of a process starts anew with every call.
  A failure raised in a parallel phase is returned but not saved. A serial phase
  that breaks off loses the outcomes it had. A status that cannot be written after
  its dataset was saved (`fetcher.py:3077`) is an exception of the API part: the
  fetch goes on to the page or reports a failure of what it has published, and may
  pay for the fallback cascade again, up to the limit of the source. A ParsesUnix page can be paid twice,
  and its shadow request pays.
* *Providers.* `finish_request` does not turn the month
  (`brightdata_state.py:479`), so a request sent and finished after midnight, before
  anybody reserves, is charged to the month that has ended: the provider can bill more
  in a month than the "hard" limit, by what the month before had left
  (`BillWithinLimit`). A Scrape.do call cancelled or broken outside its two typed errors
  is not charged what it cost (`hsreplay_client.py:757`), and an answer whose cost
  breaks the budget is paid and dropped. Headers written by a thread of a
  cancelled task can be attributed to a later body. Page fetches of HSReplay
  bypass the probe. The rotator's open circuit never half-opens.
* *Tokens.* `reserve_request` does not look at revocation (the route does);
  `complete_request` books to the month it ends in, which loses the booking if
  that month has no row; a timeout during the reservation leaves a charge that is
  never completed.
* *Convergence.* An attempt that ends with its lease is rescheduled without the
  comparison `finish_attempt` makes, so a chain can pass `max_attempts`
  (`BoundedAttempts` counts the attempts that ran to their end). When the deadline
  passes under a live lease, the row of the attempt stays "running" for ever.
* *Run queue.* After a failed write of the control file a run stays "running" and
  nobody serves it (`NoWorkIsLost` and `RunsEnd` exclude it). The task refuses the
  provisional view the server may answer.
* *Schedules.* Rows made under the post-patch policy stay eligible; the order of
  primary results decides a verdict.
* *Archetype analysis.* Rows partially fetched are not resumed; deferred targets
  fall out of the checkpoint at the next run's first save; a complete run refused
  at publication does not save its last targets; a fresh run within an hour of a
  publication with a known gap skips the request and cannot complete; a target
  with old card rows is never reusable, so publication stalls.
* *Panel.* `run_sync_job.sh` writes "lock_timeout" without the lock, which can
  lose the entry of the run that has it, or rename its temporary file away, whereupon
  its shell ends before the commands; "skipped_locked" is never written.
  `sync_pets` overwrites a good row with "partial". Some updates never move
  `changed_at` (`sync_hero_skins.py`, `sync_constructed_cards.py`,
  `sync_constructed_wiki_meta.py`, `sync_diamond_cards.py`). A page error removes a
  good row from the panel's API. The wiki refresh wipes `diamond_animated_json`. A
  golden image is lost after a crash; a crop whose card was given an older picture
  is only marked as checked (`backfill_constructed_images.py`); the mirror records the first host's URL for
  a file of the second. A card that leaves the catalog aborts the whole sync.
  Two scripts end with 0 after errors.

## 4. What is proved

Each proof module EXTENDS its component and proves type correctness first, then
an inductive invariant, then the properties as consequences. The statements hold
for all constants that satisfy the module's `…Assumption`, which say of what types
and ranges the settings are, and nothing of behaviour.

* **DatasetPublication** (`DatasetPublicationProofs`). `Inv` adds to
  `ManifestBacked`: `LockInv` (a process inside a transaction holds the lock),
  `PublishInv` (what a publisher established when it took the lock still holds
  when it commits) and `NumberInv` (without lost files, numbers are unique).
  `ManifestBacked` alone is not inductive: that the head of a new manifest is on
  disk follows from `PublishInv`, that this survives others from `LockInv`. From
  it: `ManifestBacked`, `NewestAttemptPublishes`, `PublishesForward`,
  `RollbackStaysPossible`, `StatusGenerationMonotone`, and that every step maps to
  a step of `PublishedDataset` or to a stutter (`ChannelImplements`). `Settled`
  needs `SettleInv` (the copies describe what is served, or a writer past its
  decision will still reconcile them) and is proved where the start-up repair
  does not run: the repair publishes without reconciling.
* **BrightDataBudget** (`CreditsProofs`, first section). `Sound` is stated of any ledger,
  count and set of bills, and lemmas show that each part of a handler preserves
  it. `Covers` is the key conjunct: what the provider billed in the month, less what
  was carried over, is bounded by what the ledger charged and the billed requests in
  flight. `CarriedFit` bounds what is carried over by the limit and, while the ledger
  is behind, by what it has charged; `Timely` says that no reservation is from a month
  to come and no bill later than its reservation lasts. From it: `LimitKept`, `BillWithinLimit`, which is `spent <= Limit +
  carried` with `carried <= Limit` and no more, `SingleProbe`, and the agreement of
  counters and deadlines.
* **ConvergenceChain** (`ConvergenceChainProofs`). A claim names an attempt of the
  chain, the planner has added what it passed, and (`BudgetLeft`) a chain that is
  due or running has a delay left for its action, which the running attempt works
  on. From it all seven properties of the run `convergence`. `BoundedAttempts`
  follows by counting delays used, one per completed attempt.
* **ParserRunQueue** (`ParserRunQueueProofs`). `Inv`: what a run has still to
  execute and what it waits for make up its selection (`RunFits`), an ended run
  has its results (`Ended`), the worker's list is what its run has left
  (`WorkerFits`), it serves the oldest active run (`OldestIsServed`), the active
  runs are the most recent (`ActiveAreRecent`, which needs
  `2 * MaxPending <= MaxRecent`, true of 20 and 50), and the ledger knows what a
  client was told (`LedgerKnows`). From it: `NoDuplicateExecution`,
  `NoWorkIsLost`, `OneRunPerRequest`, `CheckpointsAreFinal`, the second of them
  for a queue no storage error has struck, as it is stated.
* **ResourceLocks** (`AccountsProofs`). A flock has one owner, a lock
  to come is not held, and what a stage needs is held, to do or passed over. From
  it: `NoSharedWork`, the true description of working jobs, and that idle jobs hold
  nothing.
* **KeyPool** (`AccountsProofs`). `PoolSound` relates scrapes and periods: who waits
  for an answer or has one holds a key, nothing is dated after the current period, and
  a refusal of this period is the provider's. What was billed is
  what the file counts, what was lost and what is on its way (`BillsCountedNow`);
  with `CountsKept`, which bounds the count of each key, it gives
  `OverspendBounded`. `FewKeysOutNow`: the keys that are out without a
  cause and the refusals that come late from an old period are together no more than
  the workers. Set sizes are not folded: the
  model states its sums as cardinalities, and the lemmas add or remove one element.
* **ApiAccess** (`AccountsProofs`). `AccessSound` is `RequestSound` for every request:
  where it is, when it was let in, what it has been charged and booked. `QuotaHolds` counts charges against the row of their month,
  `CountersHold` requests against the window of their layer, `ErrorsAddUp` and
  `AnswersAddUp` the bookings. From them: `QuotaKept`, `RateKept`, `BooksAddUp`,
  `LastUsedIsRecent`, `RevokedStaysOut`. Least elements of finite sets come from
  `SubsetInduction`, an induction over the well-founded order of strict subsets
  that takes a set, not an operator.
* **HsReplayTransport** (`AccountsProofs`). `TransportSound`: what a task has passed on
  its way through the channels (`TurnTrue`), that nothing goes through the proxy before
  its probe or beside it (`ProbeIsFirst`), and that whoever pays has the one place and
  one credit of it is counted already (`PlaceIsPaid`). From it: `OneProbe`,
  `OneFetchPerSnapshot`, `ScrapeBudgetKept`, `GivesUpRightly`, `AttributionIsTrue`, and
  `RefusedProxyRests`.
* **BackendRotation** (`AccountsProofs`). `RoundKept`: a fetch has tried each backend that
  nothing spoke against once in every round it has left. `HammerKept`: the failures held
  against a backend and the attempts under way on it are at most the threshold less one
  and the sources of its scope. From them: `HammeringBounded`, `GivesUpLate`,
  `SpoiledRests`.
* **RefreshRun** (`RefreshRunProofs`). `LocksFit`: a call's sources are locked,
  passed over or to do, what it holds is its own, and it selects of them what it
  wants. `ResultsFit`: only selected sources are fetched and have results, a fresh
  one is its own on disk, and a refusal has opened the circuit. `RecordFits`: what
  has been recorded. The lemma `Undisturbed` carries the three through the steps
  of the other calls, which take no lock it holds and publish nothing under it.
  From it: `OneFetchPerSource`, `EverySourceAccounted`, `SchedulesRespectSections`,
  `FreshIsPublished`, `CircuitOutlivesPhase`. `SpendBounded` has an invariant of its
  own, `SpendFits`: the fallbacks paid for, with one cap more, are at most a cap for
  each call that has begun and what the counter has used, since each call sets the
  counter back.
* **ProviderCascade** (`RefreshRunProofs`). `CascadeSound`: turns are taken in order
  (`TurnsKept`), a key given up has been paid for once and those given up and left
  do not outnumber the pool (`RotationKept`), each request belongs to an attempt
  of a profile (`CostKept`), and a pool is asked once more than it was turned, within
  the limit of its rotation (`PoolKept`, `TurnedKept`). From it: `EveryProviderIsAsked`, `BrightDataIsAResort`,
  `CostOfAPage`, `AccountIsRespected`.
* **AIReview** (`RefreshRunProofs`). `ReviewsSound`: facts of each row, and `LaneKept`
  for each lane: its failures in a row and its answers to come are at most what it
  has used. `SourcesSound` relates a row to the outcome of its source. From them:
  `LanesAreBounded`, `CircuitHolds`, `RejectionIsBacked`, `ReviewsBelong`, and
  `FailuresAreDiagnosed`: all failures before the least one left out are queued, and
  they fill the lane.
* **FetchRoute** (`RefreshRunProofs`). `RouteSound`: where a fetch can be with which
  reason and candidate (`PlacesKept`), its shadow request (`ShadowKept`), what it has
  paid (`FallbackKept`), in which of its rounds it is (`RoundsKept`), that statuses are
  written at its end and "ok" only of what it has just saved (`WritesKept`), and that,
  where they can be written or the cards are standard, nothing follows a save
  (`ReportKept`). From it: `PublishedIsReported`, `OnlyPassedIsSaved`, `ShadowEnds`,
  `StandardAlwaysReports`, `OneFallback`, `RefusedStaysRefused`, `ConfirmationIsFree`,
  and `RetryIsClean` where statuses can be written, which is the instance the run checks
  it in: one that cannot be written after a save does let the fetch start over.
* **The run `fetching`** (`FetchingProofs`). Its five properties in `MCFetching` are
  conjunctions over the levels of a behaviour. For each level the run's specification
  implies that of the instance while the level is that one (the `…Level` lemmas; a
  fetch has two, `route` and, with faults, `faulty`), the
  instance is the one `RefreshRunProofs` is instantiated with (`Same…`), its
  assumption holds (`InstancesFit`), and the theorem of the part applies. The
  refresh keeps its constants open; the other levels have those of the run.
* **The run `credits`** (`CreditsProofs`). In the same way `AccountsAreKept` and
  `RefusedStaysOut` follow from the theorems of `AccountsProofs`, instantiated once for each
  choice of constants in the run; the limits of the ledger hold in every account, whose
  steps are the ledger's or leave it alone (`LedgerInEveryAccount`).
* **EarlyPublication and PublicRead** (`PublicReadProofs`). `VersionsFit`: a
  candidate is newer than all that was saved, and what a refresh has read is what
  it replaces. `BaselinesFit`: baselines are stable and what is stable has passed
  the stable contract. `CandidateFits`: what is about to be saved as stable is in
  the stable channel already, and before a provisional candidate is saved the
  stable dataset it replaces is. `StatusFits` follows the status to the baseline
  beside a provisional dataset. `JudgedFits` keeps that an early candidate was
  compared with the stable channel until it is saved. For the readers, `Known`: a
  tag that is not current never comes back. From them: `StableIsStable`,
  `StatusIsHonest`, `StableChannelIsKept`, `ContractionSeenTwice` (where the page
  does not depend on the policy), `NotModifiedIsTrue`, `StableTagStableBody`.
* **AnswerCache** (`PublicReadProofs`, second section). What is under a key, in
  Redis or in a process, is of the key's query, without credentials, and not kept
  beyond the lifetimes of the tiers it has passed (`SharedFits`, `LocalFits`); a
  request carries the query it means, and what it has read is as old as its stage
  allows (`RequestsFit`). The bound on the age of an answer needs both: an entry
  taken over from Redis starts a second life in the process. From it `ServedRightly`,
  `DigestMeansQuery` and `KeptRightly` (`CacheIsSound`). The lemmas on the entries
  of a process (a key has one place; taking one out, appending it and dropping the
  oldest keeps what holds of each) are proved of any sequence.
* **PublishGate** (`PublicReadProofs`, third section). `ShownPassed`: what is
  published passed the gate under the policy and at the time it was published, or
  is of an issue that was the latest before; only one validator reads the clock
  (`ClockMatters`). From it `ServiceIsKeptStep`. `ServedIsSound` stays with TLC:
  its counts are folds.
* **ScheduleLedger** (`ParserRunQueueProofs`, second section). `LedgerSound`: rows
  were decided before their time and as their cohort says (`RowsFit`); the ledger's
  coverage has a row for every occurrence, and of its schedules no row ahead of its
  start is of another cohort or past its end (`Covered`, without which a new row could
  be refused by `ON CONFLICT DO NOTHING` and the coverage have a hole); a timer's
  occurrence and each result have their rows (`TimersFit`, `ResultsFit`). A
  reconciliation is reduced to two cases, anew from now or continued
  (`ReconcileFacts`). From it `CoverageIsComplete`, `NoInventedObligation`,
  `ResultsHaveSlots`, `VerdictsAreFounded`, `DueDecisionsStayStep` and
  `VerdictsAreFinalStep`; `ReportAddsUp` because the counters' conditions partition
  the slots that are due.
* **MetaMatrixRun** (`DatasetPublicationProofs`, second section). `MatrixSound`: a run,
  what it has fetched and its checkpoint are of one period, no slice older than the
  window they are kept under, and what waits to be published is whole. `Forward`: of one
  period, a checkpoint, a run and what it would publish are no older than what is
  published. `Timely`: a running window is younger than the deadline, so that its
  checkpoint can still be resumed. `CountsFit`: each count is that of the slices in the
  stages it counts. From them `PublishedIsWhole`, `NoOlderPublicationStep`,
  `ProgressIsKeptStep`, `CompleteIsNotResumedStep`, `TimeoutNamesWindowStep` and
  `CountsAddUp`. `NoOlderPublicationStep` is about a site with one period: a run of
  another period whose saves fail publishes without taking the checkpoint's place, and
  the next run of the first one may then resume a window older than what is published.

The assumptions of modules that are only instantiated (`PoolAssumption`,
`AccessAssumption`, `TransportAssumption`, `RotationAssumption`, `CascadeAssumption`,
`ReviewAssumption`, `FetchAssumption`, `LocksAssumption`, `CacheAssumption`,
`GateAssumption`, `LedgerAssumption`, `MatrixAssumption`) are definitions; their theorems assume them, and
TLC evaluates them for the constants of the runs (`AccountsAssumption` of `MCCredits`,
`FetchingAssumption` of `MCFetching`, `JobsAssumption` of `MCJobs`,
`ReadingAssumption` of `MCPublicRead`).

Only model-checked, and why: liveness and fairness (`AttemptEnds`,
`PublicationReachesCache`, `ChainSettles`, `FailureReachesChain`, `RunsEnd`) are
out of the prover's reach, and so is ENABLED. Of the other properties over several
modules, `ReadersSeePublished` and `PublicationIsKept` are proved in the parts of
`EarlyPublication`, `PublicRead`, `AnswerCache` and, for the second, `PublishGate`;
`RecordsAreTrue` in those of `ResourceLocks`, `MetaMatrixRun` and `ScheduleLedger`,
`NothingIsTakenBack` in those of the latter two, by theorems of their own; their other
parts are model-checked only. The sums of `ReliabilityReport` are folds over its
tables, which are defined by recursion: what they add up for every table needs an
induction with an operator parameter that no installed prover instantiates.

## 5. What is not modelled

* Recovery execution and probes: one fetch for a claim; its outcome is a free
  choice in `ConvergenceChain`.
* Conversion: the parsers of pages, alert texts, diagnostics, texts of
  rejections. They keep no state.
* Sources and registry, command line, timers: tables and entry points. The
  timers justify the fairness.
* Platform database (SQL schema and migrations), filters and pages of the database
  and GraphQL reads, PHP pages: queries without state of their own.
* Inside modelled parts: see the notes of the components in `PROJECT.json`.

A file system that loses a write after `fsync`, and a clock that runs backwards,
are outside all models.

## 6. Plan

Done: the inventory, the modules above, the refinement of the publication
channel, and the proofs of section 4. Next, in this order:

1. Proofs of the runs in `SnapshotDatabase`, of `ArchetypeAnalysis`, and of the
   panel's scripts.
2. Models of the parts of section 5 that keep state: probes and their leases,
   the diagnostics of planner runs.
