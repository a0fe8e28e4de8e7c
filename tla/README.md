# Hemera indexer in TLA+

TLA+ models of the Hemera indexer (the repository's `src/`), TLC configurations that check them on
small instances, and TLAPS proofs of what they show for every instance. Paths below are relative to
`src/`.

The indexer reads blocks of an EVM chain over JSON-RPC, derives items from them (transactions,
logs, token transfers, balances, ...) in jobs that depend on each other, writes the items to
PostgreSQL, files or the console, and remembers the last block it has finished so that a restarted
process can go on from there (README.md:385). Everything hard about it is about that last promise:
errors are retried, processes die and docker starts them again (docker-compose/docker-compose.yaml:8), a round is
exported by many separate commits, caches outlive failed rounds, several missions may write
the same tables, and the explorer reads them all the while.

1. [Components](#1-components)
2. [Modules](#2-modules)
3. [Runs](#3-runs)
4. [Proofs](#4-proofs)
5. [Findings](#5-findings)
6. [What the models assume](#6-what-the-models-assume)
7. [What is not modelled](#7-what-is-not-modelled)
8. [Plan](#8-plan)

## 1. Components

| component | state | operations | what makes it correct |
|---|---|---|---|
| Stream controller (`indexer/controller/stream_controller.py`) | last synced block, target, retry count | poll the head, run a round, record it, retry or exit | the recorded block only says what is exported; a mission keeps going while retries last |
| Stream dispatcher (`controller/dispatcher/stream_dispatcher.py`) | none | run the jobs, log, flush, clear the buffer | nothing of a failed attempt reaches the next |
| Sync recorder (`indexer/utils/sync_recorder.py`) | one number, in a file or a table | read, write | survives crashes, never goes back |
| Job scheduler (`indexer/jobs/job_scheduler.py`) | required classes, their order, the instances | closure over dependencies, topological sort, instantiation | a job runs after those it reads from, once; cycles are refused |
| Job pipeline (`indexer/jobs/base_job.py`, `export_blocks_job.py`) | the shared data buffer | collect, process, export of each job | a derived row never precedes what it is derived from |
| Batch work executor (`indexer/executors/`) | batch size, futures, permits of the pool | cut, submit, retry item by item, check, wait | every item is collected once; nothing runs after `wait` |
| PostgreSQL exporter (`exporters/postgres_item_exporter.py`) | the tables | one commit per item type and batch, with the type's conflict strategy | a repeated or an older write does no harm |
| Token and balance jobs (`export_tokens_and_transfers_job.py`, `export_token_balances_job.py`, `export_token_id_infos_job.py`) | the token cache of the process; the token tables | derive transfers, tokens, supplies, balances, owners | rows are complete up to the recorded block and never get older |
| Bridge jobs (`indexer/modules/bridge/`) and withdrawal state (`common/utils/bridge_utils.py`, `api/app/l2_explorer/routes.py`) | the bridge tables, shared by an L1 and an L2 mission | collect both sides' events, insert, show | what is shown of a message is true, and becomes complete |
| Chain jobs (`export_blocks_job.py`, `export_transactions_and_logs_job.py`, `export_traces_job.py`, `export_contracts_job.py`, `export_coin_balances_job.py`) | the data buffer; the chain tables | ask the node, join receipts, number calls, count, derive contracts and balances | everything the node told of a recorded block is in the tables, after what it refers to |
| Exception recorder (`indexer/utils/exception_recorder.py`) | a queue of log records | log, flush | its failure does not undo a round |
| Uniswap V3, day mining, user operations (`indexer/modules/`) | caches and totals in memory; the feature tables | derive pools, prices, positions, holdings, counts, operations | what the process knows is in its tables; a retried round counts once |
| File and console exporters | temporary files | write, merge | every batch survives |
| Explorer API (`api/app/`) | response caches | lists, details, totals, exports, over the tables | a total lies between what there was and what there is; pages miss nothing |
| Fixing controller, command line, configuration, migrations | - | - | - |

How they interact. `cli/stream.py` builds one controller with a dispatcher, a recorder and the
exporters. Each turn of the controller's loop asks a node for the head, computes a target block and
has the dispatcher run *a round*: the scheduler's jobs, in order, on the blocks up to the target.
A job hands its RPC work to its executor, whose workers append to the data buffer that all jobs
share; after `wait` it processes what the buffer holds and calls every exporter with its items.
When all jobs have run the dispatcher flushes the exception log and, in a `finally`, clears the
buffer; then the controller writes the recorder. Executors and the job list live as long as the
process: they are the state a failed round leaves behind. Processes of different missions share
nothing but the database.

Where the difficulty is: the interleaving of workers with the main thread and with the next attempt
(executor, buffer); partial failure between any two commits and crashes between any two steps
(exporter, recorder); retries that meet state of the attempt before (futures, caches, job list);
nodes behind a load balancer that answer with older heads or leave answers out; missions that write
one row in an order nobody fixed; requests of several queries over tables that move on in between. `PROJECT.json` lists these hazards line by line, with the properties that cover them.

## 2. Modules

### StreamIndexer (with BlockSync)

One mission with all that drives it: `head` is the chain; `pc` walks through the controller's loop
and the statements of a round; `last`, `target`, `tries` are the controller's variables; `jobs`,
`at`, `out` say which job of the scheduler's list runs and which exporter it is at; `poison[j]` is
the failed future in job *j*'s executor; `buff`, `stale`, `late` are the data buffer, split into
what this attempt put there, what workers of a failed attempt appended afterwards, and what those
still hold; `sink[e]` is what exporter *e* has written; `rec` and `torn` are the recorder.

| code | actions |
|---|---|
| loop of `StreamController.action` (55-120) | `Finish`, `PollNothing`, `PollRound`, `PollFails`; except branches: `Exits`, `FailRound` |
| `JobScheduler.run_jobs`, `instantiate_jobs` (117-141) | `StartJobs`, `InstantiateFails` |
| `BaseJob.run` (62-122) and the executor, seen from outside | `Collect`, `CollectFails`, `CollectPoisoned`, `LateCollect`, `Export`, `ExportFails`, `NextJob` |
| `StreamDispatcher.run` (42-61) | `Flush`, `FlushFails`; the `finally` in `FailRound` |
| recorders | `RecordPG`, `TruncateFile`, `WriteFile`, `RecordFails` |
| process and environment | `GrowChain`, `Crash`, `Boot`, `BootLoop` |

`BlockSync` is the promise without the mechanism: blocks become covered in any order, and the
recorded number only ever names a prefix that is covered. `StreamIndexer` implements it
(`ImplementsBlockSync`) with `covered` the blocks all of whose required items every exporter has
written, and `intact` negated `partial`: the one thing that voids the promise is a round that ran
with an incomplete job list (see [Findings](#5-findings)).

### JobScheduler

`get_required_job_classes` (`Expand`), `resolve_dependencies` (`StartSort`, `Place`, `Sorted`) and
`instantiate_jobs` (`Instantiate`) of `job_scheduler.py` 85-180. The class declarations are part of
the initial state: every assignment of output and dependency types to the jobs. Deques are sets,
since their content comes from Python sets of classes whose order differs between processes. The
order it proves is what `StreamIndexer` assumes of `Deps`.

### BatchWorkExecutor (with SequenceLemmas)

The main thread in `execute` and `wait` (`Begin`, `NextBatch`, `Check...`, `Submit`, `Wait`,
`Return`) and the workers in `_fail_safe_execute` (`Start`, `FirstOk`, `FirstRetriable`, `Shrink`,
`Grow`, `RetryOk`, `RetryFails`, `Fatal`) with the permits of `BoundedExecutor` (`holding`,
`Release`). `Begin` is a call of `execute`; one executor executes once per attempt of a round.
`Shrink` and `Grow` are the unlocked writes of `batch_size`. `StreamIndexer`'s `poison` and `late`
abstract this module: `PoisonIsPermanent` and `QuietAfterReturn` are what justifies them.

### TokenStore

Several missions on the token tables. A round of a mission runs `CollectTransfers`,
`CollectBalances`, `CollectIds`, each followed by one `Commit...` per item type in the order of
`output_types`; `Record` ends it. `RoundFails` is a failure the process survives (the cache stays),
`Crash` one it does not (the next process loads the cache from the `tokens` table). Each commit
applies the conflict strategy of its table: nothing, greater block, greater or equal block, always.
Values read from a contract are represented by the block they were read at, which is what the
strategies compare. An id minted twice in a round has two `...Detail` items of which any may make
the row (`CommitDetail`). A row made by the later mint has that mint's block, and the updates of
earlier blocks then lose to it until the round of the mint commits its own update: `OwnerIsCurrent`
names this case, and the chain of `tokens_safety` has such an id.

### Bridge

An L1 and an L2 mission on the bridge tables. A history is a set of events of the two chains,
chosen in `Init`; `Collect` makes a round's items (`BedrockItems`, `ArbitrumItems`), or cannot if a
parser raises (`Decodes`); `Commit` inserts those of one type ON CONFLICT DO NOTHING, or cannot if
the converter raises (`Converts`); `Record` and `RoundFails` as above. `Shown` is the state the
explorer gives a withdrawal: 0 not listed, 1 not finalized, 2 ready to prove, 3 challenge period or
past it, 5 relayed. A round that fails and a process that dies have the same effect, because the
bridge jobs keep nothing between rounds.

### Tables (with TableRows)

What readers of the database may rely on, without the mechanism: rows appear in the round of their
block, after the row they refer to, none is taken away, and the recorded block grows by at most a
round. `ChainData` implements it (`ImplementsTables`), and `Explorer` reads tables of which it knows
nothing else. It is the seam between the two halves of the system.

### ChainData

The chain jobs of one mission. `Plan` is the list of its jobs and, after each, the types it exports;
`stage` walks through it; `buff` is the data buffer, `stored` and `counts` are the tables. Each
`Collect...` lets the node leave out any part of the answers (`missed`, `unanswered`), `CollectTraces`
also lets it have lost the state of a block, for which the job writes a placeholder row.

| code | actions |
|---|---|
| `ExportBlocksJob`, with and without filters | `CollectBlocks` |
| `ExportTransactionsAndLogsJob`, `Transaction.fill_with_receipt` | `CollectReceipts` |
| `ExportTracesJob`, `ExtractTraces` | `CollectTraces` with `TraceIndex`, `Internal`, `CountItems` |
| `ExportContractsJob`, `ExportCoinBalancesJob` | `CollectContracts`, `CollectBalances` |
| `PostgresItemExporter` on these types | `CommitRows`, `CommitTransactions`, `CommitCounts`; the converter raises: `ReceiptMissing` |
| the controller's loop, as `StreamIndexer` has it | `Record`, `RoundFails`, `Restart` |

### Features

Extends ChainData with the jobs that come after the chain jobs: `CollectPools`, `CollectPositions`,
`CollectActiveness`, `CollectOperations`, and one `Commit...` for each of their seven types. `known`,
`knownIds` and `stats` are the caches of the process. They change in a collect, before the export; a
failed round leaves them changed (`FeaturesFail`, `FeaturesRaise`), a restart reads them from the
tables (`FeaturesRestart`). The histories `lost` and `recounted` say what a failed round left behind:
the properties are exact up to them.

### Explorer

A request is a list of queries (`todo`), each an action that sees what is committed at that moment;
between any two of them the indexer may commit a row (`Write`) or record a round (`Record`), and the
aggregation may close a day (`Aggregate`). `got` is what the request has read, `cache` what
`cache.cached` keeps, `page` and `walk` belong to a client that turns the pages. A list is described
by its table, its filter, what it joins, its queries, the rule for those that depend on the rows, and
the length of its sort key (`JoinedList`): ties come in any order. `Requests` are the endpoints:

| code | requests |
|---|---|
| `api/app/explorer/routes.py` | `TransactionList`, `InternalTransactionList`, `TokenTransferList`, `BlockList`, `MainStats`, `TransactionDetail` and the lists under it, `BlockDetail`, `TokenList`, the first pages of an address or a token, the exports |
| `api/app/l2_explorer/routes.py` | `Deposits`, `Withdrawals`, `StateBatches`, `StateBatchDetail`, `DABatches` |
| `api/app/db_service/` | the queries `Read...`, `AddressTransactionCnt`'s order in `AddressRest`, `TotalTxnCount`, `TokenTransferCnt` |

MC modules give the constants their values; operators marked "Mutant of" in a
comment are deliberate mistakes used to test that the properties can fail. No specification uses
them.

## 3. Runs

| run | instance | shows |
|---|---|---|
| `stream_safety` | 3 jobs in a chain of dependencies, 2 exporters, steps of 2, chain up to 3, end block 3, file recorder, node lag 1, 3 retries, 2 faults, 1 crash (241,000 states) | `NoSilentGap`, `DerivedFromStored`, `NoLeftovers`, `MemoryMatchesRecord`, `RecordNeverRegresses`, and the refinement of `BlockSync`, under errors and crashes at every step |
| `stream_liveness` | 2 jobs, `--start-block` 2, database recorder, no end block, chain up to 4 (56,000 states) | the mission catches up with every block no node can hide |
| `stream_poisoned` | as above, without start block | violation, finding 1 |
| `stream_partial_jobs` | the same | violation, finding 2 |
| `executor` | 4 items in batches of 2, 2 workers, 2 executions, 2 retries, 2 faults, fair (433,000 states) | each item once, nothing after return, fail fast, poison stays; every execution ends |
| `scheduler` | all declarations of 4 jobs over 2 types, all requests (589,000 states) | dependencies first, each once, least closure, cycles refused |
| `tokens_safety` | missions on blocks 1-3 and 2-3, 3 contracts, steps of 2, 1 failure, 1 crash (165,000 states) | completeness and freshness of each token table |
| `tokens_stuck` | 1 mission, 1 token, 2 blocks, fair | violation, finding 3 |
| `bridge_safety` | 21 histories of two rollups, L1 to block 3, L2 to block 2, 2 failed rounds (7,000 states) | every recorded event has its row, rows are not mixed from other events, what is shown is true and never goes back |
| `bridge_states` | the same without failures | violation, finding 4 |
| `chain_data` | 4 missions on a chain of 7 blocks, steps of 2, 2 faults: answers left out, failed rounds, restarts; fair (40,000 states) | `CompleteOnceSynced`, `CountsAreBacked`, `KnownIsStored`, `ActivenessExact`, `OperationsArePaired`, the refinement of `Tables`, and that nothing but an obstacle in the chain holds a mission up |
| `explorer` | 30 requests, 3 blocks on 2 days, pages of 2, 2 walks (3.24 million states) | totals lie between what there was and what there is; a walk misses nothing |

Why the bounds are enough. Two rounds make every interaction between a round and the next; steps of
2 make a round of several blocks and a last one that is shorter. Two faults are needed for a fault
in the retry of a failed round, and a crash besides for one in between; more of them repeat the same
states with a larger counter. Three jobs in a chain have a job whose input is itself derived. Two
exporters have a crash between them. In the executor two workers race on the batch size, two batches
of two allow one to fail while the other runs and make a third submission block, and a second
execution meets what the first left. Four jobs and two types
have all shapes of dependency, among them two types of one job, a type with two producers, a job
that reads its own output, and cycles. In `tokens_safety` the missions overlap in two blocks, so
each table meets newer rows of another mission, and the chain has a mint, a move and a burn of one
id and two ids of one contract in one block. The bridge histories put every event of a withdrawal in
the first or the second round of its mission, both missions in either order, and have one history
for each way a parser or the converter fails. The chain of `chain_data` has three rounds of two
blocks and a shorter one, nested calls, a delegatecall, a transfer to oneself, a creation that failed
and one that did not, a block without transactions, pools created before, in and after their first
swap, a position that is minted, moved and burned, and bundles of each shape; two faults let an
answer be missing in the attempt before or after a failed one. In `explorer` the second day is still
being indexed while the first is aggregated, block 2 fills a page, and the third block arrives while
a client turns from page 1 to page 2; the second walk is the one the cache may answer.

`CHECK_DEADLOCK FALSE` stands where missions have an end block and stop, or get stuck for good:
token, bridge and chain runs; and in `explorer`, where the client makes a bounded number of walks.
Elsewhere an end is an explicit stuttering step.

Fairness. `stream_liveness` has weak fairness of the main thread (it does not stop between two
statements), of `Boot` (the container is restarted unless stopped) and of `GrowChain`; none of
errors, crashes, late workers or of how fresh a node's answer is. Errors and crashes are bounded in
number, so the run shows that finitely many of them do not stop a mission; it uses a database
recorder, as a torn file stops the mission for good (below). `executor` has weak fairness of the
main thread and of each worker, none of `Begin`. `tokens_stuck` has weak fairness of each mission.
`chain_data` has weak fairness of the steps of a round, the retry after a missing receipt included,
none of failures and restarts, which are bounded in number. The other runs assume none.

## 4. Proofs

The theorems hold for all values of the constants that satisfy the module's named assumption, which
TLC evaluates in every run.

**StreamIndexer_proofs** (`TypeCorrect`, `NoGap`, `SinksAreClosed`, `LeftoversStay`,
`MemoryIsBehind`, `RecorderAdvances`, `Refinement`). `NoSilentGap` is not inductive: that recording
`target` is right depends on what was exported since the round began. `IInv` adds, in the order of
the argument: `Position` (a round has `last < target`, and its job is in the list); `Quarantine`
(what a failed attempt leaves in the buffer, or still holds, belongs to a job whose executor is
poisoned, and no round gets past such a job - so leftovers never meet an export); `Buffered` (the
buffer of a job that has run holds each block of the round, if the job list is complete);
`Stored` (what the jobs before the running one buffered is in every sink); `Accounted` (so the
promise holds for what memory, the record about to be written, and the recorder say).
`RecorderAdvances` follows from `MemoryMatchesRecord`, `Refinement` from `Accounted` and the fact
that sinks only grow. The proof shows which fact keeps late workers harmless: the very poison that
makes retries useless.

**JobScheduler_proofs** (`TypeCorrect`, `DependenciesFirst`, `ListIsComplete`, `ClosureIsLeast`,
`CyclesAreRefused`). `Closing`: every closed set contains what is required, and what is needed is
wanted or has its producers required. `Degrees`: an in-degree counts the edges from unplaced jobs,
which needs a lemma on the cardinality of edge sets that split along a placed job. `Ordered`:
placed jobs are distinct and have their parents before them. A cycle that is left over is a set in
which every job has a parent, the negation of what an order allows.

**BatchWorkExecutor_proofs** (`TypeCorrect`, `EveryItemOnce`, `Quiet`, `FailsFast`, `PoisonStays`).
`Counted`: every item that was taken is pending in exactly one place (the next batch, or what a
task has still to do) or has been collected once. `Tracked`: a task that has not succeeded has its
future in the list. `Doomed`: after an error, or a submission after a failure, every check meets a
failed future before the next submission. The lemma `WorkerProgress` treats the worker's steps
alike: a task gives up part of what it has to do and that part is collected.

**Explorer_proofs** (`TablesTypeOK`, `TablesNoOrphans`, `TablesNotAhead`, `TablesRowsStay`,
`TablesRecordedIsFinal`; `ExplorerTypeOK`, `ExplorerTotalsAreExact`, `ExplorerWalkMissesNothing`). The first
five are about `Tables`,
for every set of rows, every relation between them and every batch size: no row without the row it
refers to, none beyond the round at hand, none taken away, and the rows of a recorded block final.
`TablesInv` adds to `NotAhead` that the recorded block never falls below the first one. No run checks
these by themselves: `KeepsThePromise` below shows that the chain jobs implement `Tables`, and what
`Tables` promises then holds of them.

The three others are about any request, in whatever order its queries meet commits, records and
aggregations. `Typed` is `TypeOK` with the rest of the types: how far the request is in its queries
(`OnTrack`, after `Shape`, what is known of a request from its rule) and that the answers in the cache
are its. `PageFacts` says what any of `PagesOf` holds: as many rows as the page cuts from all of them
(`Cut`), and of those without ties the ones that are in their place. `TotalsAreExact` speaks of finished
answers, so `Course` follows the request; `View` is what a query sees (the rows that match, the day of the
statistics, the newest block):

- `OnCourse` says for each `Stage` of the queries what was read so far. After the first of two counts,
  the number lies between what there was and what there is of the days it covers; `Summing` and `Split`
  add the other one, read at another time: no day is left out, and none is counted twice but those
  aggregated since the request began. A short page that is not empty, or is the first, ends the list, so
  the rows before it and its own are a total (`ShortTells`).
- `SoundIn`: the total of an answer lies between its bounds, of the last answer and of each one in the
  cache. `StaysTrue` shows that it stays there while the tables grow (`Onward`), which is why an answer
  from the cache is as good as a new one.
- `KeptIn`: what the request found when it began still matches.
- `RecordedStored`: what the request reads of a recorded block is in the tables. With
  `JoinsAssumption`, this makes recorded rows match although the list joins others to them.

`WalkMissesNothing` speaks of several answers, given at different times and some of them old ones from the
cache. Four more parts say what is known of a walk (`WalkKnown`):

- `Grounds`, of the tables: rows come after those they refer to, blocks in ascending order, and days that
  are aggregated are recorded.
- `ListsKept`, of lists: there is a history `H`, where `H[n]` is what the tables held when they had `n`
  rows (`Chain`; tables only grow, and an answer carries the number as its `version`). An answer is a page of
  what `H` held at its version (`Told`), which contains what there was when it was asked for (`HadBy`).
  `Walked`, the heart of it: after `n` pages, each row the walk is to see has been seen, or `n` pages'
  worth of rows are ahead of it in the last version read. Rows that are indexed later only push it back, and
  `PageTurns` shows that it cannot jump over the page that is read, which is at least as new as the last
  one. At a short page fewer rows exist than `n` pages hold, so none is left (`ListMissesNothing`).
- `NumbersKept`, of the list of blocks, whose pages are numbers counted down from the newest block.
- `WholeKept`, of what is read whole: the answer has what there was. That no error is answered for what
  was there rests on the order of the commits (a block before its transactions, an earlier block before a
  later one) and, for exports, on the tokens of days that were over.

The assumptions are `TablesAssumption`, `ExplorerAssumption` (days go up with the blocks),
`RecordsAssumption` (finitely many rows; one row for the number of a block and the index of a batch, as
there are no reorganisations and the index is the primary key of the batches), `RequestsAssumption` (a
request is that of one of the endpoints; `Endpoint` lists them) and `JoinsAssumption` (a log's transaction
and a transfer's token come no later than it: the first is of the same block, and the token is described
in the round in which its first transfer is seen). For walks three more are needed: `TokensAssumption` (the
same of a token that is read beside its transfers), `ParentsAssumption` (a transaction, a transfer and a
call refer to their block, themselves or through the trace, as `ParentOf` of ChainData has it) and
`EarlierAssumption` (a block whose detail is asked for is block 1 or has the one before it among the rows of
the mission: of the first block of a mission that starts later the detail raises, see the observations in
section 5). `Write` commits blocks in ascending order, as
`ExportBlocksJob._process` sorts them (`export_blocks_job.py:88`).

**Features_proofs** (`KeepsThePromise`, `NothingIsLost`, `CountsStayBacked`, `KnownStaysStored`,
`CountsAreExact`, `OperationsStayPaired`, `TypeCorrect`), about the specification of `Features`, the
chain jobs together with the feature jobs. `IInv` has four parts: `Staged` (the stage is in the plan,
and a round runs only while blocks are left); `Filled` (an item in the buffer is a row of a block of
the round, and the row it refers to is in the buffer too); `Fresh` (what a job has not collected yet
is not there, so a round never exports what a failed one left); `Exported` (a type whose turn is over
is in its table). With the order of the plan, that makes a commit write rows after the rows they
refer to. `CompleteOnceSynced` speaks of rounds that are over, so `Told` adds what holds while one
runs: each job that is done has, for what it asked, an item or a request without an answer, and a
round is past the export of transactions only if each has its receipt (`ReceiptsTold`) - the
converter that raises is what keeps their logs complete. `RoundPaid` then collects these when the
round is recorded. The assumptions are `ChainAssumption` (the ranges of the chain's data; no two
transactions share a place) and `PlanAssumption`: the jobs come once and in the order of their
dependencies, as `DependenciesFirst` and `ListIsComplete` of JobScheduler establish, each before
the types it exports, and a mission that exports a type exports the type it refers to before. A
mission for logs without their transactions is outside the theorems.

The five others build on these two. `Answered` is what the collects leave in the buffer, as far as the
feature jobs read it: the transactions and logs of a round are those of its blocks that were
answered, and `CompleteOnceSynced` turns them into what is recorded. On top of it stands one
invariant for each group of tables, and none of the four speaks of the tables of another:

- `CountsInv`, for `CountsAreBacked`. A block has one trace row or several; those in the buffer are of
  one attempt (all calls, or the placeholder), those stored of any number of attempts. `Backed` says
  that the count is that of one of these two sets and that the set is stored whole, so the count is
  off by at most the placeholder. That `CommitCounts` counts what is stored needs `Trace` before
  `UpdateBlockInternalCount` in the plan.
- `UInv`, for `KnownIsStored`: a pool or position that the process knows has its row, or has an item
  in the buffer, or is in `lost` (`PoolsKept`, `PositionsKept`); once its job had its turn, what the
  round's logs speak of is known (`PoolsPriced`, `PositionsTouched`). A failed round moves items to
  `lost`, a restart empties it, for the caches are read from the tables.
- `ActiveInv`, for `ActivenessExact`: `stats` in memory runs ahead of the table by the transactions
  of the round once the job had its turn (`StatsCount`, `CurrentCount`). The counts add up since the
  blocks of a round are disjoint from what is recorded; an address of a failed round is in `recounted`.
- `OperationsInv`, for `OperationsArePaired`. Its core is about the data: in a bundle whose events
  match its input, the rank of a log among the logs of the bundle and that of an event among the
  events determine `ResultsOf`, and the segments between two events are disjoint. These facts are
  proved for every finite set of logs with distinct places.

The assumptions on the data are `FeaturesAssumption` and `LogsAssumption` (a log has a place of its own in a
transaction of the chain; the factory announces its own pools; a transaction has one bundle; an operation's hash
is its own), that on the plans `FeaturePlanAssumption`: a feature job comes after the jobs whose output it reads and before its
own types, the filters of a mission ask for the logs of its jobs (`get_filter` of each), and the activeness job,
which has no filter, is in no filtered mission. The properties are conditional on the types they speak of being exported
(`Runs`), as a mission that does not export them has no such tables.

**Bridge_proofs** (`TypeCorrect`, `EverythingIsStored`, `ShownTruly`, `NothingGoesBack`), for every
history of the two chains. `IInv` adds to `TypeOK`: `Gathered` (the buffer of a round under way is
what its blocks give, so an attempt after a failure gathers the same); `Committed` (the items of a
type whose turn is over have rows; with `AfterFacts`, by which the export passes over no type that
has items, all of them have at the end); `Sourced` (every row is that of one item that was
converted); and `Kept`, the first half of `MessagesStored`. `Moves` treats the steps within a round
alike. That a round of blocks gives exactly the items of these blocks (`ItemsOfRound`) needs
`HistoryAssumption`: the two events of a message are of one transaction. Its other half, that an
output covers what the outputs before it cover, is what keeps the shown state from going back when
a higher output arrives. `Sourced` also says why no withdrawal is shown as relayed: a row is of one
item and has one column, and `ShownTruly` proves that state 5 is never reached, which is the first
half of the finding below for all histories.

**TokenStore_proofs** (`Typing`, `NoTransferMissed`, `NoUpsertRefused`, `TokensKeepTheirType`,
`RowsCurrent`, `NothingGetsOlder`), for every chain and any number of missions. `IInv` has a part
about the tables and one for each mission. `Rows`: a row is of its contract's type; a current balance
is that of a transfer and has its row in the history; an id whose first mint is seen by every mission
that sees a later move has its uri. `Local`, for a mission: `GatheredBy` (the buffer is what the jobs
that had their turn make of the round's transfers); `CommittedBy` (the items of a type whose turn is
over are in the tables, or something newer is); `CachedBy` (a token the process knows has its row, or
its item is still to be committed, unless it is in `lost` - the cache invariant that a failure
breaks and a crash does not); `KeptBy` (what a recorded transfer says is in the tables). The tables
are shared, so a commit must leave the other missions' parts true: every step is shown to be
`Improve`, what no commit takes back, and `AppliedStays` and `StoredStays` show that this is enough.
The argument for `KeptBy` is then that of one mission: `RoundStored` adds up what was committed in a
round, for the block at which it ends. That the update of an id never makes its row, which would
have no uri, needs the order of the export and `MintComesFirst`: at a mission that commits the
update, the first mint is recorded or in the round, and its item was committed before.

`SequenceLemmas` has what they need of `RemoveFirst` and `Min`. Assumptions: only those of the
modules (`StreamAssumption`, `SchedulerAssumption`, `ExecutorAssumption`, `TablesAssumption`, `ChainAssumption`,
`PlanAssumption`, `FeaturesAssumption`, `LogsAssumption`, `FeaturePlanAssumption`, `BridgeAssumption`,
`HistoryAssumption`, `TokenAssumption`, `ExplorerAssumption`, `RecordsAssumption`, `RequestsAssumption`,
`JoinsAssumption`, `TokensAssumption`, `ParentsAssumption`, `EarlierAssumption`).

Only model-checked: liveness (`CatchesUp`, `Returns`, `Reaches`), which the prover does not
reach. Every invariant and every action property of a passing run is a theorem.

## 5. Findings

1. *A failed future fails every retry* (`stream_poisoned`, `FailureHasCause`).
   `_check_completed_futures` raises in `future.result()` before it removes the future
   (`batch_work_executor.py:130`), and jobs keep their executor. Each retry of the round raises the
   first attempt's error before a request is sent, until the limit ends the process; only the
   restart helps. The same poison is what keeps late workers' items from being exported.
2. *A job list that is cut short is taken for complete* (`stream_partial_jobs`, `ResumeIsSafe`).
   When a constructor raises in `instantiate_jobs`, the retry runs the jobs built so far, without
   `ExportBlocksJob`; nothing is exported and the block is recorded.
3. *A token without a type* (`tokens_stuck`, `Resumes`). Tokens are cached before they are exported.
   After a failed export the retry writes an `UpdateToken` without a `Token`, a row without a
   type; every later process raises at that token's next transfer.
4. *The second side of a bridge message is dropped* (`bridge_states`, `RelayedIsShown`). All bridge
   domains are inserted ON CONFLICT DO NOTHING although several fill one row: a withdrawal passed
   first stays "Ready to Prove" for ever; one proven first is never listed.

Observations the models contain but no finding is made of:

- Loop and recorder: a recorder file that is truncated when the process dies does not parse, and each
  restart ends at once (`BootLoop`); block 0 is synced only with `--start-block 0`; with
  `--start-block` every restart begins anew and the recorder goes back.
- Executor: a batch-size "increase" is twice the length of the batch that succeeded
  (`batch_work_executor.py:99-107`); after the short last batch of an execution it shrinks the size.
- Tokens: the balance tables' keys leave out the token id, so ids of one ERC1155 contract share a row.
- Bridge: the message hash of an Arbitrum withdrawal is a number that `general_converter` cannot
  convert, so the mission cannot export its block; so do an inbox message of an unknown kind and a
  withdrawal that did not pass the messenger; Arbitrum batches posted by an unknown call all have
  index 0.
- Chain jobs: an answer that is left out loses its rows for good, silently, in a filtered mission even
  a receipt (no transaction is exported there that could raise); a block without transactions stops
  the traces job in every attempt (`export_traces_job.py:201`); the internal transaction count of a
  block is always 0 (`export_traces_job.py:77`); contracts created inside a call that was reverted
  have rows; a placeholder trace stays beside the traces of a later attempt.
- Features: a contract in the round stops the activeness job (`export_activeness.py:83` adds to a
  dictionary); counts of a failed round are added again; a pool first seen by a swap has no fee, and
  neither has one that is created and swaps in one round; `_exist_token_ids` is read back with tuples
  for keys, so after a restart every position counts as new; the holdings of a burned position stay;
  a bundle sent through another contract stops the operations job; without a BeforeExecution the last
  operation of a bundle is left out.
- Explorer: an empty page after the last one of a day tells the number of all transactions, contrary
  to the comment at `explorer/routes.py:501`; an export of a day after the last block starts at
  block 0; the detail of a block raises when the block before it is missing (a mission that starts
  above block 1, or a block whose answer was left out); transfers are committed before their tokens,
  so a transaction's transfers are listed without them, and kept in the cache for six minutes, an
  export of them raises (`explorer/routes.py:2097`), and a token is "not found" whose transfers are
  there; an export of transfers joins the transactions, which a mission may not export; the L2 lists
  without a filter raise, for `DailyBridgeTransactionsAggregates` is commented out
  (`l2_explorer/routes.py:14`); `token_holder_list` reads columns that `CurrentTokenBalances` does
  not have (`explorer/routes.py:2130`).

## 6. What the models assume

- One item per job and block in StreamIndexer: what matters is which blocks are complete.
- An error of any kind may strike any call. In ChainData a node may also leave answers out of a batch;
  elsewhere it answers all requests or the batch fails.
- A handler that raises a retry exception does so from its RPC call, before it collects anything.
- The items of one type are one commit (`COMMIT_BATCH_SIZE` cuts very large ones into several): in
  StreamIndexer a failed export leaves any part of a job's items, in TokenStore and Bridge whole types.
- A commit of the recorder whose outcome is unknown may have taken effect.
- `get_last_synced_block` answers 0 when nothing is recorded; the row it writes then is left out.
- A contract emits one kind of transfer event, and what a node answers at a block does not change:
  reorganisations are out of scope (README.md:46 claims them, but `FixingController` cannot be
  constructed and `FixingBlockConsensusJob` has no body).
- A TokenStore process whose executor is poisoned is one that ends (`Crash`), by
  `PoisonIsPermanent`.
- An OP Stack output covers a withdrawal before the withdrawal is proven; both events of an Arbitrum
  message are in one transaction. The clock that moves a withdrawal from state 3 to 4 is left out.
- Logs and transactions have the place they have on the chain; a PoolCreated comes from the factory, a
  UserOperationEvent from the entry point. The values of a row do not differ between two attempts.
- The statistics the explorer reads are written by a program outside this repository: of whole days
  that are over and indexed. A commit of several rows is as many of one row in Explorer.

## 7. What is not modelled

- File exporters: `batch_finish`, which merges the temporary files, is never called and each batch
  deletes the ones before (`json_file_item_exporter.py:66`), so there is no promise over rounds to
  state. `PostgresItemExporterV2` is unused.
- Which records the exception recorder loses when a flush fails, and its two locks: nothing reads the
  records.
- Explorer: token holders and holdings, search, gas and daily charts, contract verification and the
  call tree of a transaction, which are single queries or reads of tables that other programs write;
  zk, Linea and Mantle tables, which no job fills.
- `FixingController`, which cannot be constructed, and `FixingBlockConsensusJob`, whose body is a
  string.
- The arithmetic of Uniswap prices and ticks, amounts, gas, ABI and hex conversions that do not decide
  what is stored.
- Formatting, configuration, migrations, command line: no state of their own.

## 8. Plan

Order: what the recorder promises first, then what its promise rests on, then the tables, then their
readers.

1. BlockSync, StreamIndexer, JobScheduler, BatchWorkExecutor with their proofs - done.
2. Bridge and TokenStore with their proofs - done.
3. Tables, ChainData and Features, with the proofs of what the chain tables promise - done.
4. Explorer - done.
5. Proofs of the properties of Features - done; of those of Explorer - done.
6. A liveness run of TokenStore on a smaller instance. On the one of `tokens_safety` it takes too
   long; `TokensDescribed` is its safety form.
