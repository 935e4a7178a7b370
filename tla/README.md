# Lineage Vault: TLA+ models and proofs

This directory holds the TLA+ development kept beside `lineage_vault`: models of
the parts of the program that keep state, TLC configurations that check them on
small instances, and proofs, checked by TLAPS, that hold for every instance.
`PROJECT.json` lists components, runs, the source lines each definition stands
for, findings, hazards and theorems. Paths below are relative to
`src/src/lineage_vault/`, those that start with `docs/` or `tests/` to `src/`.

- [1. What is promised, and what is true](#1-what-is-promised-and-what-is-true)
- [2. Inventory](#2-inventory)
- [3. The modules](#3-the-modules)
- [4. The runs](#4-the-runs)
- [5. Fairness](#5-fairness)
- [6. Proofs](#6-proofs)
- [7. Findings](#7-findings)
- [8. What is not modelled](#8-what-is-not-modelled)
- [9. Plan](#9-plan)

## 1. What is promised, and what is true

The vault's promise is in `docs/crash-semantics.md`: a write that was
acknowledged survives any crash, a staged write is completed by recovery from
the staged payload only, nothing else ever enters the ledger, an idempotency key
stands for one event, and the hash chain verifies. The result of this
development in one table:

| claim | SQLite, one process | SQLite, several processes | PostgreSQL, any number |
|---|---|---|---|
| acknowledged writes survive, keys and events are one to one, ledger and staging flags agree, history is append-only | proved | proved | proved |
| the hash chain verifies in every durable state | proved | **false** (run `sqlite_chain_fork`) | proved |
| an unlocked `verify_integrity` answers false only if a transaction was rolled back while it fetched | proved; after a rollback it may be **false for nothing** (section 7) | not modelled | not modelled (one SELECT is one snapshot) |
| the statements of the methods implement atomic methods | proved | not claimed | not claimed |
| locks are released, staged events are promoted in the end | checked (with faults) | checked (with faults) | checked (with faults) |
| the lineage graph agrees with the ledger and the replies | proved, with **gaps** (runs `service_*`) | not modelled | not modelled |
| `field_impact` is complete and agrees with the graph; queries end | proved; the second checked | not modelled | proved, one process; the second checked |
| a database that a process has opened is migrated in full; processes that open it at once get in | proved, the second checked | proved, the second checked | proved, the second checked |

Of the parts that use no backend: the legacy two-file WAL never flags what it
has not ledgered (proved), and replays every staged row that is not behind one it can
never append (checked; section 7 says when there is such a row); a `stop()` of the asyncio
pipeline that had workers to wait for, and returns, has drained the queue (proved; without
workers it returns at once); an event the compliance agent
passes keeps every field it declared readable (proved).

## 2. Inventory

Each component, the state it keeps, what it does, what it calls, what is hard
about it, and what makes it correct.

**Hash chain** (`storage/ledger_chain.py`, the two `verify_integrity`). No state:
`entry_hash(prev, event_id, payload)`. Correct when each entry names its
predecessor's digest. Hard: the head is read by one statement and used by another.

**SQLite backend, ledger half** (`storage/sqlite_backend.py`). State: the tables
`idempotency`, `ledger`, `wal_staging` in one file; per process one connection, shared by
all threads, and one `RLock`. Operations: `stage_partial`, `acknowledge_write(s_batch)`,
`recover_uncommitted`. Called by the engine, the ingestor, the API's lifespan and the CLI.
Hard: Python's `sqlite3` opens a transaction at the first write and not at a SELECT, so what
is read before it is not protected by the file's lock; a batch is several statements, any of
which can fail; several processes may have the file open (the API, `lineage-vault` on the
command line); a crash may come anywhere, also between commit and reply; `/health`, `/ready`
and the POST replies run `verify_integrity` without the lock, row by row, on the connection
that writers use meanwhile. Correct: `AckedDurable`, `TablesAgree` (one event per key,
ledger entries and staging flags are one to one, every claim is ledgered, a recovered entry
has the staged payload), `ChainIntact`, `FalseOnlyAfterRollback`, `HistoryOnlyGrows`,
`RecoveryDrains`, `LockIsReleased`, `StagedIsPromoted`.

**SQLite backend, lineage half** (same file). State: `dataset_edges`,
`field_mappings`, `run_events`, and a NetworkX graph in memory that is loaded when
the file is opened. Operations: `add_dataset_edge`, `record_field_mapping`,
`store_run_event`, and the queries `upstream_datasets`, `downstream_datasets`,
`field_impact`, `edges_at`. Hard: these methods do not roll back when a statement
raises, so their rows stay in an open transaction of the shared connection; the
graph is a cache; the queries take no lock, run several SELECTs on the writers'
connection and read the graph last. Correct: `GraphIsDurable`,
`MappingsFollowGraph`, `ImpactIsComplete`, `ImpactIsDownstream`, `QueriesEnd`.

**PostgreSQL backend** (`storage/postgres_backend.py`,
`storage/postgres_migrations.py`). The same tables behind a connection pool; an
advisory transaction lock serialises the writers of the ledger, in all processes.
`stage_partial` takes no lock. Hard: READ COMMITTED snapshots per statement, rows
that are staged and committed in the middle of a locked transaction, `ON CONFLICT`
waits, the pool's bound, a commit whose reply is lost. Correct: `ChainIntact`,
`AckedDurable`, `TablesAgree`, `HistoryOnlyGrows`, `CallsEnd`, `StagedIsPromoted`.

**Schema migrations** (`_migrate` of both backends, `storage/migrations.py`,
`storage/postgres_migrations.py`). State: the tables themselves and
`schema_migrations`. Run by every process that opens a database. Hard: nothing keeps
two processes from migrating at once; SQLite commits each CREATE on its own, so a crash
leaves half a schema; PostgreSQL waits for the other's transaction and then fails.
Correct: `RecordedIsBuilt`, `OpenIsMigrated`, `OpensInTheEnd`.

**Storage selection** (`storage/factory.py`, `storage/config.py`). Reads the
environment and constructs a backend.

**Engine facade** (`engine.py`). Holds a backend, a compliance agent, and facades with the
names of the older stores. `_persist_event` acknowledges an event, runs the compliance check
and adds the event's edge. Hard: the edge is a second transaction; the duplicate flag of the
acknowledgement is dropped. Correct: what is answered is durable.

**OpenLineage ingestion** (`openlineage/ingest.py`). `ingest`, `ingest_batch`:
one acknowledged batch, then for each event that is not a duplicate one
`store_run_event` and, for COMPLETE, the edges and field mappings, one
transaction per call. Hard: a crash, an error, a retry or another event under the
same key between those transactions. Correct: `LineageIsLedgered`,
`AnsweredHasLineage`, and (not so) `AcknowledgedHasLineage`.

**OpenLineage model and impact analysis** (`openlineage/models.py`,
`openlineage/impact.py`). Parses run events into datasets and field maps; two
queries on the backend. No state.

**HTTP API** (`api/app.py`). One engine per process, made and recovered in
`lifespan`; handlers run in a thread pool. Hard: everything above, concurrently;
header keys that apply to a whole batch.

**Legacy WAL and ledger store** (`wal/recovery.py`, `ledger/store.py`). Two
files, two connections, no lock. `stage`, `commit`, `replay_pending`. Hard: a
crash or an exception between the two files' commits. Correct:
`FlaggedIsLedgered`, `LedgeredAsStaged`, `ReplayDrains`, `StagedIsReplayed`.

**Time travel** (`timetravel/query.py`, GET `/snapshot`). Filters edges and ledger
payloads by time. Hard: times are aware of a time zone or naive, depending on who wrote
them. Correct: (not so) `SnapshotAnswers`.

**Legacy graph store** (`graph/store.py`). One table of edges and its graph.

**Asyncio ingestion pipeline** (`ingestion/pipeline.py`). State: a bounded queue, worker
tasks, a counter of refused events. `start`, `ingest`, `stop`. Hard: the order in which
coroutines resume; a handler's exception ends its worker; `stop` puts its pills into the
same bounded queue, and may be called before `start`. Correct: `AcceptedInOnePlace`,
`ReturnedIsDrained`, `AcceptedIsTaken`, `StopEnds`.

**Schema engine and compliance agent** (`schema/engine.py`, `compliance/agent.py`):
pure functions of two schemas. Correct: a verdict means what its name says
(`VerdictIsExact`, `OkIsSafe`, `OkComposes`).

**Lifecycle optimizer** (`lifecycle/optimizer.py`), **event models**
(`models/events.py`): a rule per row, and data classes.

**Metrics and logging** (`observability/metrics.py`): process-local counters.

**Command line, benchmark, demo** (`cli.py`, `benchmark/harness.py`,
`demo/pipeline.py`): drivers of the engine.

How they interact: the API, the CLI and the demo call the engine; the engine and the
ingestor call the storage interface; the ledger half and the lineage half of a backend share
one connection and its lock, and nothing else; the legacy WAL, ledger store and graph store
are an older stack the tests still use (the engine's time travel runs on facades of the
backend); the pipeline is given an async handler and is independent of both.

## 3. The modules

```
LedgerChain <- VaultTables <- SqliteLedger (INSTANCE VaultContract) <- MCSqliteLedger
                                <- IntegrityScan, with MCSqliteLedger <- MCIntegrityScan
                           <- PostgresLedger <- MCPostgresLedger
                           <- LegacyWal     <- MCLegacyWal
                           <- VaultContract <- VaultService (INSTANCE), with OpenLineage
                                               <- TimeTravel <- MCVaultService
OpenLineage <- LineageQueries <- MCLineageQueries
IngestionPipeline <- MCPipeline
Migrations
SchemaCompat <- MCVaultService (INSTANCE)
```

The proofs of a module M are in `MProofs`, which extends it; those of IntegrityScan are in
`SqliteLedgerProofs`, those of SchemaCompat, which are short, in `VaultServiceProofs`.

**LedgerChain.** `entry_hash`, `NewEntry`, `last_hash`, `verify_integrity`.
SHA-256 is idealised as free of collisions: a digest *is* the sequence of
(event, payload) pairs it commits to.

**VaultTables.** The three ledger tables and what each group of SQL statements
does to them: `InsertOrIgnore`, `MarkCommitted`, `Conflict` (PRIMARY KEY and
UNIQUE), `WriteItem` (the four writes of a new batch item), `StageRow`,
`FlagRow`, `PromoteRow`; and the relations the tables owe one another
(`Consistent`, `Extends`). `AfterItems` is what the first n items of a batch make of the tables,
one `AcknowledgeItem` after the other, and `AfterRows` the same for the staged rows of a
recovery (`RecoverStaged`). `idempotency` is a set of rows; `ledger` and
`wal_staging` are read in AUTOINCREMENT order and are sequences.

**SqliteLedger.** The ledger half of the SQLite backend.

| variable | in the code |
|---|---|
| `disk` | the committed contents of the file |
| `conn[p]` | process p's connection: its open write transaction, if any |
| `lock[p]` | `self._lock` |
| `call[t]` | the method thread t is in, its locals and its place in it |
| `acked` | history: what clients were told is acknowledged |
| `faults` | crashes and I/O errors so far (bounded by `MaxFaults`) |

| action | statement |
|---|---|
| `Stage` | `stage_partial`, one INSERT and its commit |
| `AckBegin` | lock, SELECT of the claimed keys |
| `AckDuplicate`, `AckInsert` | one turn of the loop |
| `AckCommit`, `AckAnswer` | `commit()`, and the return to the client |
| `RecoverBegin` | lock, SELECT of the uncommitted rows |
| `RecoverFlag` | the event is ledgered: UPDATE only |
| `RecoverRead`, `RecoverAppend` | the SELECT of the head, and the INSERT that uses it |
| `RecoverCommit` | `commit()` and return |
| `ConstraintFails`, `BusyTimeout`, `StatementFails` | the `except` branch: rollback and raise |
| `Crash` | the process dies, its successor opens the file |

`CanWrite` is SQLite's one writer per file; `View` is what a statement reads.
The four writes of one new batch item are one action: the first opens the
transaction and takes the file's lock, so no other connection sees or does
anything between them; a failure among them is `StatementFails`.

**IntegrityScan.** `verify_integrity` of the same backend next to those statements. Its
`fetchall` steps a SELECT row by row, without the lock, on the connection of its process.
`scan[p]` holds its place and the rows it has; `ScanBegin` is the SELECT, `ScanRow` fetches
the entry after the last one *as the connection sees it then* (`View`), `ScanAnswer` ends
the fetch, and `Answer` is the loop over the rows. In SQLite neither a commit nor a rollback
on the connection ends an open SELECT, so it may go on in other tables than it began in;
`Meanwhile` is a thread's step next to it, which only notes a rollback (`undone`). One scan
at a time is enough, since scans write nothing. An open SELECT also fixes what its process
sees of another process's commits; the instance and the theorem are about one process.

**PostgresLedger.** The ledger half of the PostgreSQL backend: processes with
bounded pools on one server.

| variable | in the code |
|---|---|
| `disk` | the committed tables |
| `holder` | whose transaction has the advisory lock |
| `txn` | the tables as a statement of that transaction sees them (READ COMMITTED: what is committed by then, and its own writes); equal to `disk` when nobody has the lock |
| `call[t]` | the method thread t is in; it has a pool connection as long as it is in one, waits included |
| `acked`, `faults` | as in `SqliteLedger` |

`AckCall`, `RecoverCall` and `StageCall` borrow a connection, `AckBegin` and `RecoverBegin`
are granted the lock, and then come the statements up to `AckCommit` or
`RecoverCommit`. `Stage` is the INSERT of `stage_partial` with its commit, possible while
others hold the lock and seen by the holder's next statement. INSERT and commit are one step:
in between, the row can only make another INSERT of the same event wait, and that
one continues with the committed row. It waits itself, with its connection, while the holder
has inserted the event (`Inserting`). A turn of recovery's loop is one step: what its
statements read (the entries, the flag of a staged row) nobody writes without the
lock. Under the lock the loop never meets a row whose event is ledgered already:
the branch is in the model, and the proof covers it, but it is never taken.
`StatementFails`, `ConstraintFails` and `Crash` roll back, which releases the
lock; `CommitReplyLost` is a commit that is durable although the caller gets an
exception.

**VaultContract.** What `docs/crash-semantics.md` and ADR 0002 promise callers:
`acknowledge_writes_batch`, `stage_partial` and `recover_uncommitted` as one
atomic step each, and `Answer`, which may only name claims that are durable.
`SqliteLedger!ImplementsContract` is `VaultContract!Spec` with `db <- disk`.

**OpenLineage.** The rows one run event makes `_record_lineage` write, as a
sequence of storage calls: the nested loops over outputs and inputs, the fields
of the same name, then the column lineage facet (the first input field of each). A field map that is
empty makes no call (`MappingCalls`).

**VaultService.** One API process on top of the contract: the three POST
endpoints, `ingest_batch`, `_persist_event`, and the lineage tables.

| variable | in the code |
|---|---|
| `db` | the ledger tables; changed only by `VaultContract`'s actions (`Vault == INSTANCE VaultContract`) |
| `lineage` | durable rows of `run_events`, `dataset_edges`, `field_mappings` |
| `view` | the same as the shared connection sees them |
| `graph` | `self._graph` |
| `thread[t]` | the handler's results, and the storage calls it has left |
| `ids` | event ids drawn from `uuid4` |
| `answered` | replies given |

Using the contract here is justified by `ImplementsContract`, which is proved
for one process. A row of `lineage` also carries whose it is, which
the code does not store; the properties need it. `StoreFails` is a storage call that
raises: some of its rows stay on SQLite's connection, or none do (PostgreSQL's pool rolls
back), or its commit took effect all the same. So the handlers of one process on PostgreSQL
are behaviours of the module too, with `view` and `lineage` equal.

**TimeTravel.** `snapshot` over that state, with `edges_at`. Of a time it keeps whether
Python takes it for aware or naive, since comparing the two raises (`NoAnswer`).

**SchemaCompat.** `classify_compat` and `check`; three theorems say what they mean.
`_persist_event` computes the verdict and drops it, so `VaultService` needs none.

**Migrations.** The loop of `_migrate` on either backend.

| variable | in the code |
|---|---|
| `db` | committed objects and version rows: `<<v, n>>` is what the n-th statement of migration v makes |
| `txn[p]` | those of process p's open transaction |
| `call[p]` | the statement of `_migrate` process p is at, and whether it has waited |
| `backend`, `faults` | as elsewhere |

SQLite: `SqliteCreate` commits at once, `SqliteInsert` (the version row) opens a
transaction, `ScriptCommits` is the commit `executescript` begins with, `BusyTimeout` a write
that meets another's transaction. PostgreSQL: `PostgresExecute` adds to the one transaction
or finds the object committed; `PostgresWaits` and then `AlreadyThere` is a statement that
meets an uncommitted one and fails when it commits (the race of CREATE IF NOT EXISTS).
`AlreadyThere` is also the PRIMARY KEY of `schema_migrations`, on both. Every failure ends
the constructor (`Raise`), and `Open` is the next start.

**LineageQueries.** `field_impact` and `dataset_impact` of either backend against handlers
that record lineage in the same process. Here a writer's INSERTs are steps of their own,
since queries run between them.

| variable | in the code |
|---|---|
| `backend` | what `create_storage_backend` made |
| `rows`, `durable` | `dataset_edges` and `field_mappings` as a query's SELECT sees them, and as committed (the same for PostgreSQL) |
| `graph`, `lock` | `self._graph`, and the SQLite backend's `self._lock` |
| `writer[w]` | the calls `_record_lineage` has left, and the statements of the current one that are done |
| `posted` | events acknowledged (a retry records nothing) |
| `reader[r]` | the locals of the query, and for the properties what was durable when it began |

`RecordLineage` begins a handler's storage calls (`BeforeCall` is a handler between two of
them); `SqliteInsert` puts a row on the connection the queries share, under the lock,
`PostgresInsert` into a transaction of its own; `CommitCall`, then `EndCall` with `add_edge`
on the graph. `CallFails` is an exception: SQLite keeps the call's rows in the open
transaction, for `OtherCommit` or `OtherRollback` of the ledger half to publish or drop,
PostgreSQL's pool rolls them back. `Visit` is one turn of the query's loop, `ReadGraph` the
read of the graph after it; `ReadBelow` and `ReadAbove` are the two reads of
`dataset_impact` (GET `/lineage` makes the same two in the other order). `GraphChanges` is
the exception Python raises when `nx.descendants` iterates a dictionary that `add_edge`
extends, which PostgreSQL's graph lock prevents.

**LegacyWal.** `wal` is the buffer's file, `buffer` what its connection sees
(they differ after an exception, which is not followed by a rollback), `ledger`
the other file, `call` the place in `commit` or `replay_pending`.

**IngestionPipeline.** The queue, each worker's place, and `stop`'s. An action
runs from one `await` to the next. Accepted events are numbered in the order
they were accepted. `asyncio.Queue` and `asyncio.gather` are modelled from their
use: `get` and `put` wait, `put_nowait` raises on a full queue, `gather` raises as
soon as a task has failed. `Tasks` is `self._workers`: empty before `start`, and after
`start(0)`, which the proofs cover (`Workers = {}`). `stop` may be called at any time; without
workers it puts no pill, gathers nothing and returns. `start` is called once per object.

The `MC*` modules give the requests, batches and stagings of the instances.
Operators marked `Mutant:` are wrong variants of the definition below them; no
specification uses them, and each shows that the property it belongs to can fail.

## 4. The runs

| run | module, cfg | distinct states | question |
|---|---|---|---|
| `sqlite_one_process` | MCIntegrityScan, SqliteOneProcess | 359 877 | do the statements of one process implement the atomic methods, does the chain verify at every moment, and what can mislead a `verify_integrity` that fetches row by row without the lock? |
| `sqlite_two_processes` | MCSqliteLedger, SqliteTwoProcesses | 32 997 | do the tables agree when processes share the file? Is every lock released and every staged event promoted? |
| `sqlite_chain_fork` | MCSqliteLedger, SqliteChainFork | violation | does the chain verify with two processes? |
| `postgres` | MCPostgresLedger, Postgres | 22 262 | does the advisory lock keep chain and tables right for several processes while others stage, and does every call end? |
| `legacy_wal` | MCLegacyWal, LegacyWal | 10 882 | is the two-file WAL safe under crashes and exceptions, and which rows does it replay? |
| `migrations` | Migrations, Migrations | 8 218 | does a version row stand for its tables, and does every process get in, when several open a database at once? |
| `pipeline` | MCPipeline, Pipeline | 128 666 | are events handled once and in order, does `stop`, called at any time, drain and end? |
| `service` | MCVaultService, Service | 304 178 | does lineage stay tied to ledger, replies and graph? |
| `queries` | MCLineageQueries, Queries | 162 252 | are the impacts of a field and of a dataset complete, do tables and graph agree, and do queries end while lineage is written, on either backend? |
| `service_lineage_lost` | MCVaultService, ServiceLineageLost | violation | is the lineage of an acknowledged event recorded? |
| `service_batch_key` | MCVaultService, ServiceBatchKey | violation | is every acknowledged event ledgered? |
| `service_snapshot` | MCVaultService, ServiceSnapshot | violation | is a snapshot answered, however its time is written? |

### Bounds

- **SqliteLedger.** In one process: three events, two payloads, two keys, two threads, one
  fault. The batches are a single item, a batch that repeats its key, and a batch whose
  second item may meet a claimed key *or* an event that recovery has put in the ledger; the
  stagings include the event of an acknowledged item under another payload. That is one of
  each outcome a batch item can have: new, duplicate in the table, duplicate in the batch,
  constraint failure. Three staged rows give recovery a first row (no transaction yet), a
  later one, and one the ledger already holds. Two entries are enough for a scan to be
  misled; with three there is one before and one behind the row that is rolled back. Two
  actors suffice for the races: SQLite admits one writer, and a third caller waits. Nothing
  bounds how often clients call; the tables are finite because batches and stagings are. The
  run with two processes takes two events (`TwoEventBatches`, `TwoEventStagings`), for its
  liveness properties; the proofs cover the safety ones for any number.
- **PostgresLedger.** Two events, two keys, three threads: two that share a process with a
  single connection (one waits for the pool while the other waits for the lock or for a row,
  or has the lock) and one in a second process (contention for the lock). One batch of one
  item and one of two, whose second item may find its key claimed; two stagings, one of them
  with another payload than the batches give the event. One fault, which is a failed
  statement, a lost reply or a dead process, at any step.
- **LegacyWal.** Three events, one staged under two payloads, two crashes: a
  crash during the replay that follows a crash.
- **Migrations.** Three processes: one that has failed, one that is in the way, and one that
  comes later. Two versions of two statements each, so that a process can be between
  migrations and inside one; the code has one version as yet, and `Latest = 1` is among
  what the proofs cover. `Init` is a new database or one an earlier release has left. One
  fault, a failed statement or a dead process, at any step.
- **IngestionPipeline.** Three workers, two slots, four events, one refusal, three
  calls of `stop`: the three pills do not fit in the queue, one `stop` may come before
  `start`, events can be in front of, between and behind the pills of two others, and workers
  can fail one by one.
- **VaultService.** Two threads, five event ids, two faults. The events lead from
  A to B and back from B to A, so the graph has a cycle; a third has started and
  not completed. `MixedRequests` holds a single event, a batch that contains it,
  a batch under one header key, and an event of `/events`. `MaxIds` bounds how many events are
  posted, the ledger with them. The threads are interchangeable and the run has
  no liveness property, so `SYMMETRY` over them is sound. The violation runs take
  the requests their claim is about. `MCVaultService` also evaluates the theorems of
  SchemaCompat on all schemas of two fields and two types.
- **LineageQueries.** Both backends, two writers, one query at a time (queries share
  nothing), one fault. The two events make the fields' mappings a cycle, A to B
  and back, with a way out to C, and B's fields two outputs of one input; a query
  asks for a field on the cycle, at any moment. The second event has two outputs,
  so that its handler writes an edge after mappings.

`CHECK_DEADLOCK FALSE` is set where the model really stops: the pipeline when
its workers have ended and its bounds are used up, the service when its ids are.

### What the checks found to hold, and why it is not obvious

- A batch that reads its claimed keys before its transaction is open stays
  correct although another process may claim one of them in between: only the
  PRIMARY KEY saves it (`ConstraintFails`), and the batch is rolled back whole.
- An event that was staged, recovered and then acknowledged is refused by the
  ledger's UNIQUE constraint: the client sees an error, never a second entry.
- `recover_uncommitted` that dies half way can be run again.
- A lineage call that raises leaves rows that some other thread's commit
  publishes, or some other thread's rollback drops. Both were possible threats to
  `LineageIsLedgered` and `MappingsFollowGraph`; both hold, because an
  event's edge is committed before its mappings are attempted, and its ledger
  entry before either.
- `field_impact` reads the graph after it has walked the mappings, through rows
  that are not committed and may be rolled back. Its two halves agree all the same,
  because the edge is in the graph before the first mapping over it is inserted;
  writing the edge last (`EdgesLast`) breaks it.
- A `verify_integrity` that fetches row by row on the writers' connection, while batches begin,
  insert and commit between its rows, is right: it fetches a beginning of the ledger. Only a
  rollback takes rows from under it (section 7).
- `stop()` called a second time, while pills of the first are still queued,
  is safe when it returns; it hangs only when the queue is full and no worker is
  left, and `StopEnds` says that this is the only way.

## 5. Fairness

Safety properties are checked and proved without fairness.

- `SqliteLedger!FairSpec`: `WF_vars(Proceed(t))`, because a thread inside a
  method runs Python code that never waits for anything but SQLite's file lock,
  and that wait ends by the busy timeout (`BusyTimeout` is part of `Proceed`);
  `SF_vars` of "some thread calls `recover_uncommitted`", because the API's
  lifespan and the CLI's commands call it at every start. It is strong
  because the lock may be taken again and again by other callers when the call
  is due, and the RLock grants it to each waiter in the end. New requests and
  faults have no fairness.
  `StagedIsPromoted` excepts behaviours in which busy timeouts recur for ever: a
  recovering process can meet the other's transaction each time it tries to write,
  and SQLite promises no order.
- `LineageQueries!FairSpec`: `WF_vars(Step(r))`: a query waits for no lock.
- `PostgresLedger!FairSpec`: `WF_vars(Proceed(t))`: with the lock, or past it, a method
  waits for nothing; `SF_vars(Granted(t))`: the server grants an advisory lock in the order
  of its queue, so a waiter gets it although others take it in between, and wakes an INSERT
  when the transaction it waits for ends. Weak fairness would not do: another transaction
  may insert the row, and roll back, again and again before the waiter runs; that this does
  not go on for ever is assumed of the server; `SF_vars` of "some thread calls
  `recover_uncommitted`" as above.
- `LegacyWal!FairSpec`: the same reading: methods run to their end and
  `replay_pending` keeps being called. `StagedIsReplayed` excepts the rows behind one
  that can never be appended (`WedgedBefore`).
- `Migrations!FairSpec`: `WF_vars(Step(p))`, because a statement waits only for another
  process's transaction, which ends; `WF_vars(Open(p))`, because a process whose constructor
  raised is started again. Closing a database and faults have none.
- `IngestionPipeline!FairSpec`: the event loop resumes every coroutine that can
  go on (`Take`, `PutPill`, `StartGather`, `Gather`, `start`) and handlers end
  one way or the other. New events (`ingest`) and calls of `stop` have none.
  Accepted events are bounded by `MaxAccepted`; were producers never to pause,
  `put_nowait` could take every slot a waiting `put` is woken for, and `StopEnds`
  says nothing of that.

## 6. Proofs

All theorems hold for every value of the constants that satisfies the module's ASSUME
(`SqliteLedgerAssumption`, `PostgresLedgerAssumption`, `LegacyWalAssumption`,
`PipelineAssumption`, `MigrationsAssumption`, `ServiceAssumption`, `QueriesAssumption`;
SchemaCompat has none): any events, payloads, keys, batches, stagings, schemas, number of
threads, processes, workers, slots, versions, statements and faults. No other assumption is
made, but for `SingleProcess` in four theorems.

| module | theorem | says |
|---|---|---|
| `SqliteLedgerProofs` | `Invariant` | `Spec => []IInv` |
| | `TypeCorrect` | `TypeOK` |
| | `AckedNeverLost` | `AckedDurable` |
| | `TablesAlwaysAgree` | `TablesAgree` |
| | `AppendOnly` | `HistoryOnlyGrows` |
| | `ChainAlwaysIntact` | `ChainIntact`, if `SingleProcess` |
| | `ScansTellTheTruth` | `ScanSpec => []FalseOnlyAfterRollback` (IntegrityScan), if `SingleProcess` |
| | `RecoveryLeavesNothing` | `RecoveryDrains`, if `SingleProcess` |
| | `StatementsImplementContract` | `ImplementsContract`, if `SingleProcess` |
| `PostgresLedgerProofs` | `Invariant`, `TypeCorrect` | `IInv`, `TypeOK` |
| | `ChainAlwaysIntact` | `ChainIntact`, for any number of processes |
| | `AckedNeverLost` | `AckedDurable` |
| | `TablesAlwaysAgree` | `TablesAgree` |
| | `AppendOnly` | `HistoryOnlyGrows` |
| `LegacyWalProofs` | `Invariant`, `TypeCorrect` | `IInv`, `TypeOK` |
| | `FlagsAreEarned` | `FlaggedIsLedgered` |
| | `PayloadsAreStaged` | `LedgeredAsStaged` |
| | `ReplayIsComplete` | `ReplayDrains` |
| `IngestionPipelineProofs` | `Invariant`, `TypeCorrect` | `IInv`, `TypeOK` |
| | `NothingMislaid` | `AcceptedInOnePlace` |
| | `StopDrains` | `ReturnedIsDrained` |
| `MigrationsProofs` | `Invariant`, `TypeCorrect` | `IInv`, `TypeOK` |
| | `RecordedAlwaysBuilt` | `RecordedIsBuilt` |
| | `OpenAlwaysMigrated` | `OpenIsMigrated` |
| `VaultServiceProofs` | `TypeCorrect` | `TypeOK` and the ledger's integrity |
| | `GraphAlwaysDurable` | `GraphIsDurable` |
| | `LineageAlwaysLedgered` | `LineageIsLedgered`: of what requests to `/openlineage` write, not of `/events` |
| | `MappingsAlwaysFollow` | `MappingsFollowGraph` |
| | `AnsweredAlwaysHasLineage` | `AnsweredHasLineage` |
| | `VerdictIsExact` | a verdict is "breaking" exactly when a field of the old schema is gone or has another type |
| | `OkIsSafe`, `OkComposes` | what an event that passes declared is readable in its output, and after the next that passes |
| `LineageQueriesProofs` | `Invariant`, `TypeCorrect` | `IInv`, `TypeOK` |
| | `ImpactAlwaysComplete` | `ImpactIsComplete` |
| | `ImpactAlwaysDownstream` | `ImpactIsDownstream` |

`VaultTablesProofs` holds the lemmas on the tables: each statement group keeps
the types, keeps `Consistent` and only `Extends` the tables. It also holds what the proofs
need of loops. `AfterItems`, `AfterRows`, `FlattenSeq` and `Behind` are recursive functions, and
the library's induction theorems cannot be used (they take an operator). `SetInduction`
is induction over a *set* of numbers, from the well-foundedness of `<` (`WFMin`), and
`Recursion` makes from it the function that a definition by recursion chooses; so
`AfterItemsSteps` and the like unfold a definition turn by turn, for any length. What
`_record_lineage` writes is obtained in the same way: `FlattenElements` (what
the nested loops yield), `RecordLineageFacts` (every mapping comes after its edge),
`StorageCallsFacts`.

**SqliteLedger.** The durable tables are not inductive by themselves: a commit
replaces them by whatever the connection holds. `IInv` therefore says that at
most one connection writes (`OneWriter`), that its owner is a thread that holds the
process's lock and is inside a method (`LockHeld`, `WriterHoldsLock`), that its
tables extend the durable ones and are consistent already (`WriterExtendsDisk`),
and that what a thread has collected is visible to it (`LocalsAreSeen`). Each
commit then hands over consistent tables that extend the old ones; each rollback
and crash throws away only what nobody was told. `AckedDurable` follows since
`acked` grows only by claims that are durable when the thread answers.

**The chain.** `ChainInv` adds that the open transaction's ledger verifies and that the head
a recovering thread has read is still the head it will append to. The second part is where
`SingleProcess` is needed: it survives other threads' steps because they do not hold the
lock, and nothing but that lock protects it before the first INSERT. `ScansTellTheTruth`
rests on `ChainInv` and `ScanInv`: as long as nothing was rolled back, the rows a scan has
fetched are a beginning of the ledger its connection sees (`RowsArePrefix`), since every
other step of the process only appends to that (with `SingleProcess`; another process's
commits are not appends to it). A scan that ends with all of that ledger therefore has a
chain that verifies.

**Recovery.** `PendingIsAll` says that a recovering thread's list has every row its
connection sees as uncommitted. Each turn takes from the list the row it flags, so the list is
empty only when nothing staged is left. It needs `SingleProcess` as the chain does: another
process may stage between the SELECT of the list and the first write.

**The contract.** `StatementsImplementContract` is a refinement proof. `ContractInv`
says, of each method in progress, how far it has come: its connection sees what
`AfterItems` makes of the items it is through with (`AckProgress`), or `AfterRows` of the
staged rows (`RecoverProgress`), starting from the tables that are durable *now*, since nobody
else commits in between; and that results waiting for their `Answer` are claims that are there
(`AnswerReady`). A commit is then one atomic method, a reply is `Answer`, every other
step leaves `disk` and `acked` alone. `SingleProcess` is needed because another process
may commit between the SELECT a method starts with and its first write; for recovery that
is the fork of section 7.

**VaultService.** `GraphInv`: the graph's edges are durable, and the durable edges are among
those the connection sees, so that no commit drops one. Only `run_events` is ever replaced.
`RowsKnown` (for `LineageIsLedgered`) follows a row from the handler that is to write it,
over the connection, to the database: if it is of a request to `/openlineage`, its event is
in the ledger all the way, as batches only extend the ledger. Rows of `/events` are known to
come from a request and no more: a duplicate's edge has no ledger entry. `MappingsFollow`
(for `MappingsFollowGraph`) says that a mapping still to be written follows an edge in the
graph or one that the same handler writes before it; so the rows that a call leaves behind
when it raises do no harm, whoever publishes them. `ResultsHold` (for `AnsweredHasLineage`)
says that the rows of an event answered as new are durable or still to be written by the
handler that has its result, that no other handler has rows of that event, and that none of
them can be dropped from the connection once it is durable. There is one such handler
because the request drew the event's id itself: what a batch claims is its own
(`AfterItemsClaims`).

**PostgresLedger.** `IInv`: exactly the holder of the advisory lock is inside a
locked method (`HolderIsInside`), and its transaction keeps everything committed,
is consistent and has a chain that verifies (`TransactionOfHolder`). The difficult
step is `Stage`: it changes `disk` and `txn` alike, but the row may get different
places in them, so `txn` no longer extends `disk` row by row. `Keeps` asks only that
each staged row is found somewhere (lemmas `KeepsStage`, `KeepsTrans`), and needs
`Inserting`: without that wait both would hold a row of the event. Nothing is
assumed of the number of processes, unlike for SQLite: the lock is the server's.

**LegacyWal.** `IInv`: buffer and file differ by flags only (`SameRows`), every
flag set or about to be set has its ledger entry (`FlagsFollowLedger`), and a
method works on rows of the buffer, replay on all that are unflagged
(`PendingRows`). `ReplayDrains`, an action property, follows at its last step.

**IngestionPipeline.** `IInv` needs the order of the queue (`QueueOrdered`), that
pills stand behind every event accepted before the first `stop` that found workers
(`PillsComeLast`), so that a worker that ended by a pill has left none of those in
front of it, that a lost event has a failed worker (`LostHasFailed`), so that
`gather` cannot return, and that a `stop` waits for all workers or finds none (`AllTasks`).

**Migrations.** `RecordedIsBuilt` speaks of a process's own transaction as well as of the
committed tables, since PostgreSQL reads the version there. `LoopIsBuilt` is what makes it
inductive: behind a process's place in the loop everything is made, in what it sees. It
survives the others' steps because the database only grows, and their rollbacks because
nobody sees another's transaction.

**LineageQueries.** First, `Behind` is a fixpoint: it takes as many rounds as there are
steps, and that is enough, since a round that finds anything new uses a step no earlier
round used (`BehindClosed`); and it is the least one (`BehindLeast`). So one compares sets
with it instead of paths. `TablesHold`: every edge in the graph is durable, and every
mapping that a SELECT may see, committed or not, has its edge in the graph; `CallsHold`
keeps that true, as `MappingsFollow` does for the service. `WalkHolds` is the walk of
`field_impact`: what was found has been visited or is in the frontier; a visited field has
its outputs, by what was durable when the query began, among those found; all of them belong
to datasets behind the one asked for. When the frontier is empty the fields found are closed
under the durable mappings, whatever was written meanwhile (`ImpactIsComplete`), and the
graph, read last, has every dataset they belong to (`ImpactIsDownstream`). The last step
would fail if the graph were read first.

The invariants were first checked by TLC on the instances above, and the theorems about
properties of the runs are stated with the very definitions the runs check.

**Only model-checked.** Liveness under fairness, which is out of the prover's reach along
with ENABLED: `LockIsReleased`, `StagedIsPromoted`, `CallsEnd`, `StagedIsReplayed`,
`OpensInTheEnd`, `AcceptedIsTaken`, `StopEnds`, `QueriesEnd`. Every invariant and every
safety action property that a passing run checks is a theorem.

## 7. Findings

| run | what the code does |
|---|---|
| `sqlite_chain_fork` | `recover_uncommitted` reads the head of the chain before its first INSERT opens a transaction. Another process that appends in between makes two entries with one predecessor, and `verify_integrity` is false from then on, against `docs/crash-semantics.md` 4. `acknowledge_writes_batch` is safe: its first INSERT (of the claim) precedes its read of the head. |
| `service_lineage_lost` | When an edge or mapping call fails after the acknowledgement, the client's retry is a duplicate and skips them: the lineage of a ledgered event is missing for good. |
| `service_batch_key` | The Idempotency-Key header of a batch becomes the key of each of its events: all but the first are answered acknowledged and written nowhere. |
| `service_snapshot` | `/snapshot` compares its time with every edge's time, which is aware, and with every ledger payload's `timestamp`, which counts as a naive 1970-01-01 for OpenLineage events. Once one of those and an edge are stored, it raises however the time is written. |

Four more behaviours a reader should know. The documents touch them in a word only (a test
named `no_lost_records`, "inflated counts" in `docs/threat-model.md`) or not at all, so no run
refutes them. `verify_integrity` may answer false on SQLite although the chain is intact: it
fetches an uncommitted row, another thread rolls back (a constraint fails) and a third appends,
and the scan goes on with the entry that took the row's place. `/health`, `/ready` (with a 503)
and the `integrity` of a POST reply then report a broken chain once; `FalseOnlyAfterRollback`
says that nothing else makes them. `stop()` before `start()`, or after `start(0)`, returns at
once and leaves accepted events in the queue; `ReturnedIsDrained` is about the others.
After a crash
between the ledger's commit and the buffer's, every `replay_pending` of the legacy WAL raises
on that row and never gets to the rows behind it: `StagedIsReplayed` excepts exactly those.
And `/events` takes no notice of a duplicate: it adds the edge again, counts the event as
ingested and answers the event id it has just drawn, which the ledger does not hold.

## 8. What is not modelled

- The graphs of other processes, which do not follow this one's edges; `get_run_event`.
- The order of times in a snapshot, which has one answer once the comparison does not raise,
  and the Z suffix, which fails on its own (`datetime.UTC`, an AttributeError).
- Several API processes on one database, and a `PoolTimeout`: a caller the pool has no
  connection for waits, and `CallsEnd` is about those that have one.
- In `SqliteLedger`, a transaction that a failed lineage call leaves open (as in `VaultService`
  and `LineageQueries`), which keeps SQLite's write lock until the process's next commit or
  rollback: other processes get busy timeouts meanwhile.
- That PostgreSQL's methods implement `VaultContract`: staged rows can get their places in
  another order than their transactions commit, so `stage_partial` is not one atomic step of
  it; its safety properties are proved directly instead.
- The verdict of the compliance agent in `VaultService`: the engine sets it on an object it
  then drops.
- Restarting a pipeline object: `start` after a `stop` that raised or was called twice.
- Reading the configuration, lifecycle optimizer, event models, metrics, CLI, benchmark and
  demo: no state that anything reads back, or drivers of modelled methods.
- Legacy graph store: one table written by one method, read by a filter.
- Data: JSON, formatting of times, SHA-256 and uuid4 collisions, field names,
  schema facets beyond their field names, request sizes and error envelopes.
- `count_acknowledged` of `/health` and `/ready`: it may count rows of a batch that is
  rolled back later, and nobody promises otherwise.
- Tampering with the file from outside. SQLite's own durability is assumed: a
  commit that returned is durable, one that did not is gone.

## 9. Plan

Done: the two backends' ledgers, SQLite's unlocked integrity scan, the migrations, the contract, the
service with its snapshots, the lineage queries, the legacy WAL, the pipeline, the schema rules,
and proofs of all their safety properties. What is left, in this order:

1. A contract for PostgreSQL's methods, in which `stage_partial` may take its place among the
   staged rows before others that commit earlier, and its proof.
2. Restart of a pipeline object, whose old workers and pills meet the new ones.
3. Several API processes over one database, each with a graph of its own.
