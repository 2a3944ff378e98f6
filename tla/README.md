# A verification development for flow-wallet-api

TLA+ models of the wallet API (`src/`, Go), the TLC runs that check them on small
instances, and TLAPS proofs of what holds for every instance.

    tlc -workers 2 -config WorkerPool_timely.cfg MCWorkerPool     # one run
    tlapm WorkerPool_proofs.tla                                   # one proof module

`PROJECT.json` lists the components, the runs with their properties, the source lines
each definition models, the hazards, the findings and the theorems.

## 1. The system

The wallet API is a server (several instances may share one database) that keeps custodial
Flow accounts. An HTTP request is turned into a *job*; workers execute jobs by sending
transactions to the chain and waiting for their seal; a listener polls the chain for deposit
events. All state that survives a restart is in a SQL database (sqlite, MySQL or PostgreSQL,
through gorm) and on the chain.

| Component | State it keeps | Operations | Hard behaviour | What makes it correct |
|---|---|---|---|---|
| Job engine (`jobs`) | `jobs` table; in memory: the channel `jobChan`, goroutines, executor registry | CreateJob, Schedule, accept/process, DB scheduler, notification webhook, Stop | many copies of a row; retries by age; full queue; crash, lost commit; shutdown | one executor at a time; final states are final; bounded retries; every job ends; one truthful notification |
| Chain event listener (`chain_events`) | one status row (`latest_height`); in memory: handlers | Start/initHeight, tick, run, Trigger, Stop | several instances on one row; failure half-way; crash after commit; goroutines | no block passed over; no duplicate without a failure; height never goes back |
| System settings (`system`, `handlers/system.go`) | one settings row: maintenance mode, paused since | SetSettings, Pause, Resume, IsHalted | read-modify-write of a whole row by several writers; pause that expires | a writer changes its own field only; a pause ends |
| Account service (`accounts`) | `accounts` and `storable_keys` tables, keys on chain | create, add/delete watchlist account, sync key count, add key, revoke key, start-up of the admin account | two stores (chain and table) changed one after the other; jobs that run twice; two jobs on one account; instances that start together | table and chain agree; never zero keys; one row per key index; no account without its key |
| Key manager (`keys`, `keys/basic`) | `proposal_keys`, `updated_at` of stored keys | LRU choice of a key, replacing the table of proposal keys at a start | concurrent senders, sequence numbers read from chain, a table replaced while in use | keys are taken in turn; the table has only keys that can sign, and enough of them |
| Transaction service (`transactions`, `flow_helpers`) | `transactions` table | create (sync/async), sign, send, wait for seal, list | executed at least once, timeout waiting for a seal | the stored record is the transaction that was sent |
| Token service (`tokens`) | `token_transfers`, `account_tokens` tables | setup, withdrawal, register deposit | a withdrawal job that runs twice; an event that comes twice, or for two deposits of one transaction; handlers that race jobs | every payment is accounted for; a transfer is stored once, and listed |
| Template service (`templates`) | `tokens` table; in memory: tokens from the configuration | add, remove, list, look-up by name | names looked up anew while the table changes; two sources of tokens | a name in use keeps its contract |
| Idempotency middleware (`handlers/idempotency.go`) | a key store (map, SQL table or redis) | Get, Set, (Prune) | check-then-set by concurrent requests; expiry; one shared connection | one execution per key; a refused request was served |
| Database and migrations (`datastore`, `migrations`) | the schema, the table of migrations | migrate, migrate to, roll back to, at every start | no transaction around a migration; cut off and repeated starts; another version | what is recorded is in the schema; jobs survive; the server starts in the end |
| HTTP handlers (`handlers`) | none | decode, call a service, answer; time out | the time-out answers while the handler goes on | see the services |
| Start and stop (`main.go`, `configs`) | configuration | build services, start pool, server, listener; stop them | instances that start together; a start cut off | see the modules of what is started |
| Listings, key back ends, chain client, KMS update command, Cadence contracts, example front end | none or external | - | - | not modelled, see section 7 |

How they interact:

- Handlers call services; a service either works synchronously or calls `CreateJob` and
  `Schedule` of the worker pool and registers an executor that the pool calls back.
- A job executor of accounts and tokens calls `transactions.Create(sync)`, which asks the key
  manager for keys, sends, waits, and stores.
- The listener calls handlers in goroutines; the token handler looks the token up in the templates and calls
  `RegisterDeposit`, which shares the row of a transaction with the withdrawal's job.
- A POST request passes the idempotency middleware before its handler.
- Worker pool and listener ask `IsHalted` of the settings, and call `Pause` when the chain cannot
  be reached.
- `main` opens and migrates the database, brings the admin account and its proposal keys up to the configured number,
  starts the pool before the server and the listener, and on SIGINT stops server, listener and
  pool in this order.

## 2. Modules

| Module | What it is |
|---|---|
| `JobLedger` | abstract specification: what a job submitted to the engine may go through |
| `WorkerPool` | the job engine, package `jobs` and the row locking of `datastore/lib` |
| `WorkerPool_proofs` | its inductive invariants and theorems, and the refinement of `JobLedger` step by step |
| `ChainListener`, `ChainListener_proofs` | the event listener of any number of instances; its theorems |
| `SystemSettings`, `SystemSettings_proofs` | the settings row and its writers; its theorems |
| `Requests`, `Requests_proofs` | POST requests, the idempotency middleware with its stores, and through them `SystemSettings`; its theorems |
| `AccountKeys`, `AccountKeys_proofs` | the jobs that change the keys of an account, the table, the chain; its theorems |
| `AdminKeys`, `AdminKeys_proofs` | start-up of instances, the table of proposal keys, creation of accounts, stored transactions; its theorems |
| `TokenRegistry` | the tokens the wallet knows, package `templates`; used by `Transfers` |
| `Transfers`, `Transfers_proofs` | withdrawals, deposits, enabled tokens and the watch list, on top of `TokenRegistry`; theorems about both |
| `Migrations`, `Migrations_proofs` | the ten migrations and the starts that execute them, on PostgreSQL and sqlite; its theorems |
| `MCWorkerPool`, `MCChainListener`, `MCRequests`, `MCAccountKeys`, `MCAdminKeys`, `MCTransfers`, `MCMigrations` | values and symmetry sets for TLC |

Composition: `Requests` EXTENDS `SystemSettings` and gives each of its callers a request or a background goroutine;
`Transfers` EXTENDS `TokenRegistry`; `WorkerPool` INSTANCEs `JobLedger` as what it implements. Between the other
modules stands an interface that one shows and another assumes: the job engine executes a job at least once (`EveryJobEnds`; all that
`AccountKeys` and `AdminKeys` assume), one worker at a time (`ExclusiveOwner`; assumed by `Transfers` too), the listener
delivers an event at least once (`NoGap`, assumed by `Transfers`).

The names of definitions follow the code; `PROJECT.json` maps each one to its lines. In each
module some operators are marked as faulty variants: they are plausible bugs, never used by
the specification, put in place of a definition to show that a property can fail.

### WorkerPool

`db` is the `jobs` table, a sequence, so that a row's index is its id and its `created_at` rank.
`queue` is `jobChan`, a bounded sequence of *copies* of rows. `batch` is the list the DB scheduler
has read and is feeding. `proc` gives each goroutine (worker or client) its program counter
and the copy in its hands. Time is the age of a row since `updated_at`, in ticks, capped just above the
longest grace period; a copy keeps the age at which it was read.

An action is one atomic step of the code: a store call, a channel operation, or the return
of an executor together with the save that follows it. `AcceptJob` is one step where rows are
locked, and two (`AcceptRead`, `AcceptSave`) on sqlite, where `GormTransaction` runs no
transaction. `AcceptUncommitted` is the commit whose error `GormTransaction` drops.
`StoreFails`, `Crash`, `LoseChain` and `Halt` are disturbances, counted in `faults` and bounded by
`MaxFaults`; `Faults` says which may happen. Kinds of job: `tx` asks for a notification when it ends,
`quiet` does not, `unknown` has no executor, `notice` is the notification itself.

`HoldLimit` says for how many ticks a goroutine may keep a job it owns. The code does not
bound this (an executor waits for a seal without a timeout by default), so it is a
parameter: `HoldLimit < AcceptedGrace` is the deployment the configuration is meant for, and
`pool_slow` shows what happens beyond it.

### ChainListener

A listener's `pc` follows one tick: lock the row, ask for the chain's height, one query per event type,
start goroutines, save. `chain` and `height` are the sealed and the saved height, `lock` the row lock
with NOWAIT. A block stands for its one deposit event; `pending` counts the handler goroutines
not yet run. `triggered`, `handled`, `base` and `faults` are history. Assumed: a first
instance has created the status row before another one starts (`FirstOrCreate` at `store_gorm.go:31` locks nothing while there is no row).

### SystemSettings

`row` is the settings row, with `PausedSince` kept as the ticks of the pause that are left. A caller
reads the row and changes one field (`Read`), then saves the whole row (`Save`) or fails. `stale` is
history: somebody saved in between. It is run as part of `Requests`. `WorkerPool` and `ChainListener` see the settings as a
boolean that turns on and off at any time, which covers every behaviour of this module.

### AccountKeys

One custodial account. `chain` is its list of keys on the Flow network, `rows` the table `storable_keys` by id,
`sent` the transactions the access node has. `worker` gives each goroutine the executor it runs
(`op`), how far it is (`pc`) and what it has read. An execution of `addKey`, `revokeKey` or
`syncAccountKeyCount` is: read table or chain (`AddRead`, `RevokeRead`, `SyncReadChain`, `SyncReadRows`), choose the least
recently used row (`PickKey`), read its sequence number and sign (`Sign`), `Send`, wait (`Sealed`, `TxFails`,
`ResultLost`), `Save`. Every error path is there: an error before sending (`Rejected`), and the panic of
`syncAccountKeyCount` on any failed transaction, which ends the process with everything in it.
The job engine gives one guarantee, that a job is executed at least once, so a worker may begin any execution at any
time and a retry is another execution. A worker that stops leaves its transaction behind (`owner = "nobody"`), and the
chain may still execute it. The chain is external: it checks signature and sequence number, appends keys, revokes.
`smooth`, `aligned` and `cut` are history: no two executions have overlapped and none was cut off; no sync has numbered its clones from a
table that lacks the chain's last key (section 6); how many executions that may have added a key were cut off. Two reads are merged: `addKey` looks at
the table only for a first row, in the same step as it asks the chain. The wallet is one process, so a crash stops all workers.

### AdminKeys

`chain` is the list of the admin account's keys on the network, `table` the proposal keys by id, `turn` the same keys by
`updated_at`. `server[i].pc` follows instance i through `InitAdminAccount`: look for the account's row and insert it, compare chain and
table with the configured number, and if either is short, read the keys (`GetKeys`), delete all rows (`DeleteAll`), insert
them one by one (`InsertKey`), and send a transaction for those that are missing (`SignAdd`, `SendAdd`, `Added`). Any
error ends the process (`Fatal`), and whoever runs it starts it again. Once it serves, its threads take a key (`Begin`, `Pick`), read its
sequence number and sign (`Sign`), send, wait and store the account. A `raw` transaction is signed by one thread and sent by
another that executes its job, as often as the job engine likes (`Execute`). `txs` is what has been signed, with what the network
says of it. `cut`, `torn`, `picks` and `reset` are history the properties speak of.

### TokenRegistry and Transfers

A token is a contract (name, address, type); `tokens` are the rows of the table and `temp` what the process has from its
configuration. `GetByName` is the look-up the code makes anew each time it needs a token: memory first, without
regard to case, then the table with SQL's LIKE; `Alike` says which names match. `Transfers` adds the transactions (`txs`, with the type of
the row in `transactions`), the stored transfers (`rows`), the tokens enabled for accounts, and `accounts`, those
that deposits are registered for. A thread is a worker that executes a withdrawal's job, a request that waits for it, or the goroutine
of a deposit's handler. `Handle` is `RegisterDeposit` up to its first SELECT, then `Enable`, `Look` and `Insert`
are its statements; every error path leaves behind what the code leaves (`HandleFails`, `Lose`). A transaction may have two deposits to one
account (`times`); a client may have written it itself (`raw`).

### Requests

`pc` takes a request through `Get`, `Set`, handler and answer. `keys` gives each idempotency key the ticks it stays in use.
`GetsCrossed` and `BothFail` are what two requests do to each other that use the one redis connection at a time: each reads
the reply to the other's command, or the connection breaks until a restart. `TimesOut` is the server's time-out, after which the
handler goes on. A settings request then reads and saves the settings as a caller of `SystemSettings`. `Restart` loses the map of
the local store.

### Migrations

A version is the number of a migration in the list. `columns` are the columns and the index the migrations add or drop (and the id of
each table), `jobs` the rows of that table with both their old `status` and their `state`, `recorded` gormigrate's table. A migration is
a sequence of statements (`Up`, `Down`); `Execute` does one, `Record` inserts or deletes the ID, and a crash or a failure may come
between any two. `Possible` says which statements a database refuses to do a second time. `Chained` is what gorm
makes of `Where` and `Update` called in turn on one statement. An operator sets the version when the server serves or is stopped (`Configure`).

## 3. Runs

| Run | Instance | Shows |
|---|---|---|
| `pool_timely` | 2 workers, 1 client, 1 slot, 2 jobs, 1 fault of any kind but a lost commit, Stop at any point | ownership, finality, one true notice for an end; the executor of a job is called a bounded number of times; the pool implements `JobLedger` |
| `pool_live` | fairness; pause, halt or lost commit | every job ends; every end is posted |
| `pool_sqlite` | fairness; no row locks; crash or store failure | every job ends |
| `pool_slow` | violation | see section 6 |
| `listener_safe` | 2 listeners, 2 types, 3 blocks, 2 faults of any kind | no gap, no duplicate without a lost save, height grows |
| `listener_live` | fairness; start height ahead of the chain; 1 fault | every event is handled |
| `keys` | 2 workers, 2 keys, 3 executions of any kind, every fault | the table never runs ahead of the chain; one job at a time keeps them equal, unless a sync adds clones after the last key was revoked; a key is stranded only by a cut-off job; keys are taken in turn |
| `keys_lockout` | violation | see section 6 |
| `admin` | fairness; 2 instances configured for 1 and 2 keys, 2 threads, a revoked key on chain, 1 fault | the table is usable whoever replaces it, and complete with one at a time; keys are taken in turn; an account is lost only by a cut; every instance serves |
| `transfers` | a withdrawal by a job and one by a waiting request, 2 outside transactions, 2 tokens of nearly one name, every fault | payments are accounted for; a transfer is stored once and listed; a new token does not take another's name |
| `requests` | 3 requests, 2 of them with one key, a background goroutine, each store, 1 fault or restart | one request per key; a refused request was served; only an overtaken save touches a foreign field of the settings; a pause ends |
| `migrate` | fairness; both databases, new or with one job, 2 changes of the version, 2 faults | what is recorded is in the schema, with the holes `InEffect` names; no ended job wakes and none is lost; the server serves in the end |

Bounds. Two workers and a queue of one slot are the smallest instance in which two copies of a job are in
different hands, a worker defers its own notice, and the scheduler blocks on a full channel. Two jobs are a
job and its notice. `MaxErr = 1` lets a job fail, be retried and be
given up. Grace periods of one and two ticks are enough for "too young", "just old enough" and "older"; ages
above are equal to the code. One fault at a time covers every single crash point; the listener gets two, so
that a failed retry is covered. Three blocks and `MaxBlocks = 1` give a full, a partial and an empty scan.
Three executions on an account of two keys are two that overlap and a third that meets what they left;
`NumKeys = 3` lets the first sync add one key and a sync after a revocation two.
In `admin` one instance finds enough keys and the other has to add one, so they replace the table for different reasons; two
executions are what it takes to have one key in two hands. In `transfers` two transactions are a retried
withdrawal, or a withdrawal and a deposit from outside, and three deliveries a deposit that comes twice beside another one. In
`requests` two requests share a key and the third changes the settings; a key expires after one tick, a pause after two, so a key can
expire before, while and after its request is served. In `migrate` the versions are the newest, the first, and one in between, both below
the columns a job needs. Two faults are a start cut off twice, or a rollback after a cut-off migration.
`MaxExec`, `MaxJobs`, `MaxRequests`, `MaxFaults`, `MaxHeight`, `MaxOps`, `MaxTxs`, `MaxHandled`, `MaxTokens` and `MaxConfigs` are the
bounds of counters that the code leaves open; the theorems hold for any value of them.

Symmetry (workers, clients, listeners, types, threads) is used only in runs without liveness properties.
`CHECK_DEADLOCK FALSE` appears where the system really may stop: in `pool_timely` Stop ends the pool, or a panic on a closed channel the
process; in `listener_safe` all listeners may have panicked; in `admin` the bounded jobs are done and all instances
serve; in `transfers` all requests are answered; in the runs of `Migrations` a server that serves has nothing left to migrate.

## 4. Fairness

A goroutine that can take a step takes it (weak fairness per goroutine): the Go scheduler does not starve
a goroutine, and each store call, chain call and executor returns. For the executor this is
an assumption (`TransactionTimeout = 0` waits without limit). The scheduler's and the listener's tickers fire again and again;
a listener's tick is strongly fair, because with NOWAIT it may find the row locked each time it
fires, and instances whose tickers are not in lockstep do not collide forever. Clock and resumption are weakly
fair: a pause runs out and an operator ends a maintenance. Submissions, seals and faults are not fair.
In `AdminKeys` each instance takes its next step, which includes that whoever runs it starts it again after it ended
itself, and the network decides on the transactions it has. In `Requests` time passes, and a caller that has read the settings saves
or gives up. In `Migrations` the server is started again and the database answers; nobody has to
change the version, and crashes and failures are as rare or as frequent as their bound allows.

## 5. Proofs

TLAPS checks, for every value of the constants allowed by each module's `ConstantsOK`:

- `WorkerPool_proofs`: `TypeCorrect`; and, under `Timely` (rows are locked, a commit is not
  lost, and a goroutine keeps a job for less than the accepted grace period) `OneOwner`,
  `OwnedRowCurrent`, `OutcomeIsFinal`, `ImplementsLedger`, `RunsAreBounded`, `NoticesSound`.

  `ExclusiveOwner` is not inductive: what keeps a second worker from accepting a job is the
  *row*, so the invariant `IInv` adds that the row of an owned job is as its owner wrote it, and too young
  to be abandoned (`OwnedRowIsCurrent`), that a job nobody has scheduled yet has no copy anywhere
  (`NewJobIsUncopied`), and that no acceptance is half done (`NeverHalfAccepted`). A worker
  accepts only a row that is old or not ACCEPTED; by `OwnedRowIsCurrent` such a row has no
  owner. The clock cannot break this, because `HoldLimit < AcceptedGrace` stops it. `OutcomeIsFinal` follows:
  every save over a row is made by its owner, whose row is not terminal.

  `ImplementsLedger` maps a row to open or ended and its executor to the runner. That a row has one executor (`OneRunner`) is
  `ExclusiveOwner`; acceptance by a worker that goes on to execute is `Run`, what `OutcomeIsFinal` says of a save makes it `End` or
  `GiveUp`, a crash or a kill is `GiveUp` of everything lost, `CreateJob` is `Submit`, everything else leaves the ledger
  alone. One fact is needed beyond `IInv`: a copy that `Schedule` defers is saved as open (`DeferredIsOpen`).

  `RunsBounded` speaks of calls of the executor, which the history `runs` counts; the code itself counts in the column `ExecCount`. The
  proof bounds the column and shows that it counts the calls. The bound (`CountsAreBounded`) needs no exclusive owner, and holds without
  row locks and with lost commits too. Its invariant `RunInv` says that a row has had its last permitted run only if a goroutine
  executes it since that row was saved (their ages agree, so `HoldLimit` keeps the row too young to be listed), or the job has
  ended; a lost commit or a store failure that leaves an executed row open pays with a fault. That the column counts the calls (`RunsCounted`)
  is where row locks come in: whoever saves over the row of a job that runs is its owner, with the row's own count. Without them two
  acceptances share one increment, and a job runs more often than it counts (section 6).

  `NoticesSound` (`NoticesAreTrue`) adds `NoteInv` to both. A notice stays true because outcomes are final (`FinalStep`), and there is at most
  one because the one owner of a job ends it: as long as a goroutine is about to announce a job, nobody has (`TellsOnce`). This is about
  notices, not about posts: a notice is a job, posted again after an error or a crash before its row is saved, as often as `RunsBounded` allows. That
  a notice has its content when it runs holds only while nothing was disturbed (`BlankIsFilled`): its row has no copy in the channel
  before `Fill`, so the poller cannot be ahead of the caller.
- `ChainListener_proofs`: `TypeCorrect`, `NoBlockSkipped`, `HeightNeverBack`, `TriggeredOnce`. `NoGap` needs two more
  facts: the end of a scan is not below the saved height (`ScanIsAhead`), and what is about to be saved has
  been triggered (`ScanIsTriggered`). Both survive the steps of other listeners because the row
  lock admits one listener between its read and its save (`LockedByHolder`). `OnceUnlessLost` needs the converse
  (`UnsavedIsOwed`): an event above the saved height that no listener is about to save has not been triggered at all, but for
  saves that were lost.
- `SystemSettings_proofs`: `FieldsApart`. The invariant says that a copy nobody's save has overtaken still
  agrees with the row on every field its caller leaves alone, also while the clock runs. `Requests_proofs` carries it over to
  requests that come through the middleware and end with the process (`RequestsFieldsApart`).
- `Requests_proofs`: `RequestsTypeCorrect`, `KeyIsGoodForOne`, `ConflictIsServed`. Between a key and the requests that hold it
  two facts hold: a key is in use at least as long as anybody holds it (`HeldIsMarked`), and a key in use that no fault
  has spoiled is held, exactly as long, by a request that was taken (`MarkIsHeld`). The first gives `OncePerKey`, the second
  `RefusedIsServed`; both need that who was held up by a request has its key (`InOrder`).
- `Migrations_proofs`: `MigrationsTypeCorrect`, `RecordedIsInEffect`, `MigrationsKeepJobs`. `InEffect` speaks of what is recorded; between two
  records the invariant has to say where a start is in the list (`Position`: up from the first migration that is not
  recorded, down from the last that is) and what its statements so far have added (`UpDone`). All columns but one stay as long as their
  migration's record (`Kept`); the status of jobs has an invariant of its own (`StatusThere`), since the second migration drops what the
  first one gives, on its way up and again, with the record of the first still there, when it is rolled back. Jobs survive because a status
  that is turned into a state belongs to a job that has never been executed (`ZeroIsNew`). The proof expands the ten
  migrations once, into lemmas about what each statement adds and takes away.
- `AccountKeys_proofs`: `TypeCorrect`, `TableNeverAhead`, `KeysTakenInTurn`, `StrandedKeysAccounted`, `KeysStayEqual`. What `Save` writes to the table is true of the chain only
  because of what the worker read long before, and because of what happened to a transaction that may have outlived
  its worker. So `IInv` adds `HandsInOrder` (the index an execution intends is at most one beyond the chain's end, the row
  it will delete has the index it revokes, and when it is about to save, the chain has done what it asked) and `SentInOrder`
  (a transaction somebody waits for is the one this worker sent, and sealed means done). Both survive every
  other worker's steps because the chain's list only grows and revocations are not taken back (`Becomes`). The
  invariant excludes in particular that `MakeAuthorizer` indexes the list out of range.

  `TakenInTurn` is not inductive because it is about two rows and a time: the invariant `TurnInv` adds that no row has been used
  later than now and that the row last used when a worker picked is the one it picked; as the least recently used row is
  taken, a second pick of it finds all others younger.

  `StrandedAccounted` counts chain entries, but what a cut loses is a key pair, perhaps before the chain has it. `LostAccounted` bounds the pairs
  that are or may get on chain and that neither the table nor a waiting worker has; it needs that a generated pair belongs to one
  execution and one transaction and gets on chain once (`OwnKeys`). Steps that stop workers lose at most one pair for each.

  `KeysAgree` speaks of the time between jobs, and leaves out the histories in which a sync added clones while the chain's last key was a
  revoked one (`aligned`): there the code itself breaks the agreement (section 6). `Agreement` says what holds during one: until its transaction is executed, table and
  chain agree and what it read still fits (`Fits`: the next index, another row besides the one to delete); from then on the chain is ahead by
  exactly what the job will save (`Ahead`), which `Save` then makes up (`SaveCatchesUp`).
- `AdminKeys_proofs`: `KeysUsable`, `KeysEnough`, `NoAccountUncounted`, `KeysInTurn`. `TableUsable` needs what an instance has in its hands
  to be usable (`BootHonest`), which survives since the chain only grows (`UsableKept`). `ServesWithKeys` needs `TableComplete`:
  unless two instances met, one at a time replaces the table, and what is left of the old one, what is inserted and what is still to
  be inserted are together as many as every serving instance wants. `AccountsAccounted` counts `Orphans`, the accounts
  that are or may get on the chain and that no thread is going to store: a thread creates an orphan only when it is cut off.
  `InTurn` is a fact about the order in which keys were taken, so the invariant keeps, for each execution, that behind its key
  are at most as many keys as were chosen since (`BehindInTurn`).
- `Transfers_proofs`: `TransfersTypeCorrect`, `PaidOnce`, `CompleteListed`, `HandledListed`, `StoredOnce`, `NamesKept`. `PaymentsAccounted` counts, like
  `AccountsAccounted`, what may still be paid although nobody waits for it (`SettledAccounted`). The lists depend on the type of
  a transaction's row, which a deposit's handler may decide before the withdrawal does; what is needed is that a
  withdrawal's transaction is of its token's type, and that a type in hand is settled (`TxsHonest`, `InHandHonest`, `RowsHonest`,
  `ReportsListed`). `RegisteredOnce` needs that one thread at a time is busy with a transaction that is not raced for, and has not
  found the transfer it is about to insert (`AloneAndNew`). `NamesKept` needs no invariant: it is about the look-up alone.

Assumptions, beyond the types of the constants. `WorkerPool`: "nobody" is no worker. `AdminKeys`: finitely many threads. `Transfers`: the
table has no two tokens of one name (its unique index), the configuration none that differ in case only (they become keys of one map), and
there is a contract. `StoredOnce` has a hypothesis about the chain: no two contracts at one address have names that the look-up takes
for each other (case, `_`) but different types (`TokensApart`); otherwise an event is stored under the type of the wrong one.

Every safety invariant and action property the passing runs check is stated by a theorem. Only model-checked: liveness (`EveryJobEnds`,
`EveryEndIsPosted`, `EveryEventHandled`, `EveryoneServes`, `PauseEnds`, `ServesAtLast`), which is out of the prover's reach. `LockedByHolder` and `NewJobIsUncopied` are part of
the inductive invariants and no longer checked apart. No module declares a RECURSIVE operator.

## 6. Where code and documentation disagree

These two have a run that reaches them.

- `pool_slow` (`jobs/store_gorm.go:84`): a job whose executor outlives the accepted grace period is listed as disrupted,
  and run a second time.
- `keys_lockout` (`accounts/service.go:594`): two overlapping revoke jobs both count two rows; the account is left
  without a key it could sign with.

Seen while modelling, and part of the models unless noted, without a run of their own. Five of them limit what a property can say, and
the property names the exception:

- `datastore/lib/lib.go:16`, against `jobs/workerpool.go:23`: without row locks, on sqlite, two workers accept one job at once, `ExecCount` counts them
  once, and the executor is called more often than `maxJobErrorCount` allows, with nothing disturbed. `RunsBounded` is checked with row locks.
- `accounts/service.go:276`, against line 231: the last key is revoked, then a sync numbers its clones from the last row;
  a row with the index of the revoked key is stored. One job at a time and no failure are enough. `KeysAgree` asks for `aligned`.
- `handlers/idempotency.go:188`, README.md:309: two requests with one key ask before either marks it, and both are served. `OncePerKey`
  speaks of those who ask after the mark.
- `handlers/system.go:65`, against line 53: a settings request undoes a pause that was saved after it read the row. `SavesOwnField` speaks
  of saves that were not overtaken.
- `m20211005/migration.go:69`, against `m20210922/migration.go:11-16`: the rollback of the second migration adds the status
  of jobs, fills it in, and drops it, so the first schema is not what is rolled back to. `InEffect` lists it among its holes.

Job engine, listener, settings, keys of an account: a queued copy of a job that is accepted late overwrites
the errors an earlier execution recorded (`jobs/store_gorm.go:70`, openapi.yml:1094); a goroutine inside `Schedule` may
send on the channel `Stop` has closed (`workerpool.go:221`); a pause saved late turns off a maintenance mode set
meanwhile (`system/service.go:60`, README.md:140); `syncAccountKeyCount` panics on a failed transaction
(`accounts/service.go:302`); a failing job is executed
`maxJobErrorCount + 1` times (`workerpool.go:395` against the comment at line 23); workers do not ask for maintenance
mode before they start a queued job (`workerpool.go:308`, README.md:140); the webhook is told of COMPLETE and FAILED only
(`workerpool.go:417`, README.md:144); a scan covers `maxBlocks + 1` blocks (`listener.go:158`, configs.go:125); a
starting height of 1 is taken for "none" (`listener.go:211`, configs.go:121); the lock error that the listener's `Start` means
to skip (`listener.go:119`) is never constructed, so a listener started while another one scans panics; `addKey` stores every key as
"local" (`accounts/service.go:536`, not modelled: there is one type of key here).

Admin account: two instances that start together, or one that dies while it replaces the table, can leave the table of proposal keys
short (`keys/basic/init.go:19`, configs.go:33), and a key that was added while it was short stays out of it until
a restart; a stored transaction is sent again with the sequence number it was signed with, and once another one has used it,
it can never succeed (`transactions/service.go:308`, a TODO); a request that needs a key while the table is empty fails.

Tokens: a withdrawal to an account of the wallet is stored twice when the handler of its deposit comes before the job's own insert;
a non-fungible token from outside, and a deposit by a transaction that a client wrote, have a row whose type is not the token's: they are never
listed, and stored again whenever the event comes again (`tokens/service.go:365`, openapi.yml:32); the second of two deposits of one
transaction to one account is taken for the first; two first deposits to an account race in `InsertAccountToken`, and the loser's is
lost; when the access node does not return a transaction, the deposit is lost and a row of type Unknown stays; a watched address in
another spelling is never matched; a token added under nearly the name of a configured one takes its place after a restart; `_` in a name is
a wildcard; an asynchronous Setup enables the token before its transaction is executed.

Middleware: the one redis connection (`main.go:276`) allows one caller at a time, so concurrent requests may read each
other's replies, and after an error every POST fails until a restart.

Migrations: the chained `Where`/`Update` calls of m20211005 add their conditions up, so only jobs of status 0 get a state, and no server takes up the unfinished ones of status 1 to 4; its rollback
leaves `state`, which `Migrate` added; the first migration is recorded whatever failed; on sqlite a crash after
the index was created, before that is recorded, keeps the server from ever starting; on PostgreSQL a rollback that was cut off
cannot be completed, or a record hides a missing column.

## 7. Not modelled

Left out for good: listings and the decoding and encoding in the handlers (read-only, or no state), environment variables and the
wiring of services (they become constants), the KMS update command (one-shot, on a stopped wallet), key back ends and encryption
(cryptography), the gRPC client (its errors are modelled where they are met), contracts, examples and tests.

Left out of the modelled parts: attributes and results of jobs except what a notice carries; UUIDs; log output; the contents of events;
the delay of tickers; `Status` and other read-only calls; types of keys; balances; the substitution of names in Cadence code; the rate limit of
sending; requests the middleware lets through without its store (not POST, scripts) or refuses without it (no key), and `Prune`, which nothing
calls; databases older than the first schema, MySQL (whose column types the migrations do not fit), several servers that migrate
at a time (MIGRATIONS.md forbids it) and the rollback of the first migration, which is never reached. Assumed: the settings row exists
(its creation by `FirstOrCreate` locks nothing, like that of the listener's status row).

## 8. Plan

Modelled: `WorkerPool`, `JobLedger`, `ChainListener`, `SystemSettings`, `Requests`, `AccountKeys`, `AdminKeys`, `TokenRegistry`,
`Transfers`, `Migrations`. Left, in this order:

1. A refinement for `AccountKeys`: without overlap and cuts it implements an account whose keys are one set. An abstract ledger for
   `Transfers`, in which each request and each event counts once.
2. `Transfers` on the steps of `ChainListener` instead of on its interface.
