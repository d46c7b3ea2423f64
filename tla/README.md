# A formal model of the reserve auditor

This directory holds TLA+ modules that model the reserve auditor, TLC
configurations that check them on small instances, and TLAPS proofs of the
main safety properties for every value of the constants. `PROJECT.json` lists
components, runs, hazards, findings, theorems, and which source lines each
definition models.

## The system

The auditor compares two independent histories and records where they agree:

* the MobileCoin **ledger**: blocks with mint configs, mints and burns;
* the **safes** on Ethereum, as a transaction service lists them: deposits
  (transfers to the safe) and withdrawals (multi-sig transactions that name the
  public key of a burn).

Mints should be backed by deposits (the mint's nonce holds the deposit's
transaction hash), withdrawals should redeem burns (the withdrawal names the
burn's public key). Everything is kept in one SQLite file.

| Component | State | Operations | Talks to |
|---|---|---|---|
| audit database (`src/db`, `migrations`) | 11 tables, one row of 15 counters | inserts with UNIQUE columns, `find_unaudited_*`, `inc_*` | everything |
| mint/deposit matching (`db/models/audited_mint.rs`) | `audited_mints` | `try_match_deposit_with_mint`, `try_match_mint_with_deposit` | called by both kinds of threads |
| burn/withdrawal matching (`db/models/audited_burn.rs`) | `audited_burns` | `try_match_withdrawal_with_burn`, `try_match_burn_with_withdrawal` | the same |
| block sync (`db/mod.rs`) | mint configs, mints, burns, balances, synced blocks | `sync_block_with_conn`, `lookup_mint_config` | main thread |
| main thread (`bin/main.rs`) | block it works on | `sync_loop`, `audit_block_data` | ledger database, audit database |
| safe threads (`gnosis/sync.rs`, `sync_thread.rs`) | listing it works through | `poll`, `process_transactions` | transaction service, audit database |
| SQLite (`db/conn.rs`, `db/transaction.rs`) | exclusive lock, write-ahead log | begin, commit, roll back, busy timeout | all threads |
| connection pool (`db/mod.rs`, `db/conn.rs`) | connections in use | `get_conn`, timeout | all threads of a process |
| opening the file (`db/mod.rs`, `db/models/counters.rs`, `migrations`) | schema, counters row | `new_from_path`, `ensure_exists` | every process |
| fetcher (`gnosis/fetcher.rs`) | pages fetched so far | `get_all_transaction_data` | transaction service, safe threads |
| configuration (`gnosis/config.rs`, `bin/main.rs`) | audited safes and tokens | read at a start | matching, safe threads |
| HTTP and gRPC APIs, `get-block-audit-data` (`http_api`, `service.rs`, `bin/main.rs`) | requests being answered | queries | audit database |
| Prometheus gauges (`counters.rs`) | a mirror of the counters row per process | `update_prometheus` | every `inc_*` |
| front end (`frontend/src`) | tables of the page | six requests | HTTP API |

What makes it hard: the two sides of a pair are stored by different threads in
either order and nothing looks at a pair again later; the block to sync is
chosen before the lock is held; a block and a transaction are many statements,
any of which may be the last before a crash, a panic or a lock timeout; errors
are counted in the same database that their rollback resets; the audit log has
no UNIQUE constraint; and a withdrawal's public key is not unique. On the read
side, answers are put together from several queries without a transaction while
blocks are committed between them. Below the database, a listing grows between
two of its pages, threads hold a connection while they wait for the lock or the
watcher, and processes race to create the file.

What makes each part correct:

* audit log: every row is a true match, nothing is matched twice, and every
  pair that could be matched is;
* counters: every attempt to match leaves exactly one trace;
* block sync: the database is the image of a prefix of the ledger, balances
  follow from the history, limits hold across blocks;
* safe threads: a transaction is processed by one thread or not at all, wholly as
  far as the safe of that thread is concerned, and the ways in which a deposit can
  be lost are known;
* the whole: every block and every listed transaction gets there in the end, and
  each commit is a step of an abstract audit log;
* read side: an answer about a block is never torn, a balance never overstated,
  the page shows each row once, gauges never show what was not committed;
* below: a fetch leaves no gap, nobody waits for ever for a connection or the
  lock, no start resets the counters or leaves a file that cannot be opened.

## Modules

| Module | Models |
|---|---|
| `AuditDb` | the tables as one record `Databases`, counters, configuration lookups, the `find_unaudited_*` queries |
| `AuditedMint`, `AuditedBurn` | matching: a `try_match_*` call is the set of databases it may leave |
| `SyncBlock` | the statements of `sync_block_with_conn` and `lookup_mint_config` |
| `Store` | variables `db` (committed), `wdb` (what the lock holder sees), `holder`, `failures`; begin, write, commit, roll back, lock timeout, crash |
| `LedgerSync` | variable `scan` (main thread of each process), `ledger`; one action per statement of a block |
| `GnosisSync` | variables `work` (safe threads) and `api` (what the service lists); one action per statement of a transaction |
| `ReserveAuditor` | composition with crashes and restarts; fairness; the properties |
| `AuditorInvariant` | the inductive invariants: `IInv`, and those of matching, commits, the mirror of the ledger, the rows, limits and balances, and what a change of the configuration leaves in force |
| `Claims` | what comments and the schema say and the code does not do |
| `AuditLog`, `AuditLogRefinement` | what the auditor promises, without threads and transactions; the mapping under which it keeps the promise |
| `HttpApi` | variable `handler`: requests that take several queries, next to the writers |
| `TablePage` | variables `page` and `pager`: the front end's six requests, and paging through the audit log |
| `Gauges` | variable `gauges`: the Prometheus gauges of each process |
| `Reconfiguration` | two instances of the auditor (of `MatchProofs`, which extends `ReserveAuditor`, so that its lemmas come along), before and after a change of the configuration |
| `Fetcher` | variables `listing`, `thread`, `recorded`: the pages of a poll |
| `ConnectionPool` | variables `at`, `conns`, `lock`, `panicked`: who holds what while waiting for what |
| `OpenDb` | variables `file`, `opener`, `writer`: migrating a new file and inserting the counters row |
| `MCReserveAuditor` | constants of `matching`, `progress` and the claims |
| `MCHttpApi`, `MCGauges`, `MCTablePage`, `MCReconfiguration`, `MCRuntime` | constants of the other runs |
| `InvariantProofs` | what each operator on databases returns and leaves alone; type correctness, the inductive invariant; soundness and uniqueness of the audit log; every step as a step of one thread on one database |
| `MatchProofs` | completeness of the audit log, accounting of attempts |
| `CommitProofs` | what a commit adds up to: one unit, the image of the ledger; the auditor implements `AuditLog` |
| `FiniteSums` | induction over finite sets, and what follows for sums over them |
| `LedgerProofs` | limits and balances |
| `ServiceProofs` | the answers of the HTTP handlers, the page, the gauges |
| `ReconfigurationProofs` | what survives a change of the audited safes |
| `RuntimeProofs` | opening the file, the connection pool, fetching |

`HttpApi`, `TablePage` and `Gauges` each compose one reader with the whole
`ReserveAuditor`; `Fetcher`, `ConnectionPool` and `OpenDb` stand alone, because
what they do shares no state with the rows of the database.

### How state and actions correspond to the code

* **Rows** have no ids; the UNIQUE column of a table stands for its id.
  `audited_mints` and `audited_burns` have none and are sequences, so a row
  inserted twice would be seen. An `Option` is a set of at most one element.
  `.first()` without ORDER BY is a choice of any row.
* **Transactions.** `exclusive_transaction` is `Begin` ... `Commit`, with `wdb`
  as the uncommitted state nobody else sees (write-ahead log). The nested
  `transaction()` calls are savepoints: a failed match leaves nothing but the
  counter incremented after it. `transaction()` retries only pool errors, which
  cannot occur inside it, so it has no retry in the model.
* **The main thread** reads the number of synced blocks in `SyncLoop` (no
  transaction) and checks it again in `CheckBlockIndex` (inside it). Blocks are
  stored and audited one mint config, mint or output per step.
  `poll_block_timestamp` blocks until the watcher has a timestamp: a delay only.
* **A safe thread** copies the listing in `Poll` and works through it. Insert
  and decode are one step, store and match of a deposit are one step; nobody
  can observe a difference while the exclusive lock is held. The checks of
  `parse_withdrawal_with_pub_key_multi_sig_tx` are three Booleans, with the
  unwraps between them in their places. A failed fetch changes nothing.
  A transfer has a hash of its own, which its deposit is stored under; the
  foreign key of `gnosis_safe_deposits` refuses one that is not recorded, and the
  thread panics (`DepositRefused`). The transaction service nests a transfer in
  the transaction it is part of, so `EthereumTransactions` holds those whose
  transfers carry the transaction's hash: that they agree is an assumption about
  the service, and the code does not check it.
* **Panics.** An error of `sync_loop` or `process_transactions`, and an unwrap
  inside them, rolls the transaction back and ends the thread. A process with a
  dead thread is started again as a whole (`Restart`; what the panic handler and
  the supervisor do is outside this repository); until then its other threads
  may go on. `Crash` ends all threads of a process at any point.
* **Numbers.** `u64` is `0 .. MaxU64` and `+=` wraps (overflow checks are off in
  the release profile). Ethereum values are truncated by `truncated` and panic
  when they exceed `u64`. The overflow of `10_u128.pow` for more than 38 surplus
  decimals is not modelled: no such token is configured.
* **Configuration** is fixed in `ReserveAuditor` and every stored row went
  through it, so three counters stay 0 there as in the code: nothing reaches
  `num_mints_to_unknown_safe` or `num_burns_from_unknown_safe`, and no stored
  deposit is of an unknown token. `Reconfiguration` changes the configuration at
  a restart and reaches those branches.
* **Requests.** Each query of a handler is a step that reads `db`; between two of
  them anything may be committed. Only `get-block-audit-data` reads in one
  transaction and is one step. `get_signers` of a mint without config is the
  error that ends `mint_info`. The front end's six requests are answered in any
  order, each in one step (each is one query).
* **Gauges** are set by every increment, from inside the transaction, and by
  nothing else. Three error paths increment before they fail
  (`CountersAtError`): the database forgets the increment, the gauge does not.
* **Fetching.** The service answers with a page and the URL of the next. An
  error drops the pages fetched so far. `GnosisSync` takes the listing in one
  step; what a real fetch returns may also hold some newer transactions, out of
  place, and repeat others, and then it is *not* a listing the service ever had.
  `FetchCoversListing` says what it is: everything listed when the first page was
  read, in that order, and nothing never listed. A repeated transaction is
  skipped like a recorded one and a newer one is processed early, which the
  atomic `Poll` of `GnosisSync` allows anyway (a poll may come later, and the
  order of two new transactions is not relied upon).
* **Pool.** A round of a thread is its sequence of waiting points: a connection,
  a read, the timestamp of the watcher, BEGIN EXCLUSIVE, the commit. A timeout
  panics a thread, which ends the process; a handler only answers INTERNAL.
* **Opening.** The migration runner reads which migrations have run, then runs
  the missing one in a transaction; `ensure_exists` queries, then inserts. A
  process whose view is outdated by then is refused by SQLite or by the schema,
  panics, and is started again.

## Runs

In the runs over the database `u64` is 0..15, tokens have one decimal more than
the auditor keeps (25 truncates to 2), and `MaxFailures` bounds crashes and lock
timeouts together.

| Run | Module | Instance | Shows |
|---|---|---|---|
| `matching` | `MCReserveAuditor` | 1 safe, 2 blocks of 4 kinds and 2 deposits, or 2 blocks of 3 kinds and 3 withdrawals (two with one key); or 2 safes, no ledger and 21 transactions of every shape; 1 failure each | the audit logs are sound, one to one and complete (burns: when no other withdrawal names the key), every attempt is accounted for, every commit is a step of `AuditLog`; a recorded transaction has exactly the part of the safe whose thread processed it, and what is missing for a safe has one of two known reasons |
| `ledger` | `MCHttpApi` | no safe, 4 blocks of 4 kinds, 1 failure; 1 request at a time until the ledger has 3 blocks | the database is the image of a ledger prefix; balances; limits; no torn answer, no overstated balance |
| `two_processes` | `MCGauges` | 2 processes, 1 safe, 2 blocks, 2 transactions, 1 failure | the same under a race, the inductive invariant, each commit is one unit; gauges against rollback and restart |
| `progress` | `MCReserveAuditor` | 1 safe, 2 blocks, 3 transactions of which one cannot be processed, 1 failure, `FairSpec` | every block and every listed transaction is processed, unless that one holds it up |
| `page` | `MCTablePage` | 1 safe, 2 blocks of 5 kinds, two pairs to match, pages of one row, no failure | each row is on the page once; pages of the log fit together |
| `runtime` | `MCRuntime` | 6 transactions in pages of 2; or 2 safes and 1 request with pools of 2, 3 and 4; or 3 processes on a new file; 2 failures each | fetching, pool and opening |
| `reconfiguration` | `MCReconfiguration` | 2 safes become 1 with another token, 2 blocks of 3 kinds, 4 transactions before and 2 after, no failure but the restart | new matches follow the new configuration; accounting survives |

**Runs with several scopes.** Three runs join scopes that do not interact, and a
behaviour stays in one. In `matching` and `page` it has either mints and deposits
or burns and withdrawals: no query and no verification of one side reads a table
of the other, and the counters are disjoint. In `matching` it may also have two
safes and no ledger: what a safe thread stores of a transaction depends on no
block, only what it matches does. In `runtime` it is about the
fetcher, the pool or the file. Nothing is lost by leaving out their
interleavings. In `ledger` the client stops asking once the ledger has its fourth
block: a request reads at most three blocks' worth of difference anyway, while
limits and balances need the fourth.

**Why the bounds are enough.** A pair is one mint and one deposit; a second pair,
a wrong amount and a wrong token give every outcome of matching, in both orders.
Two blocks allow a pair to be split and a nonce to be repeated; four allow a
config, mints under it, its replacement and mints after that, and balances that
are overdrawn and refilled. One failure can hit every step; a second one can only
hit the state the first left, which `Restart` makes an initial one with a
different committed database. A page of one row makes the second pair exceed it.
Three pages of two let a fetch be overtaken by more than a page. Pools of two,
three and four are one that is fought over, one short and one each. Deadlock
checking is off where the system may stop: in `ledger`, without safes an idle
auditor polls, which changes nothing; in `runtime`, processes that have the file
open are done.
The deployment has one scanning process; two are a robustness question the code
answers with its check of the block index.

**Fairness** (`FairSpec`). Weak fairness of every thread's own steps: the
operating system schedules them and each is a finite computation. Strong fairness
of BEGIN EXCLUSIVE: SQLite's busy handler retries for 30 seconds and transactions
are short, so a waiting writer gets in although the lock is taken again and
again. Weak fairness of `Restart`: the process is supervised. None of the
environment (blocks, listings, crashes). The parts of `runtime` state the same of
their own steps: weak fairness of the fetching thread (a request is answered in
the end), of reads, commits and restarts; strong fairness of getting a connection
(r2d2 hands a returned connection to whoever waits) and of the write lock, for
safe threads, handlers and openers. Of the main thread `PoolSpec` assumes only
that it ends a transaction it has begun: the watcher may never answer.
`LedgerIsSynced` and
`ListedTxsAreProcessed` except a ledger that repeats a nonce or a burn's key:
`nonce_hex` and `public_key_hex` are UNIQUE, so such a block can never be stored
and its restarts interrupt the safe threads. The two also except what a
transaction that cannot be processed (`Unprocessable`: it panics its thread on
every poll, after every restart) really holds up: the older transactions of its
safe, which come after it in the listing, transactions of other safes, and
blocks, whose syncing each restart may interrupt. The `progress` run lists such a
transaction: newer transactions of its safe must still be recorded. That the
exclusive lock, taken once per listed transaction on every poll, reaches every
thread that keeps asking for it is assumed with the strong fairness of BEGIN
EXCLUSIVE and not shown: SQLite's busy handler sleeps and tries again, in no
order.

### The abstract audit log

`AuditLog` has four growing tables and two logs. One step adds the rows of a
block or of an Ethereum transaction and, in the same step, the pairs they
complete: exactly those for mints; for burns at least those without a rival
withdrawal. `AuditLogRefinement` maps the committed database to it (ids replaced
by the rows they stand for); statements inside a transaction, rollbacks, crashes
and restarts are stuttering. `ImplementsAuditLog` adds to the invariants that
nothing is ever matched later than its second half, and that a log entry is
neither changed nor moved.

### Claims the code does not keep

Five runs expect a violation. Each checks one sentence of the schema, a comment or
a log message; `PROJECT.json` quotes it.

| Run | What happens |
|---|---|
| `claim_redeemable` | a burn is compared with the wrong one of two withdrawals naming its key, and never again |
| `claim_total_limit` | mints of one block exceed the total limit together and are all attributed |
| `claim_invalid_transfer` | the counter of invalid transfers is rolled back with the transfer, on every retry |
| `claim_ignored` | a transfer of an unknown token hides the audited transfers after it |
| `claim_skipped` | a transaction with transfers to two audited safes is recorded by the first thread; the second skips it as processed, and its safe's deposit is lost |

`claim_ignored` and `claim_skipped` are losses for good: the transaction is
recorded and no poll looks at it again. `LossesAreExplained` says that there is
no third way to lose a deposit or a withdrawal of a recorded transaction.

Four smaller disagreements follow from the model and have no run:

* the first half of every perfect pair is counted as an *unexpected* error
  (`audited_mint.rs:109`; the schema says "unexpected errors", the log message at
  `gnosis/sync.rs:207` "this could be fine");
* a deposit of an unknown token is counted as an invalid transaction, never by
  `num_unknown_ethereum_token_deposits` (`gnosis/sync.rs:188`);
* a mint that matched no config makes `mint_info` fail for its whole block
  (`http_api/service.rs:257`; the comment says "we should always have an id");
* after a restart all gauges are 0 until the next increment, which sets them all
  (`db/mod.rs:98`; the comment at `counters.rs:11` says "Number of blocks
  synced").

## Proofs

Assumptions on the constants, all evaluated by TLC: `MaxU64` is a positive
natural, `Config` a sequence of safe configurations (`Reconfiguration`: two of
them), `Blocks` a set of block contents, `ApiTxs` a set of transactions per safe,
the bounds are naturals; in `ConnectionPool`, users are finitely many and safe
threads, handlers and the main thread are different ones. Nothing is assumed of how many safes, tokens, processes or blocks there are, and
nothing of uniqueness. Two conditions are hypotheses where they are needed, in the
properties or in the theorem: that Gnosis safes are audited at all, and that each
is configured once.

**`Invariance`**: `Spec => []IInv`. The type invariant is not inductive as it
stands; `IInv` adds what each step relies on:

* *lock*: a thread whose program point is inside a transaction is the only holder
  of the lock. Otherwise a `Write` of one thread would disturb what another one
  has established about `wdb`;
* *next block*: from the check on, the main thread's block is the next one of
  `wdb`, although it was picked without the lock; it exists in the ledger;
* *stored before audited*: the mints and burns the thread is going to audit are
  in `wdb`. The audit passes them from memory (`SyncBlockData`);
* *no gap*: `block_audit_data` is `0 .. num_blocks_synced - 1`, so it is finite
  and has a maximum for `sync_loop` to read;
* *unique configs*: a block has one `MintConfigTx` per token, so
  `lookup_mint_config` returns an option;
* *kind*: a safe thread that processes transfers, or a multi-sig, has a
  transaction of that kind.

The proof has one lemma per action, on top of lemmas that state what each operator
on databases preserves.

**`MintSoundness`, `MintPairsAreUnique`, `BurnSoundness`, `BurnPairsAreUnique`**:
every committed audit log is sound and one to one. Neither is inductive for the
committed database alone; `LogInv` states both of `db` and `wdb`. The proof
shows that every step changes `db` and `wdb` only by a *log step* (`DbStep`): the
rows of all tables grow, and at most one pair is appended, which is a true match
(`NewMintPair`, `NewBurnPair`) of stored rows neither of which is in the log yet.
A log step preserves `LogInv`. That the audited mint is a stored one comes from
`IInv`.

**One step at a time** (the last part of `InvariantProofs`). The invariants below compare the
committed database `db` with `wdb`, which only the lock holder changes. `StepCases`
reduces every step of the system to four cases: no database changes (a rollback
only sets `wdb` back), a thread begins, a thread at its last program point
commits, or a thread inside its transaction makes a *move* that takes its state
and database `(s, d)` to `(s2, d2)`. A move is described without the variables,
table by table, so that the proofs after it argue about two records and not about
the whole system.

**`MintCompleteness`, `BurnCompleteness`**: a stored mint and the stored deposit
that backs it are in the log together, whichever was stored first; the same for
burns whose key no other withdrawal names. The property is false of `wdb` in the
middle of a block, where rows are stored first and audited later; `MatchInv`
excepts exactly the *open* rows, those the main thread has stored and not tried
yet (`OpenMints`, `OpenBurns`), and a thread at its commit has none. The search
of the second row finds the first because the columns it looks up are unique
(`UniqueRows`), and because a row that is in the log already is there with the
only row it can belong to (`LogInv`). That a safe is configured once
(`UniqueSafes`) is a hypothesis of the property: the code takes the first
configuration of an address.

**`MintAccounting`, `BurnAccounting`**: stored rows and traces (log entries plus
counters) balance. `AccountInv` adds the number of open rows to the balance. The
sum of the counters is a fixed number of terms, so this needs cardinalities of
finite sets but no induction.

**`TransactionsAreWhole`, `CommitsAreUnits`**: `UnitInv` says what the open
transaction has changed, as a function of its thread's program point and position:
part of one block (`BlockUnit`), or one new transaction with the deposits of the
transfers before the position (`TxUnit`), and nothing else; logs are only appended
to and counters go up (`GrowsFrom`). At the last program point the part is all
that the thread stores for its safe: the deposits of the transfers to it, up to
the first one of an unaudited token where the code leaves the loop, or the
withdrawal.

**`NothingElseIsLost`**: of a recorded transaction, a safe that lists it misses
nothing unless another safe lists it too or it moves an unaudited token to the
safe. By `TransactionsAreWhole` some safe's part of some listed transaction of
that hash is stored. If no other safe lists the hash, it is this safe's; a
listing has a hash once (`HashListedOnce`, an invariant of its own), so it is
this very transaction; and without a transfer of an unaudited token the loop
reaches them all.

**`DbMirrorsLedger`**: the committed tables are the image of a prefix of the
ledger. `PrefixInv` has the image of the synced blocks and, while a block is being
stored, the part of it before the main thread's position (`PartImage`); balance
rows are one per synced block (`BalanceRows`). The block being stored is the next
one by `IInv`.

**`AuditorImplementsLog`**: with Gnosis safes audited and each configured once,
`Spec => ImplementsAuditLog`. Initial states map to initial states; a step that
changes `db` is a commit, hence one unit (`UnitInv`), its new log entries are
sound and one to one (`LogInv`), none that belong there are missing (`MatchInv`
before and after the step), and each new burn entry has a new row
(`NewPairsAreNew`). The mapping replaces ids by rows with `CHOOSE`; that the rows
of old entries do not change is `UniqueRows` and that rows stay.

**`LimitsAudited`**: what is attributed to a config stays within its limit. The
code compares a sum over the mints of *older* blocks with the limit, so the
property is about sets with at most one mint per block, and `LimitInv` (of `db`
and `wdb`) adds that no stored mint is of a block after the one being synced and
that its config is older. The new mint is then the only one of the newest block,
and the rest of the set is what the code summed up. That the sum does not wrap
follows from the limit being a `u64`.

**`BalancesAudited`**: stored balances follow from the history. The code keeps a
running balance that a burn may drive to zero; the property is the closed form,
the largest sum over a suffix of the events (`LargestSuffixSum`). `HistoryInv` says
that the balance rows hold it for each synced block and, in the middle of a block,
that the map of the main thread holds it for the events so far (`PartBalances`).
The step is the law that adding an event of amount *a* takes the largest suffix
sum *x* to `max(x + a, 0)`, and that a burn exceeds the balance exactly if the
history says so.

**Sums.** Both rest on `FiniteSums`. The induction theorems of the library take the
property as an operator and cannot be used here; `NatSetInduction`,
`SubsetInduction` and `ElementInduction` take it as a *set*, which the provers can
instantiate, and are proved from the well-foundedness of `<`. From them: a sum
over a finite set exists, splits over disjoint sets, grows by the element added,
is monotone, and of ones is the cardinality.

**`AccountsSurvive`, `MatchesFollow`** (`Reconfiguration`, any two configurations).
Soundness of the log is lost when the configuration changes: older entries are
matches of the old one. `HandoverInv` is what remains: `IInv`, unique rows,
one-to-one logs, `AccountInv`, and that the entries the open transaction has
*added* are matches (`AddedMatch`). Every step keeps it under either configuration
(`NextHandover`), and since it says nothing about the configuration the rows were
stored under, a database left by the old processes, stopped at any point, is one
to start the new ones on (`StartedHandover`). A pair that a commit adds is the
only pair its ids stand for (`UniqueRows`), hence a match under the configuration
in force.

**`StartsKeepCounters`** (`OpenDb`, any number of processes): the inductive
invariant says what a snapshot is worth: if nobody has committed since a process
found no counters row, there is none (`SnapshotsTell`).

**`PoolIsEnough`** (`ConnectionPool`, any number of safes and handlers). `Holding`:
nobody has a connection before the first step of its round is done, and from then
on at most one. If a user waits for one, the others hold at most one each, so fewer are
in use than there are users, and the pool has one left.

**`FetchIsComplete`** (`Fetcher`, any page size and growth). `FetchedSoFar`: after
the pages up to offset `url`, of a listing that has `n` entries by now, every entry
of the first listing less than `url` places from the newest end has been fetched,
and the first occurrences are in order. Growth only moves entries away from the
newest end: pages may repeat entries and cannot skip any.

**`BlockAnswers`, `MintInfoAnswers`, `MintInfoFailures`** (`HttpSpec`, any number
of clients). `HttpInv` relates what a handler has read so far to the database as it
is *now*: committed rows stay and a synced block is complete, so two queries about
one block can differ only in that the first came before the block. `RowInv` adds
to the writers' invariants that no row is ever changed or removed and that every
mint is vouched for by an older config whose signers signed it, or was counted as
unattributed. Most of the proof is that every writer's step preserves what the
handlers know. **`HttpTypeCorrectness`** needs the same facts, because an answer is
a join of rows read at different times.

**`BalanceAnswers`** (`HttpSpec`). The handler sums mints first and burns second;
`TotalInv` says that the first sum is at most what the mints add up to now. Sums
of growing finite sets grow (`FiniteSums`).

**`PagesFit`, `MintsListed`, `BurnsListed`** (`PageSpec`). `PageInv` relates each
answer to a database that the current one has grown from, with the log of the
earlier one a prefix of the later. Unaudited rows of an answer are those whose id
is not in that log, and the log query returns the log itself up to its limit: the
inner joins drop no entry because the log is sound (`LogInv`), so the `n`-th row
of the join is the `n`-th entry.

**`GaugesTellTheTruth`, `GaugesFollow`** (`GaugeSpec`, any number of processes).
Neither bound is inductive outside transactions alone. `GaugeInv` compares the
gauges with `wdb` while a thread of the process is in a transaction and with `db`
otherwise, and says that an open transaction has either changed no counter or set
the gauges to all of them. The step that could break it is a rollback: the gauges
keep what the database forgets. `LockCases` shows that a lock is given up only by
a commit at the last program point, or together with the death of a thread of the
process, whose gauges then count for nothing until `Restart` sets them to 0.

**Only model-checked**: liveness under fairness (`LedgerIsSynced`,
`ListedTxsAreProcessed`, `ListedTxsAreRecorded`, `RoundsEnd`,
`EveryoneOpensInTheEnd`), which is out of the prover's reach. Every invariant and
every action property that a passing run checks is also a theorem.

## Not modelled

* Requests that are one query or none (`counters`, `burns`, token precisions,
  the configuration, gRPC `get_counters`): a single query sees one committed
  database. Memos, formatting, CORS headers, and the front end's layout and other
  pages.
* Parsing of addresses, hashes and JSON, configuration files, command line,
  conversions between error types: input and output, character by character. Two
  spellings of one address are one model value, as `EthAddr`'s equality has it.
* The protobuf conversions of rows under `convert/` other than the counters: only
  their own tests call them.
* Losing the last commits in a power failure (`synchronous = NORMAL`): SQLite then
  returns to an earlier commit, which is a state the model reaches; what the two
  sides have seen of the lost commits is not kept anywhere else.
* The gauge of failed fetches: nothing depends on it.

## Plan

1. Done: database, matching, block sync, store, both kinds of threads,
   composition, type correctness, inductive invariant, soundness and uniqueness
   of the audit log.
2. Done: the read side (APIs, page, gauges), fetching, the pool, opening,
   reconfiguration, the abstract audit log and its refinement.
3. Done, in the proofs: completeness and accounting of matching, whole
   transactions, what may be lost of one, one unit per commit, the mirror of the ledger, the refinement of
   the audit log, limits and balances, the answers of the HTTP handlers, the page,
   the gauges, opening, the pool, fetching, the change of the configuration.
4. Left: liveness stays with TLC. A property of `Fetcher` and `GnosisSync`
   together (the listing a poll works on is the one `FetchCoversListing`
   describes) would need a composition of the two, which is argued above and not
   modelled.

## Running

    tlc -workers 2 -config MCMatching.cfg MCReserveAuditor
    tlc -workers 2 -config MCLedger.cfg MCHttpApi
    tlc -workers 2 -config MCReconfiguration.cfg MCReconfiguration
    tlapm CommitProofs.tla
    tlapm ServiceProofs.tla
    tlapm ReconfigurationProofs.tla
