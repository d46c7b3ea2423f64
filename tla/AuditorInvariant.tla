--------------------------- MODULE AuditorInvariant ---------------------------
(***************************************************************************)
(* The inductive invariant of the auditor: what a thread relies on between *)
(* two statements of its exclusive transaction.                            *)
(***************************************************************************)
EXTENDS ReserveAuditor

\* The program points inside an exclusive transaction.
ScanInTx == {"check_index", "mint_config_txs", "mint_txs", "burns",
             "audit_mints", "audit_burns", "commit"}

WorkInTx == {"insert", "transfers", "multi_sig", "commit"}

WorkStates == [pc: WorkPcs, todo: Seq(RawGnosisTransactions), pos: Nat \ {0}]

\* Synced blocks have no gap, and (block_index, token_id) is unique in
\* mint_config_txs.
DbInv(d) ==
  /\ d.block_audit_data = 0 .. d.counters["num_blocks_synced"] - 1
  /\ \A c, o \in d.mint_config_txs :
       c.block_index = o.block_index /\ c.token_id = o.token_id => c = o

\* A row stands for the mint tx, or the burn output o, of the ledger.
MintStored(d, tx) ==
  \E m \in d.mint_txs : /\ m.nonce = tx.nonce /\ m.amount = tx.amount
                        /\ m.token_id = tx.token_id

BurnStored(d, o) ==
  \E b \in d.burn_tx_outs : /\ b.public_key = o.public_key /\ b.amount = o.amount
                            /\ b.token_id = o.token_id

MintsStored(d, txs, n) == \A i \in DOMAIN txs : i < n => MintStored(d, txs[i])

BurnsStored(d, outs, n) ==
  \A i \in DOMAIN outs : i < n /\ outs[i].burn => BurnStored(d, outs[i])

\* The main thread in state s, over the database d it sees and the ledger l:
\* its block exists and is the next one, and the rows it is going to audit
\* are stored.
ScanInv(s, d, l) ==
  /\ s.pc \notin {"poll", "dead"} => s.block_index < Len(l)
  /\ s.pc \in {"mint_config_txs", "mint_txs", "burns"} =>
       s.block_index = d.counters["num_blocks_synced"]
  /\ s.pc = "mint_txs" => MintsStored(d, l[s.block_index + 1].mint_txs, s.pos)
  /\ s.pc \in {"burns", "audit_mints"} =>
       LET txs == l[s.block_index + 1].mint_txs IN MintsStored(d, txs, Len(txs) + 1)
  /\ s.pc = "burns" => BurnsStored(d, l[s.block_index + 1].outputs, s.pos)
  /\ s.pc \in {"audit_mints", "audit_burns"} =>
       LET outs == l[s.block_index + 1].outputs IN BurnsStored(d, outs, Len(outs) + 1)

\* A safe thread in state s: inside a transaction it has one to work on, of
\* the kind its program point is for.
WorkInv(s) ==
  /\ s.pc \in WorkInTx => s.todo # << >>
  /\ s.pc = "transfers" => Head(s.todo).kind = "ethereum"
  /\ s.pc = "multi_sig" => Head(s.todo).kind = "multi_sig"

\* The lock is held by the one thread whose program point is inside an
\* exclusive transaction.
LockInv ==
  /\ \A p \in Procs : scan[p].pc \in ScanInTx => holder = {ScanThread(p)}
  /\ \A t \in Workers : work[t].pc \in WorkInTx => holder = {t}

\* The inductive invariant.  Inside the exclusive transaction the main thread
\* works on the block that is next in the database, although it picked the
\* block before it had the lock; what it audits is stored; no two threads are
\* inside a transaction; and the set of synced blocks has no gap.
IInv ==
  /\ TypeOK
  /\ DbInv(db) /\ DbInv(wdb)
  /\ LockInv
  /\ \A p \in Procs : ScanInv(scan[p], wdb, ledger)
  /\ \A t \in Workers : WorkInv(work[t])

----------------------------------------------------------------------------
(* What makes the audit complete between two statements of a transaction.  *)

\* The columns that identify a row.
UniqueRows(d) ==
  /\ \A m, o \in d.mint_txs : m.nonce = o.nonce => m = o
  /\ \A b, o \in d.burn_tx_outs : b.public_key = o.public_key => b = o
  /\ \A e, o \in d.deposits : e.eth_tx_hash = o.eth_tx_hash => e = o
  /\ \A w, o \in d.withdrawals : w.eth_tx_hash = o.eth_tx_hash => w = o

\* The mints, and the burns, of its block c that the main thread in state s has
\* stored but not tried to match yet.
OpenMints(s, c) ==
  {i \in DOMAIN c.mint_txs : \/ s.pc = "mint_txs" /\ i < s.pos
                             \/ s.pc = "burns"
                             \/ s.pc = "audit_mints" /\ i >= s.pos}

OpenBurns(s, c) ==
  {i \in DOMAIN c.outputs : /\ c.outputs[i].burn
                            /\ \/ s.pc = "burns" /\ i < s.pos
                               \/ s.pc = "audit_mints"
                               \/ s.pc = "audit_burns" /\ i >= s.pos}

OpenNonces(s, c) == {c.mint_txs[i].nonce : i \in OpenMints(s, c)}

OpenKeys(s, c) == {c.outputs[i].public_key : i \in OpenBurns(s, c)}

MintPaired(d, m, e) ==
  \E i \in DOMAIN d.audited_mints :
    d.audited_mints[i] = [mint |-> m.nonce, deposit |-> e.eth_tx_hash]

BurnPaired(d, b, w) ==
  \E i \in DOMAIN d.audited_burns :
    d.audited_burns[i] = [burn |-> b.public_key, withdrawal |-> w.eth_tx_hash]

\* No other withdrawal names the public key of w.
HasNoRival(d, w) == \A v \in d.withdrawals : v.public_key = w.public_key => v = w

\* Every pair that belongs together is matched, but for the open rows.
MintsMatched(d, open) ==
  \A m \in d.mint_txs, e \in d.deposits :
    Backs(e, m) /\ m.nonce \notin open => MintPaired(d, m, e)

BurnsMatched(d, open) ==
  \A b \in d.burn_tx_outs, w \in d.withdrawals :
    Redeems(w, b) /\ HasNoRival(d, w) /\ b.public_key \notin open => BurnPaired(d, b, w)

\* The traces that matching attempts have left.
MintTraces(d) ==
  Len(d.audited_mints)
    + d.counters["num_mismatching_mints_and_deposits"]
    + d.counters["num_unknown_ethereum_token_deposits"]
    + d.counters["num_mints_to_unknown_safe"]
    + d.counters["num_unexpected_errors_matching_deposits_to_mints"]
    + d.counters["num_unexpected_errors_matching_mints_to_deposits"]

BurnTraces(d) ==
  Len(d.audited_burns)
    + d.counters["num_mismatching_burns_and_withdrawals"]
    + d.counters["num_unknown_ethereum_token_withdrawals"]
    + d.counters["num_burns_from_unknown_safe"]
    + d.counters["num_unexpected_errors_matching_withdrawals_to_burns"]
    + d.counters["num_unexpected_errors_matching_burns_to_withdrawals"]

\* Every row but the open ones has left one trace.
MintsAccounted(d, open) ==
  /\ IsFiniteSet(d.mint_txs) /\ IsFiniteSet(d.deposits)
  /\ Cardinality(d.mint_txs) + Cardinality(d.deposits) = MintTraces(d) + Cardinality(open)

BurnsAccounted(d, open) ==
  /\ IsFiniteSet(d.burn_tx_outs) /\ IsFiniteSet(d.withdrawals)
  /\ Cardinality(d.burn_tx_outs) + Cardinality(d.withdrawals) = BurnTraces(d) + Cardinality(open)

\* The database the lock holder sees is complete but for what the main thread
\* still has to audit.
MatchInv ==
  UniqueSafes =>
    /\ MintsMatched(db, {}) /\ BurnsMatched(db, {})
    /\ \A p \in Procs : scan[p].pc \in ScanInTx =>
         /\ MintsMatched(wdb, OpenNonces(scan[p], Contents(p)))
         /\ BurnsMatched(wdb, OpenKeys(scan[p], Contents(p)))
    /\ \A t \in Workers : work[t].pc \in WorkInTx =>
         MintsMatched(wdb, {}) /\ BurnsMatched(wdb, {})

AccountInv ==
  /\ MintsAccounted(db, {}) /\ BurnsAccounted(db, {})
  /\ \A p \in Procs : scan[p].pc \in ScanInTx =>
       /\ MintsAccounted(wdb, OpenMints(scan[p], Contents(p)))
       /\ BurnsAccounted(wdb, OpenBurns(scan[p], Contents(p)))
  /\ \A t \in Workers : work[t].pc \in WorkInTx =>
       MintsAccounted(wdb, {}) /\ BurnsAccounted(wdb, {})

\* Rows are unique, and an auditor of Gnosis safes loses no pair and no
\* attempt.
CompleteInv ==
  /\ UniqueRows(db) /\ UniqueRows(wdb)
  /\ AuditsGnosis => MatchInv /\ AccountInv

----------------------------------------------------------------------------
(* What does not depend on the configuration the rows were stored under.   *)

\* The entries of the logs of d after the first n pair stored rows that match.
MintEntriesMatch(n, d) ==
  \A i \in DOMAIN d.audited_mints : i > n =>
    \E m \in d.mint_txs, e \in d.deposits :
      /\ d.audited_mints[i] = [mint |-> m.nonce, deposit |-> e.eth_tx_hash]
      /\ Backs(e, m)

BurnEntriesMatch(n, d) ==
  \A i \in DOMAIN d.audited_burns : i > n =>
    \E b \in d.burn_tx_outs, w \in d.withdrawals :
      /\ d.audited_burns[i] = [burn |-> b.public_key, withdrawal |-> w.eth_tx_hash]
      /\ Redeems(w, b)

\* What the open transaction has added to the logs of the committed database d.
AddedMatch(d, w) ==
  /\ Len(d.audited_mints) <= Len(w.audited_mints)
  /\ Len(d.audited_burns) <= Len(w.audited_burns)
  /\ MintEntriesMatch(Len(d.audited_mints), w)
  /\ BurnEntriesMatch(Len(d.audited_burns), w)

OneToOneLogs(d) == OneToOneMints(d) /\ OneToOneBurns(d)

\* The part of the invariant that a change of the configuration leaves in force:
\* older entries of the logs may be matches of another configuration.
HandoverInv ==
  /\ IInv
  /\ UniqueRows(db) /\ UniqueRows(wdb)
  /\ OneToOneLogs(db) /\ OneToOneLogs(wdb)
  /\ AddedMatch(db, wdb)
  /\ AuditsGnosis => AccountInv

----------------------------------------------------------------------------
(* What an open transaction has changed: d is the committed database, w the *)
(* one its thread sees.                                                    *)

Keeps(d, w, F) == \A f \in F : w[f] = d[f]

SafeTables == {"gnosis_safe_txs", "deposits", "withdrawals"}

LedgerTables == {"block_audit_data", "block_balance", "mint_config_txs", "mint_txs",
                 "burn_tx_outs"}

\* Logs are appended to, counters go up.
GrowsFrom(d, w) ==
  /\ Extends(w.audited_mints, d.audited_mints)
  /\ Extends(w.audited_burns, d.audited_burns)
  /\ \A c \in CounterNames : d.counters[c] <= w.counters[c]

\* A new entry of the burn log has a new burn or a new withdrawal.
NewPairsAreNew(d, w) ==
  \A i \in DOMAIN w.audited_burns : i > Len(d.audited_burns) =>
    \/ \A b \in d.burn_tx_outs : b.public_key # w.audited_burns[i].burn
    \/ \A v \in d.withdrawals : v.eth_tx_hash # w.audited_burns[i].withdrawal

\* The program points after the rows of a kind are stored, and after the block
\* is recorded.
AfterConfigs == {"mint_txs", "burns", "audit_mints", "audit_burns", "commit"}

AfterMints == {"burns", "audit_mints", "audit_burns", "commit"}

AfterFinish == {"audit_mints", "audit_burns", "commit"}

\* What of its block c the main thread in state s has stored.
StoredConfigs(s, c) ==
  {i \in DOMAIN c.mint_config_txs :
     (s.pc = "mint_config_txs" /\ i < s.pos) \/ s.pc \in AfterConfigs}

StoredMints(s, c) ==
  {i \in DOMAIN c.mint_txs : (s.pc = "mint_txs" /\ i < s.pos) \/ s.pc \in AfterMints}

StoredBurns(s, c) ==
  {i \in DOMAIN c.outputs : /\ c.outputs[i].burn
                            /\ (s.pc = "burns" /\ i < s.pos) \/ s.pc \in AfterFinish}

\* The main thread: nothing of a safe, and the next block once it is complete.
BlockUnit(s, d, w, c) ==
  /\ Keeps(d, w, SafeTables)
  /\ d.mint_txs \subseteq w.mint_txs /\ d.burn_tx_outs \subseteq w.burn_tx_outs
  /\ w.block_audit_data = IF s.pc \in AfterFinish
                          THEN d.block_audit_data \cup {Cardinality(d.block_audit_data)}
                          ELSE d.block_audit_data
  /\ \A i \in StoredBurns(s, c), b \in d.burn_tx_outs :
       b.public_key # c.outputs[i].public_key

\* The transfers to the safe before position n.
TransfersBefore(x, cfg, n) ==
  {x.transfers[k] : k \in {j \in DOMAIN x.transfers :
                             j < n /\ x.transfers[j].to = cfg.safe_addr}}

WellFormed(x, cfg) ==
  \A f \in ReachedTransfers(x, cfg) :
    f.token_addr # {} /\ (TokensOf(cfg, f) # {} => f.value # {})

\* What of its transaction x a safe thread in state s has stored.
StoredDeposits(s, x, cfg) ==
  CASE s.pc = "transfers" ->
         UNION {TransferRows(x, f, cfg) : f \in TransfersBefore(x, cfg, s.pos)}
    [] s.pc = "commit" /\ x.kind = "ethereum" -> DepositsOf(x, cfg)
    [] OTHER -> {}

StoredWithdrawals(s, x, cfg) ==
  IF s.pc = "commit" /\ x.kind = "multi_sig" THEN WithdrawalsOf(x, cfg) ELSE {}

\* A safe thread: nothing, or one new transaction and what it implies.
TxUnit(s, d, w, x, cfg) ==
  \/ s.pc \in {"insert", "commit"} /\ w = d
  \/ /\ s.pc # "insert"
     /\ Keeps(d, w, LedgerTables)
     /\ x.tx_hash \notin d.gnosis_safe_txs
     /\ w.gnosis_safe_txs = d.gnosis_safe_txs \cup {x.tx_hash}
     /\ w.deposits = d.deposits \cup StoredDeposits(s, x, cfg)
     /\ w.withdrawals = d.withdrawals \cup StoredWithdrawals(s, x, cfg)
     /\ s.pc = "transfers" =>
          \A f \in TransfersBefore(x, cfg, s.pos) : TransferRows(x, f, cfg) # {}
     /\ s.pc = "commit" /\ x.kind = "ethereum" => WellFormed(x, cfg)

\* Transactions come from the listing of their safe, which never forgets one.
TodoIsListed ==
  \A t \in Workers : \A i \in DOMAIN work[t].todo :
    \E k \in DOMAIN api[audited_safe(t).safe_addr] :
      api[audited_safe(t).safe_addr][k] = work[t].todo[i]

\* A listing shows a transaction once.
HashListedOnce ==
  \A a \in AuditedSafes : \A j, k \in DOMAIN api[a] :
    api[a][j].tx_hash = api[a][k].tx_hash => j = k

UnitInv ==
  /\ \A p \in Procs : scan[p].pc \in ScanInTx =>
       /\ BlockUnit(scan[p], db, wdb, Contents(p))
       /\ GrowsFrom(db, wdb) /\ NewPairsAreNew(db, wdb)
  /\ \A t \in Workers : work[t].pc \in WorkInTx =>
       /\ TxUnit(work[t], db, wdb, Tx(t), audited_safe(t))
       /\ GrowsFrom(db, wdb) /\ NewPairsAreNew(db, wdb)
  /\ ProcessedTxsAreWhole
  /\ TodoIsListed

----------------------------------------------------------------------------
(* The image of the ledger in a database.                                  *)

\* The balance rows of a database are those of its synced blocks, and it holds
\* finitely many mints.
BalanceRows(d) ==
  LET n == d.counters["num_blocks_synced"]
  IN  /\ n <= Len(ledger)
      /\ {r.block_index : r \in d.block_balance} = 0 .. n - 1
      /\ IsFiniteSet(d.block_balance) /\ Cardinality(d.block_balance) = n
      /\ IsFiniteSet(d.mint_txs)

MintFact(n, tx) ==
  [block_index |-> n, token_id |-> tx.token_id, amount |-> tx.amount, nonce |-> tx.nonce]

ConfigFacts(d) == {<<c.block_index, c.token_id, c.nonce>> : c \in d.mint_config_txs}

LedgerConfigFacts(n) == {<<x[1], x[2].token_id, x[2].nonce>> : x \in LedgerMintConfigs(n)}

\* The rows of d are those of the first n blocks, and these.
Image(d, n, configs, mints, burns) ==
  /\ ConfigFacts(d) = LedgerConfigFacts(n) \cup configs
  /\ MintFacts(d) = LedgerMintFacts(n) \cup mints
  /\ d.burn_tx_outs = LedgerBurns(n) \cup burns

WholeImage(d) == Image(d, d.counters["num_blocks_synced"], {}, {}, {})

\* The main thread in state s has stored a part of its block c.
PartImage(s, d, c) ==
  LET n == s.block_index
  IN  Image(d, n,
            {<<n, c.mint_config_txs[i].token_id, c.mint_config_txs[i].nonce>> :
               i \in StoredConfigs(s, c)},
            {MintFact(n, c.mint_txs[i]) : i \in StoredMints(s, c)},
            {burn_tx_out_row(n, c.outputs[i]) : i \in StoredBurns(s, c)})

PrefixInv ==
  /\ BalanceRows(db) /\ BalanceRows(wdb)
  /\ WholeImage(db)
  /\ \A p \in Procs : scan[p].pc \in ScanInTx =>
       /\ IF scan[p].pc = "check_index" THEN WholeImage(wdb)
                                        ELSE PartImage(scan[p], wdb, Contents(p))
       /\ scan[p].pc \in AfterFinish =>
            wdb.counters["num_blocks_synced"] = scan[p].block_index + 1
  /\ \A t \in Workers : work[t].pc \in WorkInTx => WholeImage(wdb)

CommitInv == UnitInv /\ PrefixInv

----------------------------------------------------------------------------
(* What the read side relies on.                                           *)

\* w has every ledger row of d, and the rows that are new belong to blocks that
\* d has not synced.
RowsStay(d, w) ==
  /\ \A f \in LedgerTables : d[f] \subseteq w[f]
  /\ \A f \in {"mint_config_txs", "mint_txs"} : \A r \in w[f] \ d[f] :
       r.block_index >= d.counters["num_blocks_synced"]

\* The mint m is of a block of l and points to a config that is stored, that is
\* older than the mint, and whose signers signed it; in block n the mints at
\* the positions in E are left aside.
Vouched(d, l, n, E, m) ==
  /\ m.block_index + 1 \in DOMAIN l
  /\ \A id \in m.mint_config_id :
       /\ id.block_index < m.block_index
       /\ \E x \in d.mint_config_txs :
            /\ x.block_index = id.block_index /\ x.token_id = id.token_id
            /\ id.position \in DOMAIN x.configs
            /\ \A j \in DOMAIN l[m.block_index + 1].mint_txs :
                 /\ l[m.block_index + 1].mint_txs[j].nonce = m.nonce
                 /\ m.block_index = n => j \notin E
                 => x.configs[id.position].signer_set
                      \in l[m.block_index + 1].mint_txs[j].signed_by

\* Every mint is vouched for, and one without a config has been counted.
MintsVouched(d, l, n, E) ==
  /\ \A m \in d.mint_txs : Vouched(d, l, n, E, m)
  /\ (\E m \in d.mint_txs : m.mint_config_id = {}) =>
       d.counters["num_mint_txs_without_matching_mint_config"] > 0

MissingMints(s, c) == DOMAIN c.mint_txs \ StoredMints(s, c)

RowInv ==
  /\ MintsVouched(db, ledger, 0, {})
  /\ \A p \in Procs : scan[p].pc \in ScanInTx =>
       /\ RowsStay(db, wdb)
       /\ MintsVouched(wdb, ledger, scan[p].block_index, MissingMints(scan[p], Contents(p)))
  /\ \A t \in Workers : work[t].pc \in WorkInTx =>
       /\ RowsStay(db, wdb)
       /\ MintsVouched(wdb, ledger, 0, {})

----------------------------------------------------------------------------
(* Sums.                                                                   *)

\* Mints are of blocks that are synced or being synced, with configs of older
\* blocks, and within the limits.
LimitRows(d) ==
  /\ IsFiniteSet(d.mint_txs)
  /\ \A m \in d.mint_txs :
       /\ m.block_index <= d.counters["num_blocks_synced"]
       /\ \A id \in m.mint_config_id : id.block_index < m.block_index
  /\ LimitsHold(d)

LimitInv == LimitRows(db) /\ LimitRows(wdb)

\* The events the main thread in state s has accounted, of a ledger l.
EventsSoFar(s, l) ==
  LET b == s.block_index + 1
  IN  Events(l, b - 1)
      \cup {<<b, 0, i>> : i \in StoredMints(s, l[b])}
      \cup {<<b, 1, i>> : i \in StoredBurns(s, l[b])}

\* In the middle of a block: the stored balances and the count are right up to
\* the block, and with its events so far, and so is the balance map.
PartBalances(s, d, l) ==
  LET E == EventsSoFar(s, l)
  IN  Fits(l, E) =>
        /\ \A r \in d.block_balance, t \in Tokens :
             r.balances[t] = LargestSuffixSum(l, Events(l, r.block_index + 1), t)
        /\ \A t \in Tokens : s.bal[t] = LargestSuffixSum(l, E, t)
        /\ d.counters["num_burns_exceeding_balance"] = Cardinality({e \in E : Overdraws(l, e)})

HistoryInv ==
  /\ BalancesOf(db, ledger, db.counters["num_blocks_synced"])
  /\ \A p \in Procs : scan[p].pc \in ScanInTx =>
       IF scan[p].pc \in {"mint_txs", "burns"}
       THEN PartBalances(scan[p], wdb, ledger)
       ELSE BalancesOf(wdb, ledger, wdb.counters["num_blocks_synced"])
  /\ \A t \in Workers : work[t].pc \in WorkInTx =>
       BalancesOf(wdb, ledger, wdb.counters["num_blocks_synced"])

=============================================================================
