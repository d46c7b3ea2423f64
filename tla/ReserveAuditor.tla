---------------------------- MODULE ReserveAuditor ----------------------------
(***************************************************************************)
(* The whole auditor: in every process the ledger thread and the safe      *)
(* threads, all writing to one database file, with crashes and restarts.   *)
(*                                                                         *)
(* Two independent histories arrive in any relative order: the blocks of   *)
(* the ledger (mints, burns) and the listings of the safes (deposits,      *)
(* withdrawals).  Whichever side of a pair is stored second has to find    *)
(* the first one.                                                          *)
(***************************************************************************)
EXTENDS LedgerSync, GnosisSync

vars == <<db, wdb, holder, failures, ledger, scan, api, work>>

TypeOK == LedgerTypeOK /\ GnosisTypeOK

Init == StoreInit /\ LedgerInit /\ GnosisInit

----------------------------------------------------------------------------
(* Processes.                                                              *)

ThreadIsDead(p) ==
  \/ scan[p].pc = "dead"
  \/ \E t \in Workers : t[1] = p /\ work[t].pc = "dead"

\* The process dies at any point; an open transaction is rolled back.
Crash(p) ==
  /\ scan[p].pc # "dead"
  /\ CrashStore(ThreadsOf(p))
  /\ scan' = [scan EXCEPT ![p] = ScanAt("dead")]
  /\ work' = [t \in Workers |-> IF t[1] = p THEN WorkAt("dead") ELSE work[t]]
  /\ UNCHANGED <<ledger, api>>

\* Once a thread has panicked the process is started again (cmd_scan_ledger).
Restart(p) ==
  /\ ThreadIsDead(p)
  /\ RollbackOf(ThreadsOf(p))
  /\ scan' = [scan EXCEPT ![p] = ScanAt("poll")]
  /\ work' = [t \in Workers |-> IF t[1] = p THEN WorkAt("poll") ELSE work[t]]
  /\ UNCHANGED <<failures, ledger, api>>

Next ==
  \/ LedgerNext /\ UNCHANGED gnosisVars
  \/ GnosisNext /\ UNCHANGED ledgerVars
  \/ \E p \in Procs : Crash(p) \/ Restart(p)

Spec == Init /\ [][Next]_vars

\* Threads keep running and a dead process is started again; the busy handler
\* of SQLite lets a waiting writer in eventually (it retries for 30 seconds,
\* and transactions are short), hence strong fairness of BEGIN EXCLUSIVE.
Fairness ==
  /\ \A p \in Procs : /\ WF_vars(ScanStep(p) /\ UNCHANGED gnosisVars)
                      /\ SF_vars(BeginBlock(p) /\ UNCHANGED gnosisVars)
                      /\ WF_vars(Restart(p))
  /\ \A t \in Workers : /\ WF_vars(WorkStep(t) /\ UNCHANGED ledgerVars)
                        /\ SF_vars(BeginTx(t) /\ UNCHANGED ledgerVars)

FairSpec == Spec /\ Fairness

----------------------------------------------------------------------------
(* What a match means.                                                     *)

\* The deposit e backs the mint m: same nonce, same amount, and the token
\* contract is configured, for that safe, for the token that was minted.
Backs(e, m) ==
  /\ m.nonce = EthereumGnosisDeposit(e.eth_tx_hash)
  /\ m.amount = e.amount
  /\ \E i \in DOMAIN Config :
       /\ Config[i].safe_addr = e.safe_addr
       /\ \E token \in get_token_by_eth_contract_addr(Config[i], e.token_addr) :
            token.token_id = m.token_id

\* The burn b is what the withdrawal w pays out.
Redeems(w, b) ==
  /\ b.public_key = w.public_key
  /\ b.amount = w.amount
  /\ \E i \in DOMAIN Config :
       /\ Config[i].safe_addr = w.safe_addr
       /\ \E token \in get_token_by_eth_contract_addr(Config[i], w.token_addr) :
            token.token_id = b.token_id

----------------------------------------------------------------------------
(* The audit log.                                                          *)

SoundMintLog(d) ==
  \A i \in DOMAIN d.audited_mints : \E m \in d.mint_txs, e \in d.deposits :
    /\ d.audited_mints[i] = [mint |-> m.nonce, deposit |-> e.eth_tx_hash]
    /\ Backs(e, m)

SoundBurnLog(d) ==
  \A i \in DOMAIN d.audited_burns : \E b \in d.burn_tx_outs, w \in d.withdrawals :
    /\ d.audited_burns[i] = [burn |-> b.public_key, withdrawal |-> w.eth_tx_hash]
    /\ Redeems(w, b)

OneToOneMints(d) ==
  \A i, j \in DOMAIN d.audited_mints :
    (\/ d.audited_mints[i].mint = d.audited_mints[j].mint
     \/ d.audited_mints[i].deposit = d.audited_mints[j].deposit) => i = j

OneToOneBurns(d) ==
  \A i, j \in DOMAIN d.audited_burns :
    (\/ d.audited_burns[i].burn = d.audited_burns[j].burn
     \/ d.audited_burns[i].withdrawal = d.audited_burns[j].withdrawal) => i = j

\* Every row of audited_mints joins a stored mint and a stored deposit that
\* agree in nonce, amount and token, whichever of try_match_deposit_with_mint
\* and try_match_mint_with_deposit wrote it, and no matter how threads,
\* crashes and restarts interleave.
AuditedMintsAreSound == SoundMintLog(db)

\* Every row of audited_burns joins a stored burn and a stored withdrawal that
\* agree in public key, amount and token.
AuditedBurnsAreSound == SoundBurnLog(db)

\* No mint and no deposit is in audited_mints twice ("we only support 1:1
\* mapping between deposits and mints"), although the table has no UNIQUE
\* constraint and threads write to it from both sides.
AuditedMintsAreOneToOne == OneToOneMints(db)

\* No burn and no withdrawal is in audited_burns twice, although several
\* withdrawals may name the public key of one burn.
AuditedBurnsAreOneToOne == OneToOneBurns(db)

UniqueSafes == \A i, j \in DOMAIN Config :
                 Config[i].safe_addr = Config[j].safe_addr => i = j

\* A mint and the deposit that backs it are matched with each other as soon as
\* both are stored, whichever came first: nothing looks at a pair again later,
\* so a pair missed at that moment would stay unmatched for ever.
BackedMintsAreMatched ==
  (AuditsGnosis /\ UniqueSafes) =>
    \A m \in db.mint_txs, e \in db.deposits :
      Backs(e, m) => \E i \in DOMAIN db.audited_mints :
        db.audited_mints[i] = [mint |-> m.nonce, deposit |-> e.eth_tx_hash]

\* The same for a burn and the withdrawal that redeems it, provided no other
\* withdrawal names the burn's public key (mc_tx_out_public_key_hex is not
\* UNIQUE and the lookup takes an arbitrary row).
RedeemedBurnsAreMatched ==
  (AuditsGnosis /\ UniqueSafes) =>
    \A b \in db.burn_tx_outs, w \in db.withdrawals :
      (/\ Redeems(w, b)
       /\ \A v \in db.withdrawals : v.public_key = w.public_key => v = w)
      => \E i \in DOMAIN db.audited_burns :
           db.audited_burns[i] = [burn |-> b.public_key, withdrawal |-> w.eth_tx_hash]

\* Every stored mint and every stored deposit went through exactly one
\* matching attempt, and every attempt left exactly one trace that survived:
\* a row of audited_mints or one increment of one counter.  An attempt lost
\* with a rolled back savepoint, counted twice, or repeated after a restart
\* would break the balance.
MintAttemptsAreAccounted ==
  AuditsGnosis =>
    Cardinality(db.mint_txs) + Cardinality(db.deposits)
      = Len(db.audited_mints)
        + db.counters["num_mismatching_mints_and_deposits"]
        + db.counters["num_unknown_ethereum_token_deposits"]
        + db.counters["num_mints_to_unknown_safe"]
        + db.counters["num_unexpected_errors_matching_deposits_to_mints"]
        + db.counters["num_unexpected_errors_matching_mints_to_deposits"]

\* The same for burns and withdrawals.
BurnAttemptsAreAccounted ==
  AuditsGnosis =>
    Cardinality(db.burn_tx_outs) + Cardinality(db.withdrawals)
      = Len(db.audited_burns)
        + db.counters["num_mismatching_burns_and_withdrawals"]
        + db.counters["num_unknown_ethereum_token_withdrawals"]
        + db.counters["num_burns_from_unknown_safe"]
        + db.counters["num_unexpected_errors_matching_withdrawals_to_burns"]
        + db.counters["num_unexpected_errors_matching_burns_to_withdrawals"]

----------------------------------------------------------------------------
(* The ledger side.                                                        *)

\* What the rows of a table say about the ledger, without what was derived.
MintFacts(d) == {[block_index |-> m.block_index, token_id |-> m.token_id,
                  amount |-> m.amount, nonce |-> m.nonce] : m \in d.mint_txs}

LedgerMintFacts(n) ==
  UNION {{[block_index |-> b - 1, token_id |-> ledger[b].mint_txs[i].token_id,
           amount |-> ledger[b].mint_txs[i].amount,
           nonce |-> ledger[b].mint_txs[i].nonce] :
          i \in DOMAIN ledger[b].mint_txs} : b \in 1 .. n}

LedgerBurns(n) ==
  UNION {{burn_tx_out_row(b - 1, ledger[b].outputs[i]) :
          i \in {j \in DOMAIN ledger[b].outputs : ledger[b].outputs[j].burn}} : b \in 1 .. n}

LedgerMintConfigs(n) ==
  UNION {{<<b - 1, ledger[b].mint_config_txs[i]>> :
          i \in DOMAIN ledger[b].mint_config_txs} : b \in 1 .. n}

\* The committed database is the image of a prefix of the ledger: the counter,
\* block_audit_data and block_balance all say n blocks, without a gap, and
\* the mints, burns and mint configs stored are exactly those of the first n
\* blocks, none partially, none twice, after any crash, lock timeout, restart
\* or race of two processes over the same block.
DbIsLedgerPrefix ==
  LET n == db.counters["num_blocks_synced"]
  IN  /\ n <= Len(ledger)
      /\ db.block_audit_data = 0 .. n - 1
      /\ {r.block_index : r \in db.block_balance} = 0 .. n - 1
      /\ Cardinality(db.block_balance) = n
      /\ MintFacts(db) = LedgerMintFacts(n)
      /\ Cardinality(db.mint_txs) = Cardinality(LedgerMintFacts(n))
      /\ db.burn_tx_outs = LedgerBurns(n)
      /\ {<<c.block_index, c.token_id, c.nonce>> : c \in db.mint_config_txs}
           = {<<x[1], x[2].token_id, x[2].nonce>> : x \in LedgerMintConfigs(n)}

\* The mints <<b, 0, i>> and the burns <<b, 1, i>> of the first n blocks of the
\* ledger l.
Events(l, n) ==
  UNION {{<<b, 0, i>> : i \in DOMAIN l[b].mint_txs}
         \cup {<<b, 1, i>> : i \in {j \in DOMAIN l[b].outputs : l[b].outputs[j].burn}} :
         b \in 1 .. n}

\* The order they are accounted in: by block, and mints before burns.
Before(e, o) ==
  \/ e[1] < o[1]
  \/ e[1] = o[1] /\ (e[2] < o[2] \/ (e[2] = o[2] /\ e[3] < o[3]))

EventItem(l, e) == IF e[2] = 0 THEN l[e[1]].mint_txs[e[3]] ELSE l[e[1]].outputs[e[3]]

\* What the event does to the balance of token t.
SignedAmount(l, e, t) ==
  IF EventItem(l, e).token_id # t THEN 0
  ELSE IF e[2] = 0 THEN EventItem(l, e).amount ELSE -EventItem(l, e).amount

SumOfEvents(l, E, t) == SumFunction([e \in E |-> SignedAmount(l, e, t)])

\* A balance that is cut off at 0 is the largest sum over a suffix of the
\* history, the empty suffix included.
LargestSuffixSum(l, E, t) ==
  Max({0} \cup {SumOfEvents(l, {o \in E : ~Before(o, e)}, t) : e \in E})

\* No sum of mints exceeds u64.
Fits(l, E) == \A t \in Tokens : SumOfEvents(l, {e \in E : e[2] = 0}, t) <= MaxU64

\* The burn e takes more than the history before it left.
Overdraws(l, e) ==
  LET t == EventItem(l, e).token_id
  IN  LargestSuffixSum(l, {o \in Events(l, e[1]) : Before(o, e)}, t) + SignedAmount(l, e, t) < 0

\* The balances of d, and its count of overdrafts, are those of n blocks.
BalancesOf(d, l, n) ==
  Fits(l, Events(l, n)) =>
    /\ \A r \in d.block_balance, t \in Tokens :
         r.balances[t] = LargestSuffixSum(l, Events(l, r.block_index + 1), t)
    /\ d.counters["num_burns_exceeding_balance"]
         = Cardinality({e \in Events(l, n) : Overdraws(l, e)})

\* The balance stored for each block is what the whole history up to that
\* block implies, and num_burns_exceeding_balance counts the burns that took
\* more than the history before them left, as long as no sum exceeds u64.
BalancesFollowHistory == BalancesOf(db, ledger, db.counters["num_blocks_synced"])

MintedWith(d, ids) == {m \in d.mint_txs : m.mint_config_id # {} /\ m.mint_config_id \subseteq ids}

IdsOf(c) == {mint_config_id(c, i) : i \in DOMAIN c.configs}

AtMostOnePerBlock(S) == \A m, o \in S : m.block_index = o.block_index => m = o

\* The mints attributed to a mint config never exceed its limit, nor those of
\* all configs of a MintConfigTx the shared total, as long as a block holds at
\* most one of them; every mint that is attributed to none is counted.
WithinLimit(d, ids, limit) ==
  LET S == MintedWith(d, ids) IN AtMostOnePerBlock(S) => SumOfAmounts(S) <= limit

LimitsHold(d) ==
  /\ \A c \in d.mint_config_txs :
       /\ WithinLimit(d, IdsOf(c), c.total_mint_limit)
       /\ \A i \in DOMAIN c.configs :
            WithinLimit(d, {mint_config_id(c, i)}, c.configs[i].mint_limit)
  /\ d.counters["num_mint_txs_without_matching_mint_config"]
       = Cardinality({m \in d.mint_txs : m.mint_config_id = {}})

\* lookup_mint_config keeps every config, and every MintConfigTx, within its
\* limit in the committed database, and counts the mints it rejects.
LimitsAreAudited == LimitsHold(db)

----------------------------------------------------------------------------
(* The safe side.                                                          *)

TokensOf(cfg, f) == UNION {get_token_by_eth_contract_addr(cfg, a) : a \in f.token_addr}

\* The transfers to the safe that processing x for the safe configuration cfg
\* looks at: up to the first one of a token that is not audited.
ReachedAt(x, cfg) ==
  LET toSafe == {k \in DOMAIN x.transfers : x.transfers[k].to = cfg.safe_addr}
  IN  {j \in toSafe : \A i \in toSafe : i < j => TokensOf(cfg, x.transfers[i]) # {}}

ReachedTransfers(x, cfg) == {x.transfers[k] : k \in ReachedAt(x, cfg)}

\* The deposit a transfer f to the safe implies, if its token is audited.
TransferRows(x, f, cfg) ==
  {[eth_tx_hash |-> x.tx_hash, safe_addr |-> cfg.safe_addr, token_addr |-> a,
    amount |-> truncated(v, token.decimals, cfg.token_decimals_max)] :
   a \in f.token_addr, v \in f.value, token \in TokensOf(cfg, f)}

\* The deposits that processing x for the safe configuration cfg stores.
DepositsOf(x, cfg) == UNION {TransferRows(x, f, cfg) : f \in ReachedTransfers(x, cfg)}

\* The withdrawal that processing x for the safe configuration cfg stores.
WithdrawalsOf(x, cfg) ==
  {[eth_tx_hash |-> x.tx_hash, safe_addr |-> cfg.safe_addr, token_addr |-> x.to,
    amount |-> truncated(v, token.decimals, cfg.token_decimals_max),
    public_key |-> x.public_key] :
   v \in x.amount,
   token \in {k \in get_token_by_eth_contract_addr(cfg, x.to) :
                /\ x.safe = cfg.safe_addr /\ x.multi_send
                /\ x.transfer_ok /\ x.aux_ok}}

IsWholeTx(d, x, cfg) ==
  /\ {e \in d.deposits : e.eth_tx_hash = x.tx_hash}
       = IF x.kind = "ethereum" THEN DepositsOf(x, cfg) ELSE {}
  /\ {w \in d.withdrawals : w.eth_tx_hash = x.tx_hash}
       = IF x.kind = "multi_sig" THEN WithdrawalsOf(x, cfg) ELSE {}
  /\ x.kind = "ethereum" => \A f \in ReachedTransfers(x, cfg) :
       f.token_addr # {} /\ (TokensOf(cfg, f) # {} => f.value # {})

\* A recorded raw transaction was processed by one thread, to the end: its hash
\* (the marker that makes every later poll of every safe skip it) is committed
\* together with exactly the part that concerns the one safe whose thread
\* processed it, up to the first transfer of a token that is not audited; one
\* that is malformed for that safe is not recorded at all, and no deposit or
\* withdrawal is there without its transaction, whatever crashed or raced in
\* between.  (What is lost this way is the subject of LossesAreExplained.)
ProcessedTxsAreWhole ==
  /\ \A h \in db.gnosis_safe_txs :
       \E i \in DOMAIN Config : \E k \in DOMAIN api[Config[i].safe_addr] :
         LET x == api[Config[i].safe_addr][k]
         IN  x.tx_hash = h /\ IsWholeTx(db, x, Config[i])
  /\ \A e \in db.deposits : e.eth_tx_hash \in db.gnosis_safe_txs
  /\ \A w \in db.withdrawals : w.eth_tx_hash \in db.gnosis_safe_txs

\* All transfers of x to the safe address a, reached or not.
TransfersTo(x, a) ==
  IF x.kind = "ethereum"
  THEN {f \in {x.transfers[k] : k \in DOMAIN x.transfers} : f.to = a}
  ELSE {}

HasUnknownToken(x, cfg) == \E f \in TransfersTo(x, cfg.safe_addr) : TokensOf(cfg, f) = {}

\* All that x moves into or out of the safe of cfg, in audited tokens, is in d.
IsComplete(d, x, cfg) ==
  /\ \A f \in TransfersTo(x, cfg.safe_addr) :
       TokensOf(cfg, f) # {} => \E e \in TransferRows(x, f, cfg) : e \in d.deposits
  /\ x.kind = "multi_sig" => WithdrawalsOf(x, cfg) \subseteq d.withdrawals

\* The safes whose listing shows a transaction of hash h.
ListedBy(h) ==
  {i \in DOMAIN Config : \E k \in DOMAIN api[Config[i].safe_addr] :
                           api[Config[i].safe_addr][k].tx_hash = h}

\* A recorded transaction lacks a deposit or a withdrawal of a safe that lists
\* it for one of two reasons only: another safe lists it too (and its thread
\* may have been first: GnosisSafeTx::insert then says AlreadyExists to this
\* one), or one of its transfers to the safe is of a token that is not audited
\* (the UnknownToken error ends the loop over the transfers).  Transfers to
\* others, crashes, lock timeouts, retries and outdated listings lose nothing.
LossesAreExplained ==
  \A i \in DOMAIN Config : \A k \in DOMAIN api[Config[i].safe_addr] :
    LET x == api[Config[i].safe_addr][k]
    IN  x.tx_hash \in db.gnosis_safe_txs =>
          \/ IsComplete(db, x, Config[i])
          \/ ListedBy(x.tx_hash) # {i}
          \/ HasUnknownToken(x, Config[i])

----------------------------------------------------------------------------
(* Steps and progress.                                                     *)

Extends(log, older) == Len(older) <= Len(log) /\ SubSeq(log, 1, Len(older)) = older

\* A commit adds the next block and no safe data, or one new Ethereum
\* transaction with its own deposits or withdrawal and no ledger data.
CommitsOneUnit ==
  /\ \/ /\ db'.block_audit_data
             = db.block_audit_data \cup {Cardinality(db.block_audit_data)}
        /\ db'.gnosis_safe_txs = db.gnosis_safe_txs
        /\ db'.deposits = db.deposits
        /\ db'.withdrawals = db.withdrawals
     \/ /\ \E h \in EthTxHashes \ db.gnosis_safe_txs :
             /\ db'.gnosis_safe_txs = db.gnosis_safe_txs \cup {h}
             /\ db.deposits = {e \in db'.deposits : e.eth_tx_hash # h}
             /\ db.withdrawals = {w \in db'.withdrawals : w.eth_tx_hash # h}
        /\ db'.block_audit_data = db.block_audit_data
        /\ db'.block_balance = db.block_balance
        /\ db'.mint_config_txs = db.mint_config_txs
        /\ db'.mint_txs = db.mint_txs
        /\ db'.burn_tx_outs = db.burn_tx_outs
  /\ Extends(db'.audited_mints, db.audited_mints)
  /\ Extends(db'.audited_burns, db.audited_burns)
  /\ \A c \in CounterNames : db.counters[c] <= db'.counters[c]

\* The committed database changes by whole units only, whoever commits: either
\* the next block, or one new Ethereum transaction; the audit log only grows at
\* its end and no counter decreases.
OneUnitPerCommit == [][CommitsOneUnit]_db

\* No two mints, mint configs or burns of the ledger share what the auditor's
\* tables want unique.
LedgerHasNoDuplicates ==
  \A b, c \in DOMAIN ledger :
    /\ \A i \in DOMAIN ledger[b].mint_txs, j \in DOMAIN ledger[c].mint_txs :
         ledger[b].mint_txs[i].nonce = ledger[c].mint_txs[j].nonce => <<b, i>> = <<c, j>>
    /\ \A i \in DOMAIN ledger[b].mint_config_txs, j \in DOMAIN ledger[c].mint_config_txs :
         (\/ ledger[b].mint_config_txs[i].nonce = ledger[c].mint_config_txs[j].nonce
          \/ b = c /\ ledger[b].mint_config_txs[i].token_id = ledger[c].mint_config_txs[j].token_id)
         => <<b, i>> = <<c, j>>
    /\ \A i \in DOMAIN ledger[b].outputs, j \in DOMAIN ledger[c].outputs :
         (/\ ledger[b].outputs[i].burn /\ ledger[c].outputs[j].burn
          /\ ledger[b].outputs[i].public_key = ledger[c].outputs[j].public_key)
         => <<b, i>> = <<c, j>>

\* Processing x for the safe configuration cfg panics, on every poll.
Unprocessable(x, cfg) ==
  CASE x.kind = "ethereum" ->
         \/ \E f \in ReachedTransfers(x, cfg) :
              \/ f.token_addr = {}
              \/ \E token \in TokensOf(cfg, f) : ValuePanics(f.value, token, cfg)
         \/ \E j, k \in ReachedAt(x, cfg) : j # k /\ TokensOf(cfg, x.transfers[j]) # {}
                                               /\ TokensOf(cfg, x.transfers[k]) # {}
    [] x.kind = "multi_sig" ->
         /\ x.safe = cfg.safe_addr /\ x.multi_send /\ x.transfer_ok
         /\ \E token \in get_token_by_eth_contract_addr(cfg, x.to) :
              \/ \A i \in DOMAIN x.transfer_data : i = 1 => x.transfer_data[i] = {}
              \/ x.aux_ok /\ ValuePanics(x.amount, token, cfg)
    [] OTHER -> x.kind = "undecodable"

\* The positions in a safe's listing, newest first, where its thread panics.
PanicsAt(i) ==
  {k \in DOMAIN api[Config[i].safe_addr] : Unprocessable(api[Config[i].safe_addr][k], Config[i])}

\* Every block of a ledger without duplicates is eventually synced, although
\* the safe threads take the exclusive lock for every listed transaction on
\* every poll, and in spite of crashes and lock timeouts.  Not so while a safe
\* lists a transaction that cannot be processed: its thread panics on every
\* poll, and each restart may interrupt the block.
LedgerIsSynced ==
  \A n \in 1 .. MaxBlocks :
    (Len(ledger) >= n) ~> (\/ n - 1 \in db.block_audit_data
                          \/ ~LedgerHasNoDuplicates
                          \/ \E i \in DOMAIN Config : PanicsAt(i) # {})

\* Every transaction a safe's listing shows is eventually recorded, although a
\* poll works on a listing that is outdated by the time it is used, and even if
\* the thread panics further down the listing on every poll: a transaction that
\* cannot be processed holds up the older ones of its safe and no newer one.
\* Excepted are restarts without end for another reason: a ledger with
\* duplicates, or a transaction that panics the thread of another safe.
ListedTxsAreProcessed ==
  \A i \in DOMAIN Config : \A x \in ApiTxs[Config[i].safe_addr] :
    LET listing == api[Config[i].safe_addr]
    IN  (\E k \in DOMAIN listing : listing[k] = x) ~>
          (\/ x.tx_hash \in db.gnosis_safe_txs
           \/ \E k \in DOMAIN listing, j \in PanicsAt(i) : listing[k] = x /\ j <= k
           \/ ~LedgerHasNoDuplicates
           \/ \E j \in DOMAIN Config \ {i} : PanicsAt(j) # {})

=============================================================================
