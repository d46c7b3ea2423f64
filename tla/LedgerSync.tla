------------------------------ MODULE LedgerSync ------------------------------
(***************************************************************************)
(* The main thread of scan-ledger (bin/main.rs: cmd_scan_ledger,           *)
(* sync_loop, audit_block_data; db/mod.rs: sync_block_with_conn).          *)
(*                                                                         *)
(* One iteration of sync_loop reads how far the database is OUTSIDE any    *)
(* transaction, then opens an exclusive transaction in which it stores the *)
(* block statement by statement and audits what it stored.  Any error      *)
(* panics the thread (expect("sync_loop failed")).                         *)
(***************************************************************************)
EXTENDS Store, SyncBlock, AuditedMint, AuditedBurn

CONSTANTS Blocks,        \* the contents a block may have
          MaxBlocks,     \* bound on the length of the ledger
          AuditsGnosis   \* scan-ledger was given a gnosis_safe_config

ASSUME LedgerAssumption ==
  /\ Blocks \subseteq BlockContents
  /\ MaxBlocks \in Nat
  /\ AuditsGnosis \in BOOLEAN

VARIABLES ledger,   \* the ledger database (external): it only ever grows
          scan      \* the main thread of each process

ledgerVars == <<ledger, scan>>

ScanPcs == {"poll", "begin", "check_index", "mint_config_txs", "mint_txs", "burns",
            "audit_mints", "audit_burns", "commit", "dead"}

ScanStates == [pc: ScanPcs, block_index: Nat, pos: Nat \ {0}, bal: BalanceMaps]

ZeroBalances == [t \in Tokens |-> 0]

ScanAt(pc) == [pc |-> pc, block_index |-> 0, pos |-> 1, bal |-> ZeroBalances]

LedgerTypeOK ==
  /\ StoreTypeOK
  /\ ledger \in Seq(Blocks)
  /\ Len(ledger) <= MaxBlocks
  /\ scan \in [Procs -> ScanStates]

LedgerInit ==
  /\ ledger = << >>
  /\ scan = [p \in Procs |-> ScanAt("poll")]

----------------------------------------------------------------------------
(* Helpers over the block a process is working on.                         *)

Contents(p) == ledger[scan[p].block_index + 1]

AtOutput(p) == scan[p].pos <= Len(Contents(p).outputs)

Output(p) == Contents(p).outputs[scan[p].pos]

Goto(p, pc) == scan' = [scan EXCEPT ![p].pc = pc, ![p].pos = 1]

NextItem(p) == scan' = [scan EXCEPT ![p].pos = @ + 1]

----------------------------------------------------------------------------
(* Consensus appends a block to the ledger (external).                     *)

GrowLedger ==
  /\ Len(ledger) < MaxBlocks
  /\ \E b \in Blocks : ledger' = Append(ledger, b)
  /\ UNCHANGED <<storeVars, scan>>

\* BlockAuditData::last_synced_block_index + 1, or 0
num_blocks_synced(d) ==
  IF d.block_audit_data = {} THEN 0 ELSE Max(d.block_audit_data) + 1

\* Mutant: the last block of the ledger is left alone.
SyncLoopOffByOne(p) ==
  /\ scan[p].pc = "poll"
  /\ num_blocks_synced(db) + 1 < Len(ledger)
  /\ scan' = [scan EXCEPT ![p].pc = "begin",
                          ![p].block_index = num_blocks_synced(db)]
  /\ UNCHANGED <<storeVars, ledger>>

\* sync_loop picks the next block.  When there is none (Equal), or the
\* ledger is behind (Greater), it sleeps and polls again.
SyncLoop(p) ==
  /\ scan[p].pc = "poll"
  /\ num_blocks_synced(db) < Len(ledger)
  /\ scan' = [scan EXCEPT ![p].pc = "begin",
                          ![p].block_index = num_blocks_synced(db)]
  /\ UNCHANGED <<storeVars, ledger>>

BeginBlock(p) ==
  /\ scan[p].pc = "begin"
  /\ Begin(ScanThread(p))
  /\ Goto(p, "check_index")
  /\ UNCHANGED ledger

BlockLockTimeout(p) ==
  /\ scan[p].pc = "begin"
  /\ LockTimeout(ScanThread(p))
  /\ scan' = [scan EXCEPT ![p] = ScanAt("dead")]
  /\ UNCHANGED ledger

----------------------------------------------------------------------------
(* sync_block_with_conn.                                                   *)

\* Mutant: the block index is not checked again inside the transaction.
AnyBlockIsNext(p) == TRUE

IsNextBlock(p) == scan[p].block_index = wdb.counters["num_blocks_synced"]

CheckBlockIndex(p) ==
  /\ scan[p].pc = "check_index"
  /\ IsNextBlock(p)
  /\ Write(ScanThread(p), {wdb})
  /\ Goto(p, "mint_config_txs")
  /\ UNCHANGED ledger

StoreMintConfigTx(p) ==
  /\ scan[p].pc = "mint_config_txs"
  /\ scan[p].pos <= Len(Contents(p).mint_config_txs)
  /\ LET tx == Contents(p).mint_config_txs[scan[p].pos]
     IN  /\ ~MintConfigTxExists(wdb, scan[p].block_index, tx)
         /\ Write(ScanThread(p),
                  {insert_from_core_mint_config_tx(wdb, scan[p].block_index, tx)})
  /\ NextItem(p)
  /\ UNCHANGED ledger

\* The balance map starts from the previous block's.
LoadBalances(p) ==
  /\ scan[p].pc = "mint_config_txs"
  /\ scan[p].pos > Len(Contents(p).mint_config_txs)
  /\ Write(ScanThread(p), {wdb})
  /\ scan' = [scan EXCEPT ![p].pc = "mint_txs", ![p].pos = 1,
                ![p].bal = IF scan[p].block_index = 0 THEN ZeroBalances
                           ELSE get_balances_for_block(wdb, scan[p].block_index - 1)]
  /\ UNCHANGED ledger

StoreMintTx(p) ==
  /\ scan[p].pc = "mint_txs"
  /\ scan[p].pos <= Len(Contents(p).mint_txs)
  /\ LET tx == Contents(p).mint_txs[scan[p].pos]
     IN  /\ ~MintTxExists(wdb, tx)
         /\ Write(ScanThread(p), {store_mint_tx(wdb, scan[p].block_index, tx)})
         /\ scan' = [scan EXCEPT ![p].pos = @ + 1, ![p].bal = mint_balance(@, tx)]
  /\ UNCHANGED ledger

MintTxsDone(p) ==
  /\ scan[p].pc = "mint_txs"
  /\ scan[p].pos > Len(Contents(p).mint_txs)
  /\ Write(ScanThread(p), {wdb})
  /\ Goto(p, "burns")
  /\ UNCHANGED ledger

\* An output that from_core_tx_out rejects is filtered out of the burns, so
\* neither loop over them sees it.
SkipOutput(p) ==
  /\ scan[p].pc \in {"burns", "audit_burns"}
  /\ AtOutput(p)
  /\ ~Output(p).burn
  /\ Write(ScanThread(p), {wdb})
  /\ NextItem(p)
  /\ UNCHANGED ledger

StoreBurnTxOut(p) ==
  /\ scan[p].pc = "burns"
  /\ AtOutput(p)
  /\ Output(p).burn
  /\ ~BurnTxOutExists(wdb, Output(p))
  /\ Write(ScanThread(p),
           {store_burn_tx_out(wdb, scan[p].bal, scan[p].block_index, Output(p))})
  /\ scan' = [scan EXCEPT ![p].pos = @ + 1, ![p].bal = burn_balance(@, Output(p))]
  /\ UNCHANGED ledger

FinishBlock(p) ==
  /\ scan[p].pc = "burns"
  /\ ~AtOutput(p)
  /\ Write(ScanThread(p), {finish_block(wdb, scan[p].block_index, scan[p].bal)})
  /\ Goto(p, IF AuditsGnosis THEN "audit_mints" ELSE "commit")
  /\ UNCHANGED ledger

\* UnexpectedBlockIndex, or a UNIQUE constraint of one of the inserts.
SyncBlockError(p) ==
  \/ scan[p].pc = "check_index" /\ ~IsNextBlock(p)
  \/ /\ scan[p].pc = "mint_config_txs"
     /\ scan[p].pos <= Len(Contents(p).mint_config_txs)
     /\ MintConfigTxExists(wdb, scan[p].block_index,
                           Contents(p).mint_config_txs[scan[p].pos])
  \/ /\ scan[p].pc = "mint_txs"
     /\ scan[p].pos <= Len(Contents(p).mint_txs)
     /\ MintTxExists(wdb, Contents(p).mint_txs[scan[p].pos])
  \/ /\ scan[p].pc = "burns"
     /\ AtOutput(p)
     /\ Output(p).burn
     /\ BurnTxOutExists(wdb, Output(p))

SyncBlockFails(p) ==
  /\ SyncBlockError(p)
  /\ Rollback(ScanThread(p))
  /\ scan' = [scan EXCEPT ![p] = ScanAt("dead")]
  /\ UNCHANGED ledger

----------------------------------------------------------------------------
(* audit_block_data, on the rows the block has just stored.                *)

AuditMint(p) ==
  /\ scan[p].pc = "audit_mints"
  /\ scan[p].pos <= Len(Contents(p).mint_txs)
  /\ Write(ScanThread(p),
           try_match_mint_with_deposit(wdb, Contents(p).mint_txs[scan[p].pos]))
  /\ NextItem(p)
  /\ UNCHANGED ledger

AuditMintsDone(p) ==
  /\ scan[p].pc = "audit_mints"
  /\ scan[p].pos > Len(Contents(p).mint_txs)
  /\ Write(ScanThread(p), {wdb})
  /\ Goto(p, "audit_burns")
  /\ UNCHANGED ledger

AuditBurn(p) ==
  /\ scan[p].pc = "audit_burns"
  /\ AtOutput(p)
  /\ Output(p).burn
  /\ Write(ScanThread(p), try_match_burn_with_withdrawal(wdb, Output(p)))
  /\ NextItem(p)
  /\ UNCHANGED ledger

AuditBurnsDone(p) ==
  /\ scan[p].pc = "audit_burns"
  /\ ~AtOutput(p)
  /\ Write(ScanThread(p), {wdb})
  /\ Goto(p, "commit")
  /\ UNCHANGED ledger

CommitBlock(p) ==
  /\ scan[p].pc = "commit"
  /\ Commit(ScanThread(p))
  /\ scan' = [scan EXCEPT ![p] = ScanAt("poll")]
  /\ UNCHANGED ledger

----------------------------------------------------------------------------

\* The steps the thread takes by itself, without acquiring the lock.
ScanStep(p) ==
  \/ SyncLoop(p)
  \/ CheckBlockIndex(p) \/ StoreMintConfigTx(p) \/ LoadBalances(p)
  \/ StoreMintTx(p) \/ MintTxsDone(p) \/ SkipOutput(p) \/ StoreBurnTxOut(p) \/ FinishBlock(p)
  \/ SyncBlockFails(p)
  \/ AuditMint(p) \/ AuditMintsDone(p) \/ AuditBurn(p) \/ AuditBurnsDone(p)
  \/ CommitBlock(p)

LedgerNext ==
  \/ GrowLedger
  \/ \E p \in Procs : ScanStep(p) \/ BeginBlock(p) \/ BlockLockTimeout(p)

=============================================================================
