----------------------------- MODULE ServiceProofs -----------------------------
(***************************************************************************)
(* The read side, for every value of the constants and any number of       *)
(* clients: the answers of the handlers that combine several queries.      *)
(*                                                                         *)
(* The argument: a committed row stays and the rows of a synced block are  *)
(* complete, so two queries about the same block that see different        *)
(* databases can differ only in that the first one came before the block;  *)
(* and a mint that is stored with a config was vouched for by it.          *)
(*                                                                         *)
(* And the gauges: what they show beyond the committed counters belongs to *)
(* the open transaction, which is either committed or ends the process.    *)
(*                                                                         *)
(* And the page: the tables it reads only grow, and the log keeps its      *)
(* order, so what an earlier request showed is still there.                *)
(***************************************************************************)
EXTENDS LedgerProofs, HttpApi, Gauges, TablePage

----------------------------------------------------------------------------
(* Rows stay.                                                              *)

\* At most one row is new, and it is of block n.
AddsRowOf(S, S2, n) == S2 = S \/ \E r : r.block_index = n /\ S2 = S \cup {r}

\* The main thread in state s adds rows, of its block, at the program points
\* that store them.
AddsRows(s, d, d2) ==
  /\ \A f \in LedgerTables : d[f] \subseteq d2[f]
  /\ AddsRowOf(d.mint_config_txs, d2.mint_config_txs, s.block_index)
  /\ AddsRowOf(d.mint_txs, d2.mint_txs, s.block_index)
  /\ s.pc \notin {"mint_config_txs", "mint_txs"} =>
       d2.mint_config_txs = d.mint_config_txs /\ d2.mint_txs = d.mint_txs

\* So does each of its moves.
LEMMA ScanMoveRows ==
  ASSUME NEW s, NEW s2, NEW d \in Databases, NEW d2, NEW c \in BlockContents,
         ScanMove(s, s2, d, d2, c)
  PROVE  AddsRows(s, d, d2) /\ (~MintMove(s, s2, d, d2, c) => d2.mint_txs = d.mint_txs)
<1> USE DEF AddsRowOf, AddsRows
<1>1. ASSUME Keeps(d, d2, LedgerTables)
      PROVE  /\ \A f \in LedgerTables : d[f] \subseteq d2[f]
             /\ d2.mint_config_txs = d.mint_config_txs /\ d2.mint_txs = d.mint_txs
  BY <1>1 DEF Keeps, LedgerTables
<1>2. CASE ConfigMove(s, s2, d, d2, c)
  BY <1>2 DEF ConfigMove, StoresConfig, Keeps, AllBut, Fields, LedgerTables
<1>3. CASE MintMove(s, s2, d, d2, c)
  BY <1>3 DEF MintMove, StoresMint, Keeps, AllBut, Fields, LedgerTables
<1>4. CASE BurnMove(s, s2, d, d2, c)
  BY <1>4 DEF BurnMove, StoresBurn, Keeps, AllBut, Fields, LedgerTables
<1>5. CASE FinishMove(s, s2, d, d2, c)
  BY <1>5 DEF FinishMove, FinishesBlock, Keeps, AllBut, Fields, LedgerTables
<1>6. CASE AuditMintMove(s, s2, d, d2, c) \/ AuditBurnMove(s, s2, d, d2, c)
  <2>1. c.mint_txs \in Seq(CoreMintTxs) /\ c.outputs \in Seq(TxOuts)
    BY DEF BlockContents
  <2>2. TriesMint(d, d2) \/ TriesBurn(d, d2)
    BY <1>6, <2>1, MintTries, BurnTries DEF AuditMintMove, AuditBurnMove
  <2> QED
    BY <1>1, <2>2, TriesKeepLedger
<1>7. CASE d2 = d
  BY <1>1, <1>7 DEF Keeps
<1> QED
  BY <1>2, <1>3, <1>4, <1>5, <1>6, <1>7
     DEF ScanMove, CheckMove, ConfigsDone, MintsDone, SkipMove, AuditMintsEnd, AuditBurnsEnd

\* The rows that are new since d belong to blocks that d has not synced.
LEMMA RowsComposes ==
  ASSUME NEW d, NEW w, NEW w2, RowsStay(d, w), \A f \in LedgerTables : w[f] \subseteq w2[f],
         NEW n \in Nat, d.counters["num_blocks_synced"] \in Nat,
         AddsRowOf(w.mint_config_txs, w2.mint_config_txs, n),
         AddsRowOf(w.mint_txs, w2.mint_txs, n),
         \/ n >= d.counters["num_blocks_synced"]
         \/ w2.mint_config_txs = w.mint_config_txs /\ w2.mint_txs = w.mint_txs
  PROVE  RowsStay(d, w2)
<1>1. \A f \in LedgerTables : d[f] \subseteq w2[f]
  BY DEF RowsStay
<1>2. ASSUME NEW r \in w2.mint_txs \ d.mint_txs
      PROVE  r.block_index >= d.counters["num_blocks_synced"]
  BY <1>2 DEF RowsStay, AddsRowOf
<1>3. ASSUME NEW r \in w2.mint_config_txs \ d.mint_config_txs
      PROVE  r.block_index >= d.counters["num_blocks_synced"]
  BY <1>3 DEF RowsStay, AddsRowOf
<1> QED
  BY <1>1, <1>2, <1>3 DEF RowsStay

\* A mint that is vouched for stays so when configs are added, the ledger
\* grows, and fewer mints are looked at.
LEMMA VouchedStays ==
  ASSUME NEW d, NEW d2, NEW l, NEW l2, NEW n, NEW E, NEW n2, NEW E2, NEW m,
         Vouched(d, l, n, E, m), d.mint_config_txs \subseteq d2.mint_config_txs,
         DOMAIN l \subseteq DOMAIN l2, \A b \in DOMAIN l : l2[b] = l[b],
         E = {} \/ (n2 = n /\ E \subseteq E2)
  PROVE  Vouched(d2, l2, n2, E2, m)
<1>1. m.block_index + 1 \in DOMAIN l2 /\ l2[m.block_index + 1] = l[m.block_index + 1]
  BY DEF Vouched
<1>2. PICK txs : txs = l[m.block_index + 1].mint_txs
  OBVIOUS
<1>3. ASSUME NEW id \in m.mint_config_id
      PROVE  /\ id.block_index < m.block_index
             /\ \E x \in d2.mint_config_txs :
                  /\ x.block_index = id.block_index /\ x.token_id = id.token_id
                  /\ id.position \in DOMAIN x.configs
                  /\ \A j \in DOMAIN txs :
                       txs[j].nonce = m.nonce /\ (m.block_index = n2 => j \notin E2)
                       => x.configs[id.position].signer_set \in txs[j].signed_by
  <2>1. id.block_index < m.block_index
    BY DEF Vouched
  <2>2. PICK x \in d.mint_config_txs :
          /\ x.block_index = id.block_index /\ x.token_id = id.token_id
          /\ id.position \in DOMAIN x.configs
          /\ \A j \in DOMAIN txs :
               txs[j].nonce = m.nonce /\ (m.block_index = n => j \notin E)
               => x.configs[id.position].signer_set \in txs[j].signed_by
    BY <1>2 DEF Vouched
  <2> QED
    BY <2>1, <2>2
<1> QED
  BY <1>1, <1>2, <1>3 DEF Vouched

\* lookup_mint_config attributes a mint to a config of an older block whose
\* signers signed it.
LEMMA LookupVouches ==
  ASSUME NEW d, NEW n, NEW tx, NEW id \in lookup_mint_config(d, n, tx)
  PROVE  /\ id.block_index < n
         /\ \E x \in d.mint_config_txs :
              /\ x.block_index = id.block_index /\ x.token_id = id.token_id
              /\ id.position \in DOMAIN x.configs
              /\ x.configs[id.position].signer_set \in tx.signed_by
<1>1. PICK x, i : LookupResult(d, n, tx, id, x, i)
  BY LookupFits
<1> QED
  BY <1>1 DEF LookupResult, mint_config_id

\* The same for all mints of a database.
LEMMA VouchedFrame ==
  ASSUME NEW d \in Databases, NEW d2 \in Databases, NEW l, NEW l2, NEW n, NEW E, NEW n2, NEW E2,
         MintsVouched(d, l, n, E), d2.mint_txs = d.mint_txs,
         d.mint_config_txs \subseteq d2.mint_config_txs,
         DOMAIN l \subseteq DOMAIN l2, \A b \in DOMAIN l : l2[b] = l[b],
         E = {} \/ (n2 = n /\ E \subseteq E2),
         \A k \in CounterNames : d.counters[k] <= d2.counters[k]
  PROVE  MintsVouched(d2, l2, n2, E2)
<1> DEFINE none == "num_mint_txs_without_matching_mint_config"
<1>1. ASSUME NEW m \in d2.mint_txs
      PROVE  Vouched(d2, l2, n2, E2, m)
  <2>1. Vouched(d, l, n, E, m)
    BY DEF MintsVouched
  <2> QED
    BY <2>1, VouchedStays
<1>2. /\ none \in CounterNames /\ d.counters[none] \in Nat /\ d2.counters[none] \in Nat
  BY DEF CounterNames, Databases
<1>3. d.counters[none] <= d2.counters[none]
  BY <1>2
<1>4. (\E m \in d.mint_txs : m.mint_config_id = {}) => d.counters[none] > 0
  BY DEF MintsVouched
<1> QED
  BY <1>1, <1>2, <1>3, <1>4 DEF MintsVouched

\* c is block n of l.
IsBlock(l, n, c) == n + 1 \in DOMAIN l /\ l[n + 1] = c

\* A mint is stored with a config that vouches for it, or it is counted.
LEMMA MintMoveVouched ==
  ASSUME NEW s, s.pos \in Nat \ {0}, s.block_index \in Nat, NEW s2,
         NEW d \in Databases, NEW d2 \in Databases, NEW c \in BlockContents,
         MintMove(s, s2, d, d2, c), NEW l, IsBlock(l, s.block_index, c),
         MintsStored(d, c.mint_txs, s.pos),
         MintsVouched(d, l, s.block_index, MissingMints(s, c))
  PROVE  MintsVouched(d2, l, s.block_index, MissingMints(s2, c))
<1> DEFINE none == "num_mint_txs_without_matching_mint_config"
<1>1. PICK n : n = s.block_index /\ n + 1 \in DOMAIN l /\ l[n + 1] = c
  BY DEF IsBlock
<1>2. PICK tx : tx = c.mint_txs[s.pos] /\ StoresMint(d, d2, n, tx)
  BY <1>1 DEF MintMove
<1>3. PICK m : /\ m.block_index = n /\ m.nonce = tx.nonce
               /\ m.mint_config_id = lookup_mint_config(d, n, tx)
               /\ d2.mint_txs = d.mint_txs \cup {m}
               /\ IF m.mint_config_id = {} THEN CountsOne(d, d2, none)
                                           ELSE d2.counters = d.counters
  BY <1>2 DEF StoresMint
<1>4. d2.mint_config_txs = d.mint_config_txs
  BY <1>2 DEF StoresMint, Keeps, AllBut, Fields
<1>5. \A o \in d.mint_txs : o.nonce # tx.nonce
  BY <1>2 DEF StoresMint, MintTxExists
<1>6. c.mint_txs \in Seq(CoreMintTxs) /\ s.pos \in DOMAIN c.mint_txs
  BY DEF BlockContents, MintMove
<1>7. PICK E, E2 : E = MissingMints(s, c) /\ E2 = MissingMints(s2, c)
  OBVIOUS
<1>8. /\ E \subseteq E2 \cup {s.pos}
       /\ \A j \in DOMAIN c.mint_txs : j \notin E2 => j <= s.pos
  <2>1. StoredMints(s2, c) = StoredMints(s, c) \cup {s.pos} /\ s.pc = "mint_txs"
    <3>1. ScanMove(s, s2, d, d2, c)
      BY DEF ScanMove
    <3>2. s.pc = "mint_txs"
      BY DEF MintMove
    <3> QED
      BY <3>1, <3>2, StoredMintsMove
  <2>2. E \subseteq E2 \cup {s.pos}
    BY <1>7, <2>1 DEF MissingMints
  <2>3. ASSUME NEW j \in DOMAIN c.mint_txs, j \notin E2
        PROVE  j <= s.pos
    <3>1. j = s.pos \/ j \in StoredMints(s, c)
      BY <1>7, <2>1, <2>3 DEF MissingMints
    <3>2. j \in Nat
      BY <1>6
    <3> QED
      BY <2>1, <3>1, <3>2 DEF StoredMints, AfterMints
  <2> QED
    BY <2>2, <2>3
<1>9. \A j \in DOMAIN c.mint_txs : j < s.pos => c.mint_txs[j].nonce # tx.nonce
  BY <1>5 DEF MintsStored, MintStored
<1>10. Vouched(d2, l, n, E2, m)
  <2>1. ASSUME NEW id \in m.mint_config_id
        PROVE  /\ id.block_index < n
               /\ \E x \in d2.mint_config_txs :
                    /\ x.block_index = id.block_index /\ x.token_id = id.token_id
                    /\ id.position \in DOMAIN x.configs
                    /\ \A j \in DOMAIN c.mint_txs :
                         c.mint_txs[j].nonce = tx.nonce /\ j \notin E2
                         => x.configs[id.position].signer_set \in c.mint_txs[j].signed_by
    <3>1. /\ id.block_index < n
          /\ \E x \in d.mint_config_txs :
               /\ x.block_index = id.block_index /\ x.token_id = id.token_id
               /\ id.position \in DOMAIN x.configs
               /\ x.configs[id.position].signer_set \in tx.signed_by
      BY <1>3, LookupVouches
    <3>2. \A j \in DOMAIN c.mint_txs :
            c.mint_txs[j].nonce = tx.nonce /\ j \notin E2 => c.mint_txs[j] = tx
      <4> SUFFICES ASSUME NEW j \in DOMAIN c.mint_txs, c.mint_txs[j].nonce = tx.nonce, j \notin E2
                   PROVE  c.mint_txs[j] = tx
        OBVIOUS
      <4>1. j \in Nat /\ j <= s.pos /\ ~(j < s.pos)
        BY <1>6, <1>8, <1>9
      <4> QED
        BY <1>2, <4>1
    <3> QED
      BY <1>4, <3>1, <3>2
  <2> QED
    BY <1>1, <1>3, <2>1 DEF Vouched
<1>11. ASSUME NEW o \in d.mint_txs
      PROVE  Vouched(d2, l, n, E2, o)
  <2>1. Vouched(d, l, n, E, o) /\ o.nonce # tx.nonce
    BY <1>1, <1>5, <1>7 DEF MintsVouched
  <2>2. \A j \in DOMAIN l[o.block_index + 1].mint_txs :
          /\ l[o.block_index + 1].mint_txs[j].nonce = o.nonce
          /\ o.block_index = n => j \notin E2
          => (o.block_index = n => j \notin E)
    BY <1>1, <1>2, <1>8, <2>1
  <2> QED
    BY <1>4, <2>1, <2>2 DEF Vouched
<1>12. (\E o \in d2.mint_txs : o.mint_config_id = {}) => d2.counters[none] > 0
  <2>1. none \in CounterNames /\ d.counters[none] \in Nat
    BY DEF CounterNames, Databases
  <2>2. CASE m.mint_config_id = {}
    BY <1>3, <2>1, <2>2 DEF CountsOne
  <2>3. CASE m.mint_config_id # {}
    BY <1>3, <2>3 DEF MintsVouched
  <2> QED
    BY <2>2, <2>3
<1> QED
  BY <1>1, <1>3, <1>7, <1>10, <1>11, <1>12 DEF MintsVouched

\* The moves of the main thread.
LEMMA ScanMoveVouched ==
  ASSUME NEW s, s.pos \in Nat \ {0}, s.block_index \in Nat, NEW s2,
         NEW d \in Databases, NEW d2 \in Databases, NEW c \in BlockContents,
         ScanMove(s, s2, d, d2, c), NEW l, IsBlock(l, s.block_index, c),
         s.pc = "mint_txs" => MintsStored(d, c.mint_txs, s.pos),
         MintsVouched(d, l, s.block_index, MissingMints(s, c))
  PROVE  MintsVouched(d2, l, s2.block_index, MissingMints(s2, c))
<1>1. s2.block_index = s.block_index
  BY DEF ScanMove, CheckMove, ConfigMove, ConfigsDone, MintMove, MintsDone, SkipMove, BurnMove,
         FinishMove, AuditMintMove, AuditMintsEnd, AuditBurnMove, AuditBurnsEnd, ScanGoes
<1>2. CASE MintMove(s, s2, d, d2, c)
  <2>1. MintsStored(d, c.mint_txs, s.pos)
    BY <1>2 DEF MintMove
  <2> QED
    BY <1>1, <1>2, <2>1, MintMoveVouched
<1>3. CASE ~MintMove(s, s2, d, d2, c)
  <2>1. MissingMints(s2, c) = MissingMints(s, c)
    BY <1>3, StoredMintsMove DEF MissingMints
  <2>2. d2.mint_txs = d.mint_txs /\ d.mint_config_txs \subseteq d2.mint_config_txs
    <3>1. AddsRows(s, d, d2) /\ d2.mint_txs = d.mint_txs
      BY <1>3, ScanMoveRows
    <3> QED
      BY <3>1 DEF AddsRows, LedgerTables
  <2>3. GrowsFrom(d, d2)
    BY GrowthComposes, ScanMoveAddsOne
  <2> QED
    BY <1>1, <2>1, <2>2, <2>3, VouchedFrame DEF GrowsFrom
<1> QED
  BY <1>2, <1>3

\* A database that a commit, or a safe thread, leaves as it is in the ledger's
\* tables.
LEMMA RowsKept ==
  ASSUME NEW d, NEW w, NEW w2, RowsStay(d, w), Keeps(w, w2, LedgerTables)
  PROVE  RowsStay(d, w2)
<1>1. /\ \A f \in LedgerTables : w2[f] = w[f]
      /\ w2.mint_txs = w.mint_txs /\ w2.mint_config_txs = w.mint_config_txs
  BY DEF Keeps, LedgerTables
<1> QED
  BY <1>1 DEF RowsStay

\* A step of the auditor, over the ledger as it was.
LEMMA RowStep ==
  ASSUME IInv, IInv', [Next]_vars, UnitInv, RowInv
  PROVE  /\ MintsVouched(db', ledger, 0, {})
         /\ \A p \in Procs : scan'[p].pc \in ScanInTx =>
              /\ RowsStay(db', wdb')
              /\ MintsVouched(wdb', ledger, scan'[p].block_index,
                              MissingMints(scan'[p], Contents(p)'))
         /\ \A t \in Workers : work'[t].pc \in WorkInTx =>
              RowsStay(db', wdb') /\ MintsVouched(wdb', ledger, 0, {})
<1>1. /\ db \in Databases /\ wdb \in Databases /\ db' \in Databases /\ wdb' \in Databases
  <2>1. db \in Databases /\ wdb \in Databases
    BY TypeFacts
  <2>2. db' \in Databases /\ wdb' \in Databases
    BY DEF IInv, TypeOK, LedgerTypeOK, StoreTypeOK
  <2> QED
    BY <2>1, <2>2
<1>2. \A d, n, E : d \in Databases /\ MintsVouched(d, ledger, 0, {}) => MintsVouched(d, ledger, n, E)
  <2> SUFFICES ASSUME NEW d \in Databases, NEW n, NEW E, MintsVouched(d, ledger, 0, {})
               PROVE  MintsVouched(d, ledger, n, E)
    OBVIOUS
  <2>1. \A k \in CounterNames : d.counters[k] <= d.counters[k]
    BY DEF Databases
  <2> QED
    BY <2>1, VouchedFrame
<1>3. CASE Idles
  BY <1>3 DEF RowInv, Idles
<1>4. CASE Begins
  <2>1. RowsStay(db, db)
    BY DEF RowsStay
  <2> QED
    BY <1>1, <1>2, <1>4, <2>1 DEF RowInv, Begins
<1>5. CASE Commits
  <2>1. MintsVouched(wdb, ledger, 0, {})
    <3>1. ASSUME NEW p \in Procs, scan[p].pc = "commit"
          PROVE  MintsVouched(wdb, ledger, 0, {})
      <4>1. MissingMints(scan[p], Contents(p)) = {}
        BY <3>1 DEF MissingMints, StoredMints, AfterMints
      <4>2. MintsVouched(wdb, ledger, scan[p].block_index, {})
        BY <3>1, <4>1 DEF RowInv, ScanInTx
      <4>3. \A k \in CounterNames : wdb.counters[k] <= wdb.counters[k]
        BY <1>1 DEF Databases
      <4> QED
        BY <1>1, <4>2, <4>3, VouchedFrame
    <3>2. ASSUME NEW t \in Workers, work[t].pc = "commit"
          PROVE  MintsVouched(wdb, ledger, 0, {})
      BY <3>2 DEF RowInv, WorkInTx
    <3> QED
      BY <1>5, <3>1, <3>2 DEF Commits
  <2> QED
    BY <1>5, <2>1 DEF Commits
<1>6. CASE \E p \in Procs : ScanProceeds(p)
  <2>1. PICK p \in Procs : ScanProceeds(p)
    BY <1>6
  <2>2. PICK s, s2, c : s = scan[p] /\ s2 = scan'[p] /\ c = Contents(p)
    OBVIOUS
  <2>3. /\ c \in BlockContents /\ s.pos \in Nat \ {0} /\ s.block_index \in Nat
        /\ s.pc \in ScanInTx /\ ScanMove(s, s2, wdb, wdb', c) /\ Contents(p)' = c
    BY <2>1, <2>2, ContentsType, TypeFacts DEF ScanProceeds, ScanInTx, ScanStates
  <2>4. /\ IsBlock(ledger, s.block_index, c)
        /\ s.pc = "mint_txs" => MintsStored(wdb, c.mint_txs, s.pos)
    <3>1. s.block_index < Len(ledger) /\ ledger \in Seq(Blocks)
      BY <2>2, <2>3, TypeFacts DEF IInv, ScanInv, ScanInTx
    <3>2. s.block_index + 1 \in DOMAIN ledger
      BY <2>3, <3>1
    <3>3. ledger[s.block_index + 1] = c
      BY <2>2 DEF Contents
    <3>4. s.pc = "mint_txs" => MintsStored(wdb, ledger[s.block_index + 1].mint_txs, s.pos)
      BY <2>2 DEF IInv, ScanInv
    <3> QED
      BY <3>2, <3>3, <3>4 DEF IsBlock
  <2>5. RowsStay(db, wdb) /\ MintsVouched(wdb, ledger, s.block_index, MissingMints(s, c))
    BY <2>2, <2>3 DEF RowInv
  <2>6. MintsVouched(wdb', ledger, s2.block_index, MissingMints(s2, c))
    BY <1>1, <2>3, <2>4, <2>5, ScanMoveVouched
  <2>7. RowsStay(db, wdb')
    <3>1. AddsRows(s, wdb, wdb')
      BY <1>1, <2>3, ScanMoveRows
    <3>2. db.counters["num_blocks_synced"] \in Nat
      BY <1>1 DEF Databases, CounterNames
    <3>3. db.counters["num_blocks_synced"] <= wdb.counters["num_blocks_synced"]
      BY <2>2, <2>3 DEF UnitInv, GrowsFrom, CounterNames
    <3>4. s.pc \in {"mint_config_txs", "mint_txs"} =>
            s.block_index = wdb.counters["num_blocks_synced"]
      BY <2>2 DEF IInv, ScanInv
    <3> QED
      BY <2>3, <2>5, <3>1, <3>2, <3>3, <3>4, RowsComposes DEF AddsRows
  <2> QED
    BY <2>1, <2>2, <2>3, <2>6, <2>7 DEF ScanProceeds, RowInv
<1>7. CASE \E t \in Workers : WorkProceeds(t)
  <2>1. PICK t \in Workers : WorkProceeds(t)
    BY <1>7
  <2>2. PICK k \in DOMAIN Config : audited_safe(t) = Config[k]
    BY SafeOfThread
  <2>3. WorkMove(work[t], work'[t], wdb, wdb', Tx(t), Config[k]) /\ work[t].pc \in WorkInTx
    BY <2>1, <2>2 DEF WorkProceeds
  <2>4. Keeps(wdb, wdb', LedgerTables) /\ AddsAtMostOne(wdb, wdb')
    BY <1>1, <2>3, WorkMoveKeepsLedger, WorkMoveAddsOne
  <2>5. RowsStay(db, wdb) /\ MintsVouched(wdb, ledger, 0, {})
    BY <2>3 DEF RowInv
  <2>6. RowsStay(db, wdb')
    BY <2>4, <2>5, RowsKept
  <2>7. wdb'.mint_txs = wdb.mint_txs /\ wdb'.mint_config_txs = wdb.mint_config_txs
    BY <2>4 DEF Keeps, LedgerTables
  <2>8. GrowsFrom(wdb, wdb')
    BY <1>1, <2>4, GrowthComposes
  <2>9. MintsVouched(wdb', ledger, 0, {})
    BY <1>1, <2>5, <2>7, <2>8, VouchedFrame DEF GrowsFrom
  <2> QED
    BY <2>1, <2>6, <2>9 DEF WorkProceeds, RowInv
<1> QED
  BY <1>3, <1>4, <1>5, <1>6, <1>7, StepCases

\* A longer ledger changes nothing.
LEMMA NextRowInv ==
  ASSUME IInv, IInv', [Next]_vars, UnitInv, RowInv
  PROVE  RowInv'
<1>1. /\ Len(ledger) \in Nat /\ Len(ledger') \in Nat /\ Len(ledger) <= Len(ledger')
      /\ \A b \in 1 .. Len(ledger) : ledger'[b] = ledger[b]
  BY LedgerStep
<1>2. ledger \in Seq(Blocks) /\ ledger' \in Seq(Blocks) /\ db' \in Databases /\ wdb' \in Databases
  BY TypeFacts DEF IInv, TypeOK, LedgerTypeOK, StoreTypeOK
<1>3. DOMAIN ledger \subseteq DOMAIN ledger' /\ \A b \in DOMAIN ledger : ledger'[b] = ledger[b]
  BY <1>1, <1>2
<1>4. ASSUME NEW d \in Databases, NEW n, NEW E, MintsVouched(d, ledger, n, E)
      PROVE  MintsVouched(d, ledger', n, E)
  <2>1. \A k \in CounterNames : d.counters[k] <= d.counters[k]
    BY DEF Databases
  <2> QED
    BY <1>3, <1>4, <2>1, VouchedFrame
<1>5. /\ MintsVouched(db', ledger, 0, {})
      /\ \A p \in Procs : scan'[p].pc \in ScanInTx =>
           /\ RowsStay(db', wdb')
           /\ MintsVouched(wdb', ledger, scan'[p].block_index,
                           MissingMints(scan'[p], Contents(p)'))
      /\ \A t \in Workers : work'[t].pc \in WorkInTx =>
           RowsStay(db', wdb') /\ MintsVouched(wdb', ledger, 0, {})
  BY RowStep
<1>6. /\ MintsVouched(db', ledger', 0, {})
      /\ \A p \in Procs : scan'[p].pc \in ScanInTx =>
           /\ RowsStay(db', wdb')
           /\ MintsVouched(wdb', ledger', scan'[p].block_index,
                           MissingMints(scan'[p], Contents(p)'))
      /\ \A t \in Workers : work'[t].pc \in WorkInTx =>
           RowsStay(db', wdb') /\ MintsVouched(wdb', ledger', 0, {})
  BY <1>2, <1>4, <1>5
<1> QED
  BY <1>6 DEF RowInv

\* Rows are vouched for in every reachable state.
LEMMA RowInvariance == Spec => []RowInv
<1>1. Init => RowInv
  <2> SUFFICES ASSUME Init PROVE RowInv
    OBVIOUS
  <2>1. /\ \A p \in Procs : scan[p].pc \notin ScanInTx
        /\ \A t \in Workers : work[t].pc \notin WorkInTx
    BY DEF Init, LedgerInit, GnosisInit, ScanAt, WorkAt, ScanInTx, WorkInTx
  <2>2. db.mint_txs = {}
    BY DEF Init, StoreInit, EmptyDb
  <2>3. MintsVouched(db, ledger, 0, {})
    BY <2>2 DEF MintsVouched
  <2> QED
    BY <2>1, <2>3 DEF RowInv
<1>2. IInv /\ IInv' /\ [Next]_vars /\ UnitInv /\ RowInv => RowInv'
  BY NextRowInv
<1> QED
  BY <1>1, <1>2, Invariance, UnitInvariance, PTL DEF Spec

\* What a step of the auditor may do to the committed database.
LEMMA CommittedRowsStay ==
  ASSUME IInv, IInv', [Next]_vars, UnitInv, RowInv
  PROVE  RowsStay(db, db') /\ \A k \in CounterNames : db.counters[k] <= db'.counters[k]
<1>1. RowsStay(db, db) /\ \A k \in CounterNames : db.counters[k] <= db.counters[k]
  BY TypeFacts DEF RowsStay, Databases
<1>2. db' = db \/ Commits
  BY StepCases DEF Idles, Begins, ScanProceeds, WorkProceeds
<1>3. Commits => RowsStay(db, wdb) /\ GrowsFrom(db, wdb)
  BY DEF Commits, RowInv, UnitInv, ScanInTx, WorkInTx
<1> QED
  BY <1>1, <1>2, <1>3 DEF Commits, GrowsFrom

----------------------------------------------------------------------------
(* What a handler has read.                                                *)

HandlerFields ==
  {"pc", "req", "since", "block", "balances", "mint_txs", "mint_config_txs", "configs_of",
   "todo", "mints_with_configs", "mint_total", "burn_total", "status"}

BlockAsked(h) == CHOOSE b \in h.block : TRUE

\* A handler of block_audit_data, over the database d: the block it works on is
\* the one asked for, or one that was synced when the request came or later.
BlockHandler(h, d) ==
  LET b == BlockAsked(h)
      n == d.counters["num_blocks_synced"]
  IN  /\ h.pc \in {"last", "get", "balances", "cli", "done"}
      /\ h.req.block # {} => h.block = h.req.block
      /\ h.pc = "last" => h.req.block = {}
      /\ h.pc \in {"get", "balances"} =>
           /\ h.block = {b} /\ b \in Nat
           /\ h.req.block = {} \/ h.pc = "balances" => b < n
           /\ h.req.block = {} => b + 1 >= h.since
      /\ h.pc # "done" => h.status = "ok"
      /\ h.pc = "done" /\ h.status = "ok" =>
           /\ h.req.via # "grpc" =>
                \E r \in d.block_balance : r.block_index = b /\ h.balances = {r.balances}
           /\ b \in d.block_audit_data
           /\ h.req.block = {} => b + 1 >= h.since
      /\ h.pc = "done" /\ h.status # "ok" =>
           h.status = "not_found" /\ h.since <= (IF h.req.block = {} THEN 0 ELSE b)

\* The rows of block b.
MintRowsOf(d, b) == {m \in d.mint_txs : m.block_index = b}

ConfigRowsOf(d, b) == {x \in d.mint_config_txs : x.block_index = b}

\* The ledger l has the mint m, signed by signers of this config.
Verified(l, m, config) ==
  /\ m.block_index + 1 \in DOMAIN l
  /\ LET txs == l[m.block_index + 1].mint_txs
     IN  config.signer_set \in txs[CHOOSE i \in DOMAIN txs : txs[i].nonce = m.nonce].signed_by

\* A handler of mint_info, over the database d and the ledger l: it has read
\* all mints of its block or none, and so on, and joined the mints that are
\* not on its list any more.
MintHandler(h, d, l) ==
  LET b == BlockAsked(h)
  IN  /\ h.pc \in {"mint_txs", "mint_config_txs", "mint_configs", "signers", "mint_config",
                   "mint_config_tx", "done"}
      /\ h.block = {b} /\ b \in Nat
      /\ h.pc = "mint_txs" => h.mint_txs = {}
      /\ h.pc # "mint_txs" =>
           /\ h.mint_txs = {} \/ h.mint_txs = MintRowsOf(d, b)
           /\ h.since > b => h.mint_txs = MintRowsOf(d, b)
      /\ h.pc \in {"mint_txs", "mint_config_txs"} => h.configs_of = {}
      /\ h.pc \notin {"mint_txs", "mint_config_txs"} =>
           /\ h.mint_config_txs = {} \/ h.mint_config_txs = ConfigRowsOf(d, b)
           /\ h.mint_txs # {} \/ h.since > b => h.mint_config_txs = ConfigRowsOf(d, b)
      /\ h.pc \notin {"mint_txs", "mint_config_txs", "mint_configs"} =>
           h.mint_config_txs = {r.mint_config_tx : r \in h.configs_of}
      /\ h.pc \in {"mint_txs", "mint_config_txs", "mint_configs"} => h.mints_with_configs = {}
      /\ h.pc \in {"signers", "mint_config", "mint_config_tx"} =>
           /\ h.todo \subseteq h.mint_txs
           /\ {x.mint_tx : x \in h.mints_with_configs} = h.mint_txs \ h.todo
      /\ h.pc \in {"mint_config", "mint_config_tx"} =>
           h.todo # {} /\ (CHOOSE m \in h.todo : TRUE).mint_config_id # {}
      /\ \A x \in h.mints_with_configs :
           /\ x.mint_config_tx.block_index < b
           /\ Verified(l, x.mint_tx, x.mint_config)
      /\ h.pc # "done" => h.status = "ok"
      /\ h.pc = "done" /\ h.status = "ok" =>
           {x.mint_tx : x \in h.mints_with_configs} = h.mint_txs
      /\ h.pc = "done" /\ h.status # "ok" =>
           /\ h.status = "object_not_saved"
           /\ \E m \in d.mint_txs : m.block_index = b /\ m.mint_config_id = {}
           /\ d.counters["num_mint_txs_without_matching_mint_config"] > 0

HandlerInv(h, d, l) ==
  /\ DOMAIN h = HandlerFields
  /\ h.req \in Requests
  /\ h.since \in Nat /\ h.since <= d.counters["num_blocks_synced"]
  /\ h.pc # "idle" /\ h.req.route = "block_audit_data" => BlockHandler(h, d)
  /\ h.pc # "idle" /\ h.req.route = "mint_info" => MintHandler(h, d, l)

HttpInv ==
  /\ DOMAIN handler = Clients
  /\ \A c \in Clients : HandlerInv(handler[c], db, ledger)

----------------------------------------------------------------------------
(* The committed database as a query finds it.                             *)

\* The rows of d are those of the first n blocks of l, and complete.
BlocksWhole(d, l, n) ==
  /\ \A b \in 0 .. n - 1 :
       /\ {m.nonce : m \in MintRowsOf(d, b)}
            = {l[b + 1].mint_txs[i].nonce : i \in DOMAIN l[b + 1].mint_txs}
       /\ {x.nonce : x \in ConfigRowsOf(d, b)}
            = {l[b + 1].mint_config_txs[i].nonce : i \in DOMAIN l[b + 1].mint_config_txs}
  /\ \A m \in d.mint_txs : m.block_index \in 0 .. n - 1
  /\ \A x \in d.mint_config_txs : x.block_index \in 0 .. n - 1

\* And so are its audit data and balances.
Readable(d, l) ==
  \E n \in Nat :
    /\ n = d.counters["num_blocks_synced"] /\ n <= Len(l)
    /\ d.block_audit_data = 0 .. n - 1
    /\ \A b \in 0 .. n - 1 : \E r \in d.block_balance : r.block_index = b
    /\ BlocksWhole(d, l, n)

SameFacts(d, l, n) == ConfigFacts(d) = ConfigsUpTo(l, n) /\ MintFacts(d) = MintsUpTo(l, n)

\* The rows of a block are what the ledger holds for it.
LEMMA RowsOfBlock ==
  ASSUME NEW d, NEW l, NEW n \in Nat, SameFacts(d, l, n)
  PROVE  BlocksWhole(d, l, n)
<1> USE DEF SameFacts
<1>1. ASSUME NEW m \in d.mint_txs
      PROVE  \E b \in 1 .. n : \E i \in DOMAIN l[b].mint_txs :
               m.block_index = b - 1 /\ m.nonce = l[b].mint_txs[i].nonce
  <2>1. PICK f \in MintsUpTo(l, n) : f.block_index = m.block_index /\ f.nonce = m.nonce
    <3>1. [block_index |-> m.block_index, token_id |-> m.token_id, amount |-> m.amount,
           nonce |-> m.nonce] \in MintsUpTo(l, n)
      BY DEF MintFacts
    <3> QED
      BY <3>1
  <2>2. PICK b \in 1 .. n : f \in MintPart(b - 1, l[b], DOMAIN l[b].mint_txs)
    BY DEF MintsUpTo
  <2>3. PICK i \in DOMAIN l[b].mint_txs : f = MintFact(b - 1, l[b].mint_txs[i])
    BY <2>2 DEF MintPart
  <2> QED
    BY <2>1, <2>3 DEF MintFact
<1>2. ASSUME NEW x \in d.mint_config_txs
      PROVE  \E b \in 1 .. n : \E i \in DOMAIN l[b].mint_config_txs :
               x.block_index = b - 1 /\ x.nonce = l[b].mint_config_txs[i].nonce
  <2>1. <<x.block_index, x.token_id, x.nonce>> \in ConfigsUpTo(l, n)
    BY DEF ConfigFacts
  <2>2. PICK b \in 1 .. n :
          <<x.block_index, x.token_id, x.nonce>>
            \in ConfigPart(b - 1, l[b], DOMAIN l[b].mint_config_txs)
    BY <2>1 DEF ConfigsUpTo
  <2>3. PICK i \in DOMAIN l[b].mint_config_txs :
          <<x.block_index, x.token_id, x.nonce>>
            = <<b - 1, l[b].mint_config_txs[i].token_id, l[b].mint_config_txs[i].nonce>>
    BY <2>2 DEF ConfigPart
  <2> QED
    BY <2>3
<1>3. ASSUME NEW b \in 1 .. n, NEW i \in DOMAIN l[b].mint_txs
      PROVE  \E m \in d.mint_txs : m.block_index = b - 1 /\ m.nonce = l[b].mint_txs[i].nonce
  <2>1. MintFact(b - 1, l[b].mint_txs[i]) \in MintsUpTo(l, n)
    BY DEF MintsUpTo, MintPart
  <2>2. PICK f \in MintFacts(d) : f.block_index = b - 1 /\ f.nonce = l[b].mint_txs[i].nonce
    BY <2>1 DEF MintFact
  <2>3. PICK m \in d.mint_txs :
          f = [block_index |-> m.block_index, token_id |-> m.token_id, amount |-> m.amount,
               nonce |-> m.nonce]
    BY DEF MintFacts
  <2> QED
    BY <2>2, <2>3
<1>4. ASSUME NEW b \in 1 .. n, NEW i \in DOMAIN l[b].mint_config_txs
      PROVE  \E x \in d.mint_config_txs :
               x.block_index = b - 1 /\ x.nonce = l[b].mint_config_txs[i].nonce
  <2>1. PICK f : f = <<b - 1, l[b].mint_config_txs[i].token_id, l[b].mint_config_txs[i].nonce>>
    OBVIOUS
  <2>2. f \in ConfigFacts(d)
    BY <2>1 DEF ConfigsUpTo, ConfigPart
  <2>3. PICK x \in d.mint_config_txs : f = <<x.block_index, x.token_id, x.nonce>>
    BY <2>2 DEF ConfigFacts
  <2> QED
    BY <2>1, <2>3
<1>5. ASSUME NEW b \in 0 .. n - 1
      PROVE  {m.nonce : m \in MintRowsOf(d, b)}
               = {l[b + 1].mint_txs[i].nonce : i \in DOMAIN l[b + 1].mint_txs}
  <2>1. b + 1 \in 1 .. n /\ (b + 1) - 1 = b /\ \A e \in 1 .. n : b = e - 1 => e = b + 1
    OBVIOUS
  <2>2. PICK e : e = b + 1
    OBVIOUS
  <2>3. ASSUME NEW m \in d.mint_txs, m.block_index = b
        PROVE  \E i \in DOMAIN l[e].mint_txs : m.nonce = l[e].mint_txs[i].nonce
    BY <1>1, <2>1, <2>2, <2>3
  <2>4. ASSUME NEW i \in DOMAIN l[e].mint_txs
        PROVE  \E m \in d.mint_txs : m.block_index = b /\ m.nonce = l[e].mint_txs[i].nonce
    BY <1>3, <2>1, <2>2
  <2> QED
    BY <2>2, <2>3, <2>4 DEF MintRowsOf
<1>6. ASSUME NEW b \in 0 .. n - 1
      PROVE  {x.nonce : x \in ConfigRowsOf(d, b)}
               = {l[b + 1].mint_config_txs[i].nonce : i \in DOMAIN l[b + 1].mint_config_txs}
  <2>1. b + 1 \in 1 .. n /\ (b + 1) - 1 = b /\ \A e \in 1 .. n : b = e - 1 => e = b + 1
    OBVIOUS
  <2>2. PICK e : e = b + 1
    OBVIOUS
  <2>3. ASSUME NEW x \in d.mint_config_txs, x.block_index = b
        PROVE  \E i \in DOMAIN l[e].mint_config_txs : x.nonce = l[e].mint_config_txs[i].nonce
    BY <1>2, <2>1, <2>2, <2>3
  <2>4. ASSUME NEW i \in DOMAIN l[e].mint_config_txs
        PROVE  \E x \in d.mint_config_txs :
                 x.block_index = b /\ x.nonce = l[e].mint_config_txs[i].nonce
    BY <1>4, <2>1, <2>2
  <2> QED
    BY <2>2, <2>3, <2>4 DEF ConfigRowsOf
<1>7. \A m \in d.mint_txs : m.block_index \in 0 .. n - 1
  BY <1>1
<1>8. \A x \in d.mint_config_txs : x.block_index \in 0 .. n - 1
  BY <1>2
<1> QED
  BY <1>5, <1>6, <1>7, <1>8 DEF BlocksWhole

\* The committed database is readable.
LEMMA CommittedIsReadable ==
  ASSUME IInv, PrefixInv
  PROVE  Readable(db, ledger)
<1>1. db \in Databases /\ wdb \in Databases
  BY TypeFacts
<1>2. PICK n \in Nat :
        /\ n = db.counters["num_blocks_synced"] /\ n <= Len(ledger)
        /\ {r.block_index : r \in db.block_balance} = 0 .. n - 1
  BY <1>1, PrefixMeans DEF PrefixForm, Balanced
<1>3. ConfigFacts(db) = ConfigsUpTo(ledger, n) /\ MintFacts(db) = MintsUpTo(ledger, n)
  BY <1>1, <1>2, PrefixMeans DEF PrefixForm, Mirrors, WholeOf
<1>4. db.block_audit_data = 0 .. n - 1
  BY <1>2 DEF IInv, DbInv
<1>5. \A b \in 0 .. n - 1 : \E r \in db.block_balance : r.block_index = b
  BY <1>2
<1>6. SameFacts(db, ledger, n)
  BY <1>3 DEF SameFacts
<1>7. BlocksWhole(db, ledger, n)
  BY <1>6, RowsOfBlock
<1> QED
  BY <1>2, <1>4, <1>5, <1>7 DEF Readable

\* The number of blocks synced, as a query computes it.
LEMMA SyncedBlocks ==
  ASSUME NEW d, NEW l, Readable(d, l)
  PROVE  /\ d.counters["num_blocks_synced"] \in Nat
         /\ num_blocks_synced(d) = d.counters["num_blocks_synced"]
         /\ d.block_audit_data = {} <=> d.counters["num_blocks_synced"] = 0
         /\ d.block_audit_data # {} =>
              Max(d.block_audit_data) = d.counters["num_blocks_synced"] - 1
<1>1. PICK n \in Nat : n = d.counters["num_blocks_synced"] /\ d.block_audit_data = 0 .. n - 1
  BY DEF Readable
<1>2. CASE n = 0
  BY <1>1, <1>2 DEF num_blocks_synced
<1>3. CASE n # 0
  <2>1. n - 1 \in d.block_audit_data /\ \A x \in d.block_audit_data : n - 1 >= x
    BY <1>1, <1>3
  <2>2. \A y \in d.block_audit_data : y \in Int /\ (y >= n - 1 => y = n - 1)
    BY <1>1
  <2>3. Max(d.block_audit_data) = n - 1
    BY <2>1, <2>2 DEF Max
  <2> QED
    BY <1>1, <1>3, <2>1, <2>3 DEF num_blocks_synced
<1> QED
  BY <1>2, <1>3

\* What a request asks for.
LEMMA RequestFacts ==
  ASSUME NEW req \in Requests
  PROVE  /\ req.route \in {"block_audit_data", "mint_info", "ledger_balance"}
         /\ req.route = "block_audit_data" =>
              /\ req.via \in {"http", "grpc", "cli"}
              /\ req.block = {} \/ \E b \in Nat : req.block = {b}
         /\ req.route = "mint_info" => \E b \in Nat : req.block = {b}
<1>1. ASSUME NEW o \in Option(BlockIndices), o # {}
      PROVE  \E b \in Nat : o = {b}
  <2>1. PICK b \in o : TRUE
    BY <1>1
  <2>2. b \in Nat /\ \A x \in o : x = b
    BY <1>1, LedgerAssumption DEF Option, BlockIndices
  <2> QED
    BY <2>1, <2>2
<1>2. CASE req \in [route: {"block_audit_data"}, via: {"http", "grpc", "cli"},
                    block: Option(BlockIndices)]
  BY <1>1, <1>2
<1>3. CASE req \in [route: {"mint_info"}, block: Option(BlockIndices) \ {{}}]
  BY <1>1, <1>3
<1>4. CASE req \in [route: {"ledger_balance"}, token_id: Tokens]
  BY <1>4
<1> QED
  BY <1>2, <1>3, <1>4 DEF Requests

\* The database d2 and the ledger l2 are later ones.
Later(d, l, d2, l2) ==
  /\ Readable(d, l) /\ Readable(d2, l2) /\ RowsStay(d, d2)
  /\ d \in Databases /\ d2 \in Databases
  /\ \A k \in CounterNames : d.counters[k] <= d2.counters[k]
  /\ DOMAIN l \subseteq DOMAIN l2 /\ \A b \in DOMAIN l : l2[b] = l[b]

\* The rows of a synced block stay as they are; those of a later block are not
\* there yet.
LEMMA RowsOfLater ==
  ASSUME NEW d, NEW l, NEW d2, NEW l2, Later(d, l, d2, l2), NEW b \in Nat
  PROVE  /\ b < d.counters["num_blocks_synced"] =>
              MintRowsOf(d2, b) = MintRowsOf(d, b) /\ ConfigRowsOf(d2, b) = ConfigRowsOf(d, b)
         /\ b >= d.counters["num_blocks_synced"] => MintRowsOf(d, b) = {} /\ ConfigRowsOf(d, b) = {}
<1>1. PICK n \in Nat : n = d.counters["num_blocks_synced"] /\ BlocksWhole(d, l, n)
  BY DEF Later, Readable
<1>2. /\ d.mint_txs \subseteq d2.mint_txs
      /\ d.mint_config_txs \subseteq d2.mint_config_txs
      /\ \A r \in d2.mint_txs \ d.mint_txs : r.block_index >= n
      /\ \A r \in d2.mint_config_txs \ d.mint_config_txs : r.block_index >= n
  BY <1>1 DEF Later, RowsStay, LedgerTables
<1>3. /\ \A r \in d2.mint_txs : r.block_index \in Nat
      /\ \A r \in d2.mint_config_txs : r.block_index \in Nat
  BY DEF Later, Readable, BlocksWhole
<1>4. CASE b < n
  BY <1>1, <1>2, <1>3, <1>4 DEF MintRowsOf, ConfigRowsOf
<1>5. CASE b >= n
  <2>1. \A m \in d.mint_txs : m.block_index # b
    BY <1>1, <1>5 DEF BlocksWhole
  <2>2. \A m \in d.mint_config_txs : m.block_index # b
    BY <1>1, <1>5 DEF BlocksWhole
  <2> QED
    BY <1>1, <1>5, <2>1, <2>2 DEF MintRowsOf, ConfigRowsOf
<1> QED
  BY <1>1, <1>4, <1>5

\* What a handler has read stays true of later databases.
LEMMA BlockHandlerStays ==
  ASSUME NEW h, NEW d, NEW l, NEW d2, NEW l2, Later(d, l, d2, l2), BlockHandler(h, d)
  PROVE  BlockHandler(h, d2)
<1>1. PICK n, n2 : n = d.counters["num_blocks_synced"] /\ n2 = d2.counters["num_blocks_synced"]
  OBVIOUS
<1>2. n \in Nat /\ n2 \in Nat /\ n <= n2
  BY <1>1 DEF Later, Readable, CounterNames
<1>3. d.block_balance \subseteq d2.block_balance /\ d.block_audit_data \subseteq d2.block_audit_data
  BY DEF Later, RowsStay, LedgerTables
<1> QED
  BY <1>1, <1>2, <1>3 DEF BlockHandler

\* The same for mint_info.
LEMMA MintHandlerStays ==
  ASSUME NEW h, NEW d, NEW l, NEW d2, NEW l2, Later(d, l, d2, l2), MintHandler(h, d, l),
         h.since \in Nat, h.since <= d.counters["num_blocks_synced"]
  PROVE  MintHandler(h, d2, l2)
<1>1. PICK n, b : n = d.counters["num_blocks_synced"] /\ b = BlockAsked(h)
  OBVIOUS
<1>2. n \in Nat /\ b \in Nat
  BY <1>1 DEF Later, Readable, MintHandler
<1>3. /\ b < n => MintRowsOf(d2, b) = MintRowsOf(d, b) /\ ConfigRowsOf(d2, b) = ConfigRowsOf(d, b)
      /\ b >= n => MintRowsOf(d, b) = {} /\ ConfigRowsOf(d, b) = {}
  BY <1>1, <1>2, RowsOfLater
<1>4. h.pc # "mint_txs" =>
        /\ h.mint_txs = {} \/ h.mint_txs = MintRowsOf(d2, b)
        /\ h.since > b => h.mint_txs = MintRowsOf(d2, b)
  BY <1>1, <1>2, <1>3 DEF MintHandler
<1>5. h.pc \notin {"mint_txs", "mint_config_txs"} =>
        /\ h.mint_config_txs = {} \/ h.mint_config_txs = ConfigRowsOf(d2, b)
        /\ h.mint_txs # {} \/ h.since > b => h.mint_config_txs = ConfigRowsOf(d2, b)
  BY <1>1, <1>2, <1>3 DEF MintHandler
<1>6. ASSUME NEW x \in h.mints_with_configs
      PROVE  x.mint_config_tx.block_index < b /\ Verified(l2, x.mint_tx, x.mint_config)
  <2>1. PICK k : k = x.mint_tx.block_index + 1
    OBVIOUS
  <2>2. x.mint_config_tx.block_index < b /\ Verified(l, x.mint_tx, x.mint_config)
    BY <1>1 DEF MintHandler
  <2>3. k \in DOMAIN l /\ l2[k] = l[k] /\ k \in DOMAIN l2
    BY <2>1, <2>2 DEF Verified, Later
  <2> QED
    BY <2>1, <2>2, <2>3 DEF Verified
<1>7. h.pc = "done" /\ h.status # "ok" =>
        /\ h.status = "object_not_saved"
        /\ \E m \in d2.mint_txs : m.block_index = b /\ m.mint_config_id = {}
        /\ d2.counters["num_mint_txs_without_matching_mint_config"] > 0
  <2>1. d.mint_txs \subseteq d2.mint_txs
    BY DEF Later, RowsStay, LedgerTables
  <2>2. PICK u, u2 : /\ u = d.counters["num_mint_txs_without_matching_mint_config"]
                     /\ u2 = d2.counters["num_mint_txs_without_matching_mint_config"]
    OBVIOUS
  <2>3. u \in Nat /\ u2 \in Nat /\ u <= u2
    BY <2>2 DEF Later, Databases, CounterNames
  <2> QED
    BY <1>1, <2>1, <2>2, <2>3 DEF MintHandler
<1> QED
  BY <1>1, <1>4, <1>5, <1>6, <1>7 DEF MintHandler

\* The same for any handler.
LEMMA HandlerStays ==
  ASSUME NEW h, NEW d, NEW l, NEW d2, NEW l2, Later(d, l, d2, l2), HandlerInv(h, d, l)
  PROVE  HandlerInv(h, d2, l2)
<1>1. d.counters["num_blocks_synced"] \in Nat /\ d2.counters["num_blocks_synced"] \in Nat
  BY DEF Later, Readable
<1>2. d.counters["num_blocks_synced"] <= d2.counters["num_blocks_synced"]
  BY DEF Later, CounterNames
<1>3. h.pc # "idle" /\ h.req.route = "block_audit_data" => BlockHandler(h, d2)
  BY BlockHandlerStays DEF HandlerInv
<1>4. h.pc # "idle" /\ h.req.route = "mint_info" => MintHandler(h, d2, l2)
  BY MintHandlerStays DEF HandlerInv
<1> QED
  BY <1>1, <1>2, <1>3, <1>4 DEF HandlerInv

\* A step of a handler is about its own request.
LEMMA HandlerFrame ==
  ASSUME HttpInv, NEW c \in Clients, HandlerStep(c)
  PROVE  /\ UNCHANGED vars
         /\ DOMAIN handler' = Clients
         /\ \A e \in Clients : e # c => handler'[e] = handler[e]
         /\ DOMAIN handler'[c] = HandlerFields
         /\ handler'[c].req = handler[c].req /\ handler'[c].since = handler[c].since
<1>1. /\ DOMAIN handler = Clients
      /\ DOMAIN handler[c] = HandlerFields
  BY DEF HttpInv, HandlerInv
<1> USE <1>1 DEF Continue, Reply, Fail, HandlerFields
<1>2. CASE LastSyncedBlock(c)
  BY <1>2 DEF LastSyncedBlock
<1>3. CASE GetBlockAuditData(c)
  <2>1. /\ UNCHANGED vars
        /\ \/ \E st : Fail(c, st)
           \/ Reply(c, handler[c])
           \/ Continue(c, [handler[c] EXCEPT !.pc = "balances"])
    BY ONLY <1>3 DEF GetBlockAuditData
  <2> QED
    BY <2>1
<1>4. CASE GetBalances(c)
  BY <1>4 DEF GetBalances
<1>5. CASE CmdGetBlockAuditData(c)
  <2>1. /\ UNCHANGED vars
        /\ \/ Fail(c, "not_found")
           \/ \E b, r : Reply(c, [handler[c] EXCEPT !.block = b, !.balances = r])
    BY ONLY <1>5 DEF CmdGetBlockAuditData
  <2> QED
    BY <2>1
<1>6. CASE GetMintTxs(c)
  BY <1>6 DEF GetMintTxs
<1>7. CASE GetMintConfigTxs(c)
  BY <1>7 DEF GetMintConfigTxs
<1>8. CASE GetMintConfigs(c)
  BY <1>8 DEF GetMintConfigs
<1>9. CASE MintConfigsDone(c)
  BY <1>9 DEF MintConfigsDone
<1>10. CASE GetSigners(c)
  BY <1>10 DEF GetSigners
<1>11. CASE GetMintConfig(c)
  BY <1>11 DEF GetMintConfig
<1>12. CASE GetMintConfigTx(c)
  BY <1>12 DEF GetMintConfigTx
<1>13. CASE MintInfoDone(c)
  BY <1>13 DEF MintInfoDone
<1>14. CASE get_mint_total(c) \/ get_burn_total(c)
  BY <1>14 DEF get_mint_total, get_burn_total
<1> QED
  BY <1>2, <1>3, <1>4, <1>5, <1>6, <1>7, <1>8, <1>9, <1>10, <1>11, <1>12, <1>13, <1>14
     DEF HandlerStep

\* block_audit_data: the queries of one request agree.
LEMMA BlockStep ==
  ASSUME HttpInv, Readable(db, ledger), NEW c \in Clients, HandlerStep(c),
         handler[c].req.route = "block_audit_data"
  PROVE  BlockHandler(handler'[c], db)
<1>1. PICK h, h2, b : h = handler[c] /\ h2 = handler'[c] /\ b = BlockAsked(h)
  OBVIOUS
<1>2. PICK n \in Nat :
        /\ n = db.counters["num_blocks_synced"] /\ db.block_audit_data = 0 .. n - 1
        /\ \A x \in 0 .. n - 1 : \E r \in db.block_balance : r.block_index = x
  BY DEF Readable
<1>3. /\ db.block_audit_data = {} <=> n = 0
      /\ db.block_audit_data # {} => Max(db.block_audit_data) = n - 1
  BY <1>2, SyncedBlocks
<1>4. /\ DOMAIN handler = Clients /\ DOMAIN h = HandlerFields
      /\ h.req \in Requests /\ h.req.route = "block_audit_data"
      /\ h.since \in Nat /\ h.since <= n
      /\ h.pc # "idle" => BlockHandler(h, db)
  BY <1>1, <1>2 DEF HttpInv, HandlerInv
<1>5. /\ h.req.via \in {"http", "grpc", "cli"}
      /\ h.req.block = {} \/ \E x \in Nat : h.req.block = {x}
  BY <1>4, RequestFacts
<1>6. BlockOf(c) = b
  BY <1>1 DEF BlockOf, BlockAsked
<1>7. \/ LastSyncedBlock(c) \/ GetBlockAuditData(c) \/ GetBalances(c)
      \/ CmdGetBlockAuditData(c)
  BY <1>1, <1>4
     DEF HandlerStep, BlockHandler, LastSyncedBlock, GetBlockAuditData, GetBalances,
         CmdGetBlockAuditData, GetMintTxs, GetMintConfigTxs, GetMintConfigs, MintConfigsDone,
         GetSigners, GetMintConfig, GetMintConfigTx, MintInfoDone, get_mint_total, get_burn_total
<1>8. h.pc \in {"last", "get", "balances", "cli"}
  BY <1>1, <1>7 DEF LastSyncedBlock, GetBlockAuditData, GetBalances, CmdGetBlockAuditData
<1>9. BlockHandler(h, db) /\ h.status = "ok"
  BY <1>4, <1>8 DEF BlockHandler
<1>10. \A x : \/ get_balances_for_block(db, x)
                   \in {r.balances : r \in {y \in db.block_balance : y.block_index = x}}
              \/ \A r \in db.block_balance : r.block_index # x
  BY DEF get_balances_for_block
<1>11. ASSUME NEW st, h2 = [[h EXCEPT !.status = st] EXCEPT !.pc = "done"], st = "not_found",
              h.since <= (IF h.req.block = {} THEN 0 ELSE b)
       PROVE  BlockHandler(h2, db)
  <2>1. /\ h2.pc = "done" /\ h2.status = "not_found" /\ h2.block = h.block
        /\ h2.req = h.req /\ h2.since = h.since
    BY <1>4, <1>11 DEF HandlerFields
  <2>2. BlockAsked(h2) = b
    BY <1>1, <2>1 DEF BlockAsked
  <2> QED
    BY <1>9, <1>11, <2>1, <2>2 DEF BlockHandler
<1>12. CASE LastSyncedBlock(c)
  <2>1. h.pc = "last" /\ h.req.block = {}
    BY <1>1, <1>9, <1>12 DEF LastSyncedBlock, BlockHandler
  <2>2. CASE n = 0
    <3>1. h2 = [[h EXCEPT !.status = "not_found"] EXCEPT !.pc = "done"]
      BY <1>1, <1>3, <1>4, <1>12, <2>2 DEF LastSyncedBlock, Fail, Reply
    <3> QED
      BY <1>1, <1>4, <1>11, <2>1, <2>2, <3>1
  <2>3. CASE n # 0
    <3>1. h2 = [h EXCEPT !.pc = "get", !.block = {n - 1}]
      BY <1>1, <1>3, <1>4, <1>12, <2>3 DEF LastSyncedBlock, Continue
    <3>2. /\ h2.pc = "get" /\ h2.block = {n - 1} /\ h2.status = h.status
          /\ h2.req = h.req /\ h2.since = h.since
      BY <1>4, <3>1 DEF HandlerFields
    <3>3. BlockAsked(h2) = n - 1
      BY <3>2 DEF BlockAsked
    <3> QED
      BY <1>1, <1>2, <1>4, <1>9, <2>1, <2>3, <3>2, <3>3 DEF BlockHandler
  <2> QED
    BY <2>2, <2>3
<1>13. CASE GetBlockAuditData(c)
  <2>1. h.pc = "get" /\ h.block = {b} /\ b \in Nat
    BY <1>1, <1>9, <1>13 DEF GetBlockAuditData, BlockHandler
  <2>2. CASE b \notin db.block_audit_data
    <3>1. b >= n /\ h.req.block # {}
      BY <1>1, <1>2, <1>9, <2>1, <2>2 DEF BlockHandler
    <3>2. Fail(c, "not_found")
      BY <1>1, <1>6, <1>13, <2>2, <3>1 DEF GetBlockAuditData
    <3>3. h2 = [[h EXCEPT !.status = "not_found"] EXCEPT !.pc = "done"]
      BY <1>1, <1>4, <3>2 DEF Fail, Reply
    <3>4. h.since <= (IF h.req.block = {} THEN 0 ELSE b)
      BY <1>2, <1>4, <2>1, <3>1
    <3> QED
      BY <1>1, <1>11, <3>3, <3>4
  <2>3. CASE b \in db.block_audit_data
    <3>1. h2 = [h EXCEPT !.pc = IF h.req.via = "grpc" THEN "done" ELSE "balances"]
      BY <1>1, <1>4, <1>6, <1>13, <2>3 DEF GetBlockAuditData, Reply, Continue
    <3>2. /\ h2.pc = (IF h.req.via = "grpc" THEN "done" ELSE "balances") /\ h2.block = h.block
          /\ h2.status = h.status /\ h2.req = h.req /\ h2.since = h.since
      BY <1>4, <3>1 DEF HandlerFields
    <3>3. BlockAsked(h2) = b /\ b < n
      BY <1>1, <1>2, <2>3, <3>2 DEF BlockAsked
    <3> QED
      BY <1>1, <1>2, <1>9, <2>1, <2>3, <3>2, <3>3 DEF BlockHandler
  <2> QED
    BY <2>2, <2>3
<1>14. CASE GetBalances(c)
  <2>1. /\ h.pc = "balances" /\ h.block = {b} /\ b \in 0 .. n - 1
        /\ h.req.block = {} => b + 1 >= h.since
    BY <1>1, <1>2, <1>9, <1>14 DEF GetBalances, BlockHandler
  <2>2. PICK r \in db.block_balance :
          r.block_index = b /\ get_balances_for_block(db, b) = r.balances
    BY <1>2, <1>10, <2>1
  <2>3. h2 = [[h EXCEPT !.balances = {r.balances}] EXCEPT !.pc = "done"]
    BY <1>1, <1>4, <1>6, <1>14, <2>2 DEF GetBalances, Reply
  <2>4. /\ h2.pc = "done" /\ h2.block = h.block /\ h2.balances = {r.balances}
        /\ h2.status = h.status /\ h2.req = h.req /\ h2.since = h.since
    BY <1>4, <2>3 DEF HandlerFields
  <2>5. BlockAsked(h2) = b
    BY <1>1, <2>4 DEF BlockAsked
  <2> QED
    BY <1>1, <1>2, <1>9, <2>1, <2>2, <2>4, <2>5 DEF BlockHandler
<1>15. CASE CmdGetBlockAuditData(c)
  <2>1. h.pc = "cli" /\ (h.req.block # {} => h.block = h.req.block)
    BY <1>1, <1>9, <1>15 DEF CmdGetBlockAuditData, BlockHandler
  <2>2. PICK found : found = IF h.req.block # {} THEN h.req.block
                             ELSE IF db.block_audit_data = {} THEN {}
                             ELSE {Max(db.block_audit_data)}
    OBVIOUS
  <2>3. IF found # {} /\ found \subseteq db.block_audit_data
        THEN Reply(c, [h EXCEPT !.block = found,
                         !.balances = {get_balances_for_block(db, x) : x \in found}])
        ELSE Fail(c, "not_found")
    BY <1>1, <1>15, <2>2 DEF CmdGetBlockAuditData
  <2>4. CASE found # {} /\ found \subseteq db.block_audit_data
    <3>1. PICK f : found = {f} /\ f \in 0 .. n - 1 /\ (h.req.block = {} => f = n - 1)
      BY <1>2, <1>3, <1>5, <2>2, <2>4
    <3>2. PICK r \in db.block_balance :
            r.block_index = f /\ get_balances_for_block(db, f) = r.balances
      BY <1>2, <1>10, <3>1
    <3>3. {get_balances_for_block(db, x) : x \in found} = {r.balances}
      BY <3>1, <3>2
    <3>4. h2 = [[h EXCEPT !.block = {f}, !.balances = {r.balances}] EXCEPT !.pc = "done"]
      BY <1>1, <1>4, <2>3, <2>4, <3>1, <3>3 DEF Reply
    <3>5. /\ h2.pc = "done" /\ h2.block = {f} /\ h2.balances = {r.balances}
          /\ h2.status = h.status /\ h2.req = h.req /\ h2.since = h.since
      BY <1>4, <3>4 DEF HandlerFields
    <3>6. BlockAsked(h2) = f /\ (h.req.block # {} => h.req.block = {f})
      BY <2>2, <3>1, <3>5 DEF BlockAsked
    <3> QED
      BY <1>1, <1>2, <1>4, <1>9, <2>1, <3>1, <3>2, <3>5, <3>6 DEF BlockHandler
  <2>5. CASE ~(found # {} /\ found \subseteq db.block_audit_data)
    <3>1. h.since <= (IF h.req.block = {} THEN 0 ELSE b)
      <4>1. CASE h.req.block = {}
        BY <1>2, <1>3, <1>4, <2>2, <2>5, <4>1
      <4>2. CASE h.req.block # {}
        <5>1. h.block = {b} /\ b \in Nat
          BY <1>1, <1>5, <2>1, <4>2 DEF BlockAsked
        <5>2. b \notin db.block_audit_data
          BY <2>1, <2>2, <2>5, <4>2, <5>1
        <5> QED
          BY <1>2, <1>4, <4>2, <5>1, <5>2
      <4> QED
        BY <4>1, <4>2
    <3>2. h2 = [[h EXCEPT !.status = "not_found"] EXCEPT !.pc = "done"]
      BY <1>1, <1>4, <2>3, <2>5 DEF Fail, Reply
    <3> QED
      BY <1>1, <1>11, <3>1, <3>2
  <2> QED
    BY <2>4, <2>5
<1> QED
  BY <1>7, <1>12, <1>13, <1>14, <1>15

\* mint_info reads mints first, config transactions second.
LEMMA QueryOrder ==
  /\ Queries("mint_info")[1] = "mint_txs"
  /\ NextQuery("mint_info", "mint_txs") = "mint_config_txs"
  /\ NextQuery("mint_info", "mint_config_txs") = "mint_configs"
<1>1. Queries("mint_info") = <<"mint_txs", "mint_config_txs", "mint_configs">>
  BY DEF Queries
<1>2. PICK q : q = <<"mint_txs", "mint_config_txs", "mint_configs">>
  OBVIOUS
<1>3. /\ DOMAIN q = 1 .. 3
      /\ q[1] = "mint_txs" /\ q[2] = "mint_config_txs" /\ q[3] = "mint_configs"
  BY <1>2
<1>4. (CHOOSE i \in DOMAIN q : q[i] = "mint_txs") = 1
  <2>1. \A i \in DOMAIN q : q[i] = "mint_txs" <=> i = 1
    BY <1>3
  <2> QED
    BY <1>3, <2>1
<1>5. (CHOOSE i \in DOMAIN q : q[i] = "mint_config_txs") = 2
  <2>1. \A i \in DOMAIN q : q[i] = "mint_config_txs" <=> i = 2
    BY <1>3
  <2> QED
    BY <1>3, <2>1
<1> QED
  BY <1>1, <1>2, <1>3, <1>4, <1>5 DEF NextQuery

\* The config a mint points to is found, and is the one that was verified.
LEMMA ConfigIsFound ==
  ASSUME NEW d, NEW l, Readable(d, l), MintsVouched(d, l, 0, {}),
         \A x, y \in d.mint_config_txs :
           x.block_index = y.block_index /\ x.token_id = y.token_id => x = y,
         NEW m \in d.mint_txs, NEW id \in m.mint_config_id
  PROVE  /\ get_by_id(d, id) # {}
         /\ \A x \in get_by_id(d, id) :
              x.block_index < m.block_index /\ Verified(l, m, x.configs[id.position])
<1>1. PICK n \in Nat : BlocksWhole(d, l, n)
  BY DEF Readable
<1>2. PICK k, txs : k = m.block_index + 1 /\ txs = l[k].mint_txs
  OBVIOUS
<1>3. m.block_index \in 0 .. n - 1 /\ m \in MintRowsOf(d, m.block_index)
  BY <1>1 DEF BlocksWhole, MintRowsOf
<1>4. \E i \in DOMAIN txs : txs[i].nonce = m.nonce
  <2>1. PICK b : b = m.block_index
    OBVIOUS
  <2>2. {y.nonce : y \in MintRowsOf(d, b)} = {txs[i].nonce : i \in DOMAIN txs}
    BY <1>1, <1>2, <1>3, <2>1 DEF BlocksWhole
  <2> QED
    BY <1>3, <2>1, <2>2
<1>5. PICK i \in DOMAIN txs :
        txs[i].nonce = m.nonce /\ i = CHOOSE j \in DOMAIN txs : txs[j].nonce = m.nonce
  BY <1>4
<1>6. Vouched(d, l, 0, {}, m)
  BY DEF MintsVouched
<1>7. k \in DOMAIN l /\ id.block_index < m.block_index
  BY <1>2, <1>6 DEF Vouched
<1>8. PICK x \in d.mint_config_txs :
        /\ x.block_index = id.block_index /\ x.token_id = id.token_id
        /\ id.position \in DOMAIN x.configs
        /\ \A j \in DOMAIN txs :
             txs[j].nonce = m.nonce => x.configs[id.position].signer_set \in txs[j].signed_by
  BY <1>2, <1>6 DEF Vouched
<1>9. x \in get_by_id(d, id) /\ \A y \in get_by_id(d, id) : y = x
  BY <1>8 DEF get_by_id
<1>10. Verified(l, m, x.configs[id.position])
  BY <1>2, <1>5, <1>7, <1>8 DEF Verified
<1> QED
  BY <1>7, <1>8, <1>9, <1>10

\* A step of mint_info leaves the block and the request alone.
SameRequest(h, h2) ==
  h2.req = h.req /\ h2.since = h.since /\ h2.block = h.block

ReadsTable(h, h2, d, b) ==
  \/ /\ h.pc = "mint_txs" /\ h2.pc = "mint_config_txs"
     /\ h2.mint_txs = MintRowsOf(d, b)
  \/ /\ h.pc = "mint_config_txs" /\ h2.pc = "mint_configs"
     /\ h2.mint_txs = h.mint_txs /\ h2.mint_config_txs = ConfigRowsOf(d, b)

\* mint_info reads the tables of its block.
LEMMA MintReadStep ==
  ASSUME NEW h, NEW h2, NEW d, NEW l, NEW b \in Nat, Readable(d, l), MintHandler(h, d, l),
         b = BlockAsked(h), h.since \in Nat, h.since <= d.counters["num_blocks_synced"],
         SameRequest(h, h2), h2.status = h.status, h2.mints_with_configs = h.mints_with_configs,
         h2.configs_of = h.configs_of, ReadsTable(h, h2, d, b)
  PROVE  MintHandler(h2, d, l)
<1>1. BlockAsked(h2) = b
  BY DEF SameRequest, BlockAsked
<1>2. h2.configs_of = {} /\ h2.mints_with_configs = {} /\ h2.status = "ok" /\ h2.block = {b}
  <2>1. h.pc \in {"mint_txs", "mint_config_txs"}
    BY DEF ReadsTable
  <2> QED
    BY <2>1 DEF MintHandler, SameRequest
<1>3. CASE h.pc = "mint_txs"
  <2>1. h2.pc = "mint_config_txs" /\ h2.mint_txs = MintRowsOf(d, b)
    BY <1>3 DEF ReadsTable
  <2> QED
    BY <1>1, <1>2, <2>1 DEF MintHandler
<1>4. CASE h.pc = "mint_config_txs"
  <2>1. /\ h2.pc = "mint_configs"
        /\ h2.mint_txs = h.mint_txs /\ h2.mint_config_txs = ConfigRowsOf(d, b)
    BY <1>4 DEF ReadsTable
  <2> QED
    BY <1>1, <1>2, <1>4, <2>1 DEF MintHandler, SameRequest
<1> QED
  BY <1>3, <1>4 DEF ReadsTable

\* It joins the config transactions with their configs, and starts on the mints.
LEMMA MintConfigsStep ==
  ASSUME NEW h, NEW h2, NEW d, NEW l, MintHandler(h, d, l), SameRequest(h, h2),
         h.pc = "mint_configs", h2.status = h.status, h2.mint_txs = h.mint_txs,
         h2.mint_config_txs = h.mint_config_txs, h2.mints_with_configs = h.mints_with_configs,
         \/ h2.pc = h.pc
         \/ /\ h.mint_config_txs = {r.mint_config_tx : r \in h.configs_of}
            /\ h2.pc = "signers" /\ h2.todo = h.mint_txs /\ h2.configs_of = h.configs_of
  PROVE  MintHandler(h2, d, l)
<1>1. BlockAsked(h2) = BlockAsked(h)
  BY DEF SameRequest, BlockAsked
<1>2. h2.mints_with_configs = {}
  BY DEF MintHandler
<1>3. CASE h2.pc = h.pc
  BY <1>1, <1>2, <1>3 DEF MintHandler, SameRequest
<1>4. CASE h2.pc # h.pc
  BY <1>1, <1>2, <1>4 DEF MintHandler, SameRequest
<1> QED
  BY <1>3, <1>4

\* What does not change while it works on the mints.
SameTables(h, h2) ==
  /\ h2.mint_txs = h.mint_txs /\ h2.mint_config_txs = h.mint_config_txs
  /\ h2.configs_of = h.configs_of

\* It fails on a mint without a config.
LEMMA MintFailStep ==
  ASSUME NEW h, NEW h2, NEW d, NEW l, MintHandler(h, d, l), MintsVouched(d, l, 0, {}),
         SameRequest(h, h2), SameTables(h, h2), h.pc = "signers", h2.pc = "done",
         h2.status = "object_not_saved", h2.mints_with_configs = h.mints_with_configs,
         NEW m \in h.todo, m.mint_config_id = {}
  PROVE  MintHandler(h2, d, l)
<1>1. BlockAsked(h2) = BlockAsked(h)
  BY DEF SameRequest, BlockAsked
<1>2. m \in MintRowsOf(d, BlockAsked(h))
  BY DEF MintHandler
<1>3. \E y \in d.mint_txs : y.block_index = BlockAsked(h) /\ y.mint_config_id = {}
  BY <1>2 DEF MintRowsOf
<1>4. d.counters["num_mint_txs_without_matching_mint_config"] > 0
  BY <1>3 DEF MintsVouched
<1> QED
  BY <1>1, <1>3, <1>4 DEF MintHandler, SameRequest, SameTables

\* It goes on with the mint it is at, or is done.
LEMMA MintGoStep ==
  ASSUME NEW h, NEW h2, NEW d, NEW l, MintHandler(h, d, l), SameRequest(h, h2),
         SameTables(h, h2), h2.status = h.status,
         h2.mints_with_configs = h.mints_with_configs, h2.todo = h.todo,
         \/ /\ h.pc \in {"signers", "mint_config"} /\ h2.pc \in {"mint_config", "mint_config_tx"}
            /\ h.todo # {} /\ (CHOOSE m \in h.todo : TRUE).mint_config_id # {}
         \/ h.pc = "signers" /\ h.todo = {} /\ h2.pc = "done"
  PROVE  MintHandler(h2, d, l)
<1>1. BlockAsked(h2) = BlockAsked(h)
  BY DEF SameRequest, BlockAsked
<1>2. CASE h2.pc = "done"
  BY <1>1, <1>2 DEF MintHandler, SameRequest, SameTables
<1>3. CASE h2.pc # "done"
  BY <1>1, <1>3 DEF MintHandler, SameRequest, SameTables
<1> QED
  BY <1>2, <1>3

\* It joins a mint with its config.
LEMMA MintJoinStep ==
  ASSUME NEW h, NEW h2, NEW d, NEW l, MintHandler(h, d, l), SameRequest(h, h2),
         SameTables(h, h2), h.pc = "mint_config_tx", h2.pc = "signers", h2.status = h.status,
         NEW m \in h.todo, NEW S, NEW pos, S # {},
         h2.todo = h.todo \ {m},
         h2.mints_with_configs = h.mints_with_configs \cup
           {[mint_tx |-> m, mint_config_tx |-> x, mint_config |-> x.configs[pos]] : x \in S},
         \A x \in S : x.block_index < BlockAsked(h) /\ Verified(l, m, x.configs[pos])
  PROVE  MintHandler(h2, d, l)
<1>1. BlockAsked(h2) = BlockAsked(h)
  BY DEF SameRequest, BlockAsked
<1>2. \A y \in h2.mints_with_configs :
        /\ y.mint_config_tx.block_index < BlockAsked(h)
        /\ Verified(l, y.mint_tx, y.mint_config)
  BY DEF MintHandler
<1>3. h2.todo \subseteq h2.mint_txs
  BY DEF MintHandler, SameTables
<1>4. {y.mint_tx : y \in h2.mints_with_configs} = h2.mint_txs \ h2.todo
  <2>1. h.todo \subseteq h.mint_txs
    BY DEF MintHandler
  <2>2. {y.mint_tx : y \in h.mints_with_configs} = h.mint_txs \ h.todo
    BY DEF MintHandler
  <2>3. {y.mint_tx : y \in h2.mints_with_configs}
          = {y.mint_tx : y \in h.mints_with_configs} \cup {m}
    <3>1. PICK T : T = {[mint_tx |-> m, mint_config_tx |-> x, mint_config |-> x.configs[pos]] :
                          x \in S}
      OBVIOUS
    <3>2. (\A y \in T : y.mint_tx = m) /\ \E y \in T : y.mint_tx = m
      <4>1. \A y \in T : y.mint_tx = m
        BY <3>1
      <4>2. PICK x \in S : TRUE
        OBVIOUS
      <4>3. [mint_tx |-> m, mint_config_tx |-> x, mint_config |-> x.configs[pos]] \in T
        BY <3>1, <4>2
      <4> QED
        BY <4>1, <4>3
    <3>3. h2.mints_with_configs = h.mints_with_configs \cup T
      BY <3>1
    <3>4. PICK A, B : A = h.mints_with_configs /\ B = h2.mints_with_configs
      OBVIOUS
    <3>5. B = A \cup T
      BY <3>3, <3>4
    <3>6. {y.mint_tx : y \in B} = {y.mint_tx : y \in A} \cup {m}
      BY ONLY <3>2, <3>5
    <3> QED
      BY <3>4, <3>6
  <2>4. h.mint_txs \ h2.todo = (h.mint_txs \ h.todo) \cup {m}
    BY <2>1
  <2> QED
    BY <2>2, <2>3, <2>4 DEF SameTables
<1> QED
  BY <1>1, <1>2, <1>3, <1>4 DEF MintHandler, SameRequest, SameTables

\* mint_info: every step keeps what the handler knows.
LEMMA MintStep ==
  ASSUME HttpInv, Readable(db, ledger), MintsVouched(db, ledger, 0, {}), DbInv(db),
         NEW c \in Clients, HandlerStep(c), handler[c].req.route = "mint_info"
  PROVE  MintHandler(handler'[c], db, ledger)
<1>1. PICK h, h2, b : h = handler[c] /\ h2 = handler'[c] /\ b = BlockAsked(h)
  OBVIOUS
<1>2. /\ DOMAIN handler = Clients /\ DOMAIN h = HandlerFields
      /\ h.since \in Nat /\ h.since <= db.counters["num_blocks_synced"]
      /\ h.pc # "idle" => MintHandler(h, db, ledger)
  BY <1>1 DEF HttpInv, HandlerInv
<1>3. BlockOf(c) = b
  BY <1>1 DEF BlockOf, BlockAsked
<1>4. \/ GetMintTxs(c) \/ GetMintConfigTxs(c) \/ GetMintConfigs(c) \/ MintConfigsDone(c)
      \/ GetSigners(c) \/ GetMintConfig(c) \/ GetMintConfigTx(c) \/ MintInfoDone(c)
  BY <1>1, <1>2
     DEF HandlerStep, MintHandler, LastSyncedBlock, GetBlockAuditData, GetBalances,
         CmdGetBlockAuditData, GetMintTxs, GetMintConfigTxs, GetMintConfigs, MintConfigsDone,
         GetSigners, GetMintConfig, GetMintConfigTx, MintInfoDone, get_mint_total, get_burn_total
<1>5. h.pc # "idle"
  BY <1>1, <1>4
     DEF GetMintTxs, GetMintConfigTxs, GetMintConfigs, MintConfigsDone,
         GetSigners, GetMintConfig, GetMintConfigTx, MintInfoDone
<1>6. MintHandler(h, db, ledger) /\ b \in Nat
  BY <1>1, <1>2, <1>5 DEF MintHandler
<1>7. CASE GetMintTxs(c)
  <2>1. h.pc = "mint_txs" /\ h2 = [h EXCEPT !.pc = NextQuery("mint_info", "mint_txs"),
                                     !.mint_txs = MintRowsOf(db, b)]
    <3>1. get_mint_txs_by_block_index(db, BlockOf(c)) = MintRowsOf(db, b)
      BY <1>3 DEF get_mint_txs_by_block_index, MintRowsOf
    <3> QED
      BY <1>1, <1>2, <1>7, <3>1 DEF GetMintTxs, Continue
  <2>2. /\ SameRequest(h, h2) /\ h2.status = h.status /\ h2.pc = "mint_config_txs"
        /\ h2.mints_with_configs = h.mints_with_configs /\ h2.configs_of = h.configs_of
        /\ h2.mint_txs = MintRowsOf(db, b)
    BY <1>2, <2>1, QueryOrder DEF HandlerFields, SameRequest
  <2>3. ReadsTable(h, h2, db, b)
    BY <2>1, <2>2 DEF ReadsTable
  <2> QED
    BY <1>1, <1>2, <1>6, <2>2, <2>3, MintReadStep
<1>8. CASE GetMintConfigTxs(c)
  <2>1. h.pc = "mint_config_txs" /\ h2 = [h EXCEPT !.pc = NextQuery("mint_info", "mint_config_txs"),
                                            !.mint_config_txs = ConfigRowsOf(db, b)]
    <3>1. get_by_block_index(db, BlockOf(c)) = ConfigRowsOf(db, b)
      BY <1>3 DEF get_by_block_index, ConfigRowsOf
    <3> QED
      BY <1>1, <1>2, <1>8, <3>1 DEF GetMintConfigTxs, Continue
  <2>2. /\ SameRequest(h, h2) /\ h2.status = h.status /\ h2.pc = "mint_configs"
        /\ h2.mints_with_configs = h.mints_with_configs /\ h2.configs_of = h.configs_of
        /\ h2.mint_txs = h.mint_txs /\ h2.mint_config_txs = ConfigRowsOf(db, b)
    BY <1>2, <2>1, QueryOrder DEF HandlerFields, SameRequest
  <2>3. ReadsTable(h, h2, db, b)
    BY <2>1, <2>2 DEF ReadsTable
  <2> QED
    BY <1>1, <1>2, <1>6, <2>2, <2>3, MintReadStep
<1>9. CASE GetMintConfigs(c)
  <2>1. PICK S : h.pc = "mint_configs" /\ h2 = [h EXCEPT !.configs_of = S]
    BY <1>1, <1>2, <1>9 DEF GetMintConfigs, Continue
  <2>2. /\ SameRequest(h, h2) /\ h2.status = h.status /\ h2.pc = h.pc
        /\ h2.mints_with_configs = h.mints_with_configs
        /\ h2.mint_txs = h.mint_txs /\ h2.mint_config_txs = h.mint_config_txs
    BY <1>2, <2>1 DEF HandlerFields, SameRequest
  <2> QED
    BY <1>1, <1>6, <2>1, <2>2, MintConfigsStep
<1>10. CASE MintConfigsDone(c)
  <2>1. /\ h.pc = "mint_configs" /\ h2 = [h EXCEPT !.pc = "signers", !.todo = h.mint_txs]
        /\ h.mint_config_txs = {r.mint_config_tx : r \in h.configs_of}
    BY <1>1, <1>2, <1>10 DEF MintConfigsDone, Continue
  <2>2. /\ SameRequest(h, h2) /\ h2.status = h.status /\ h2.pc = "signers"
        /\ h2.mints_with_configs = h.mints_with_configs /\ h2.configs_of = h.configs_of
        /\ h2.mint_txs = h.mint_txs /\ h2.mint_config_txs = h.mint_config_txs
        /\ h2.todo = h.mint_txs
    BY <1>2, <2>1 DEF HandlerFields, SameRequest
  <2> QED
    BY <1>1, <1>6, <2>1, <2>2, MintConfigsStep
<1>11. CASE MintInfoDone(c)
  <2>1. h.pc = "signers" /\ h.todo = {} /\ h2 = [h EXCEPT !.pc = "done"]
    BY <1>1, <1>2, <1>11 DEF MintInfoDone, Reply
  <2>2. /\ SameRequest(h, h2) /\ SameTables(h, h2) /\ h2.status = h.status /\ h2.pc = "done"
        /\ h2.mints_with_configs = h.mints_with_configs /\ h2.todo = h.todo
    BY <1>2, <2>1 DEF HandlerFields, SameRequest, SameTables
  <2> QED
    BY <1>1, <1>6, <2>1, <2>2, MintGoStep
<1>12. ASSUME GetSigners(c) \/ GetMintConfig(c) \/ GetMintConfigTx(c)
       PROVE  /\ h.todo # {} /\ MintOf(c) \in h.todo /\ MintOf(c) = CHOOSE m \in h.todo : TRUE
              /\ MintOf(c) \in db.mint_txs /\ MintOf(c).block_index = b
              /\ h.pc # "signers" => MintOf(c).mint_config_id # {}
  <2>1. h.todo # {} /\ h.pc \in {"signers", "mint_config", "mint_config_tx"}
    BY <1>1, <1>6, <1>12 DEF GetSigners, GetMintConfig, GetMintConfigTx, MintHandler
  <2>2. MintOf(c) \in h.todo /\ MintOf(c) = CHOOSE m \in h.todo : TRUE
    BY <1>1, <2>1 DEF MintOf
  <2>3. MintOf(c) \in MintRowsOf(db, b)
    BY <1>1, <1>6, <2>1, <2>2 DEF MintHandler
  <2>4. h.pc # "signers" => MintOf(c).mint_config_id # {}
    BY <1>6, <2>1, <2>2 DEF MintHandler
  <2> QED
    BY <2>1, <2>2, <2>3, <2>4 DEF MintRowsOf
<1>13. ASSUME GetSigners(c) \/ GetMintConfig(c) \/ GetMintConfigTx(c),
              MintOf(c).mint_config_id # {}
       PROVE  /\ get_by_id(db, ConfigId(c)) # {}
              /\ \A x \in get_by_id(db, ConfigId(c)) :
                   x.block_index < b /\ Verified(ledger, MintOf(c), x.configs[ConfigId(c).position])
  <2>1. PICK m, id : m = MintOf(c) /\ id = ConfigId(c)
    OBVIOUS
  <2>2. m \in db.mint_txs /\ m.block_index = b /\ id \in m.mint_config_id
    BY <1>12, <1>13, <2>1 DEF ConfigId
  <2>3. \A x, y \in db.mint_config_txs :
          x.block_index = y.block_index /\ x.token_id = y.token_id => x = y
    BY DEF DbInv
  <2>4. /\ get_by_id(db, id) # {}
        /\ \A x \in get_by_id(db, id) :
             x.block_index < m.block_index /\ Verified(ledger, m, x.configs[id.position])
    BY <2>2, <2>3, ConfigIsFound
  <2> QED
    BY <2>1, <2>2, <2>4
<1>14. CASE GetSigners(c)
  <2>1. h.pc = "signers" /\ h.todo # {}
    BY <1>1, <1>14 DEF GetSigners
  <2>2. CASE MintOf(c).mint_config_id = {}
    <3>1. h2 = [[h EXCEPT !.status = "object_not_saved"] EXCEPT !.pc = "done"]
      BY <1>1, <1>2, <1>14, <2>2 DEF GetSigners, Fail, Reply
    <3>2. /\ SameRequest(h, h2) /\ SameTables(h, h2) /\ h2.status = "object_not_saved"
          /\ h2.pc = "done" /\ h2.mints_with_configs = h.mints_with_configs
      BY <1>2, <3>1 DEF HandlerFields, SameRequest, SameTables
    <3>3. MintOf(c) \in h.todo
      BY <1>12, <1>14
    <3> QED
      BY <1>1, <1>6, <2>1, <2>2, <3>2, <3>3, MintFailStep
  <2>3. CASE MintOf(c).mint_config_id # {}
    <3>1. PICK x \in get_by_id(db, ConfigId(c)) :
            Verified(ledger, MintOf(c), x.configs[ConfigId(c).position])
      BY <1>13, <1>14, <2>3
    <3>2. x.configs[ConfigId(c).position].signer_set \in decode(MintOf(c)).signed_by
      BY <3>1 DEF Verified, decode
    <3>3. Continue(c, [handler[c] EXCEPT !.pc = "mint_config"])
      BY <1>14, <2>3, <3>1, <3>2 DEF GetSigners
    <3>4. h2 = [h EXCEPT !.pc = "mint_config"]
      BY <1>1, <1>2, <3>3 DEF Continue
    <3>5. /\ SameRequest(h, h2) /\ SameTables(h, h2) /\ h2.status = h.status
          /\ h2.pc = "mint_config" /\ h2.mints_with_configs = h.mints_with_configs
          /\ h2.todo = h.todo
      BY <1>2, <3>4 DEF HandlerFields, SameRequest, SameTables
    <3>6. (CHOOSE m \in h.todo : TRUE).mint_config_id # {}
      BY <1>12, <1>14, <2>3
    <3> QED
      BY <1>1, <1>6, <2>1, <3>5, <3>6, MintGoStep
  <2> QED
    BY <2>2, <2>3
<1>15. CASE GetMintConfig(c)
  <2>1. h.pc = "mint_config"
    BY <1>1, <1>15 DEF GetMintConfig
  <2>2. h.todo # {} /\ (CHOOSE m \in h.todo : TRUE).mint_config_id # {}
    BY <1>6, <2>1 DEF MintHandler
  <2>3. get_by_id(db, ConfigId(c)) # {}
    BY <1>12, <1>13, <1>15, <2>1
  <2>4. h2 = [h EXCEPT !.pc = "mint_config_tx"]
    BY <1>1, <1>2, <1>15, <2>3 DEF GetMintConfig, Continue
  <2>5. /\ SameRequest(h, h2) /\ SameTables(h, h2) /\ h2.status = h.status
        /\ h2.pc = "mint_config_tx" /\ h2.mints_with_configs = h.mints_with_configs
        /\ h2.todo = h.todo
    BY <1>2, <2>4 DEF HandlerFields, SameRequest, SameTables
  <2> QED
    BY <1>1, <1>6, <2>1, <2>2, <2>5, MintGoStep
<1>16. CASE GetMintConfigTx(c)
  <2>1. h.pc = "mint_config_tx"
    BY <1>1, <1>16 DEF GetMintConfigTx
  <2>2. PICK m, S, pos :
          m = MintOf(c) /\ S = get_by_id(db, ConfigId(c)) /\ pos = ConfigId(c).position
    OBVIOUS
  <2>3. /\ m \in h.todo /\ S # {}
        /\ \A x \in S : x.block_index < b /\ Verified(ledger, m, x.configs[pos])
    BY <1>12, <1>13, <1>16, <2>1, <2>2
  <2>4. PICK W : W = h.mints_with_configs \cup
          {[mint_tx |-> m, mint_config_tx |-> x, mint_config |-> x.configs[pos]] : x \in S}
    OBVIOUS
  <2>5. h2 = [h EXCEPT !.pc = "signers", !.todo = h.todo \ {m}, !.mints_with_configs = W]
    BY <1>1, <1>2, <1>16, <2>2, <2>4 DEF GetMintConfigTx, Continue
  <2>6. /\ SameRequest(h, h2) /\ SameTables(h, h2) /\ h2.status = h.status
        /\ h2.pc = "signers" /\ h2.todo = h.todo \ {m} /\ h2.mints_with_configs = W
    BY <1>2, <2>5 DEF HandlerFields, SameRequest, SameTables
  <2> QED
    BY <1>1, <1>6, <2>1, <2>3, <2>4, <2>6, MintJoinStep
<1> QED
  BY <1>4, <1>7, <1>8, <1>9, <1>10, <1>11, <1>14, <1>15, <1>16

\* A request starts with nothing read.
LEMMA AskStep ==
  ASSUME Readable(db, ledger), NEW c \in Clients, NEW req \in Requests, Ask(c, req), HttpInv
  PROVE  /\ UNCHANGED vars /\ DOMAIN handler' = Clients
         /\ \A e \in Clients : e # c => handler'[e] = handler[e]
         /\ HandlerInv(handler'[c], db, ledger)
<1>1. DOMAIN handler = Clients
  BY DEF HttpInv
<1>2. /\ UNCHANGED vars /\ DOMAIN handler' = Clients
      /\ \A e \in Clients : e # c => handler'[e] = handler[e]
      /\ handler'[c] = NewHandler(FirstPc(req), req, num_blocks_synced(db))
  BY <1>1 DEF Ask
<1>3. PICK n \in Nat : n = db.counters["num_blocks_synced"] /\ n = num_blocks_synced(db)
  BY SyncedBlocks
<1>4. PICK h : h = NewHandler(FirstPc(req), req, n)
  OBVIOUS
<1>5. /\ DOMAIN h = HandlerFields /\ h.req = req /\ h.since = n /\ h.pc = FirstPc(req)
      /\ h.status = "ok" /\ h.mint_txs = {} /\ h.configs_of = {} /\ h.mints_with_configs = {}
      /\ req.route # "ledger_balance" => h.block = req.block
  BY <1>4 DEF NewHandler, HandlerFields
<1>6. ASSUME req.route = "block_audit_data" PROVE BlockHandler(h, db)
  <2>1. h.block = req.block
    BY <1>5, <1>6
  <2>2. req.block = {} \/ \E b \in Nat : req.block = {b}
    BY <1>6, RequestFacts
  <2>3. FirstPc(req) = IF req.via = "cli" THEN "cli" ELSE IF req.block = {} THEN "last" ELSE "get"
    BY <1>6 DEF FirstPc
  <2>4. req.block # {} => h.block = {BlockAsked(h)} /\ BlockAsked(h) \in Nat
    BY <2>1, <2>2 DEF BlockAsked
  <2> QED
    BY <1>5, <2>1, <2>3, <2>4 DEF BlockHandler
<1>7. ASSUME req.route = "mint_info" PROVE MintHandler(h, db, ledger)
  <2>1. PICK b \in Nat : req.block = {b}
    BY <1>7, RequestFacts
  <2>2. h.block = {b} /\ BlockAsked(h) = b
    BY <1>5, <1>7, <2>1 DEF BlockAsked
  <2>3. FirstPc(req) = "mint_txs"
    BY <1>7, QueryOrder DEF FirstPc
  <2> QED
    BY <1>5, <2>2, <2>3 DEF MintHandler
<1>8. HandlerInv(h, db, ledger)
  BY <1>3, <1>5, <1>6, <1>7 DEF HandlerInv
<1> QED
  BY <1>2, <1>3, <1>4, <1>8

\* What the auditor guarantees to its readers.
Served == IInv /\ UnitInv /\ PrefixInv /\ RowInv

\* The auditor runs as if nobody asked.
LEMMA AuditorRuns == [HttpNext]_httpVars => [Next]_vars
<1>1. ASSUME NEW c \in Clients, HandlerStep(c) PROVE UNCHANGED vars
  BY <1>1
     DEF HandlerStep, LastSyncedBlock, GetBlockAuditData, GetBalances, CmdGetBlockAuditData,
         GetMintTxs, GetMintConfigTxs, GetMintConfigs, MintConfigsDone, GetSigners,
         GetMintConfig, GetMintConfigTx, MintInfoDone, get_mint_total, get_burn_total
<1> QED
  BY <1>1 DEF HttpNext, httpVars, Ask

\* What it guarantees holds while requests are served.
LEMMA AuditorServes == HttpSpec => []Served
<1>1. HttpInit => Init
  BY DEF HttpInit
<1>2. HttpSpec => Spec
  BY <1>1, AuditorRuns, PTL DEF HttpSpec, Spec
<1> QED
  BY <1>2, Invariance, UnitInvariance, PrefixInvariance, RowInvariance, PTL DEF Served

\* Between two states of the auditor the database and the ledger only grow.
LEMMA ServedLater ==
  ASSUME Served, Served', [Next]_vars
  PROVE  Later(db, ledger, db', ledger')
<1>1. Readable(db, ledger)
  BY CommittedIsReadable DEF Served
<1>2. Readable(db', ledger')
  <2>1. Readable(db, ledger)'
    BY CommittedIsReadable, PTL DEF Served
  <2> QED
    BY <2>1 DEF Readable, BlocksWhole, MintRowsOf, ConfigRowsOf
<1>3. RowsStay(db, db') /\ \A k \in CounterNames : db.counters[k] <= db'.counters[k]
  BY CommittedRowsStay DEF Served
<1>4. db \in Databases /\ db' \in Databases
  BY TypeFacts DEF Served, IInv, TypeOK, LedgerTypeOK, StoreTypeOK
<1>5. DOMAIN ledger \subseteq DOMAIN ledger' /\ \A b \in DOMAIN ledger : ledger'[b] = ledger[b]
  <2>1. /\ Len(ledger) \in Nat /\ Len(ledger') \in Nat /\ Len(ledger) <= Len(ledger')
        /\ \A b \in 1 .. Len(ledger) : ledger'[b] = ledger[b]
    BY LedgerStep DEF Served
  <2>2. ledger \in Seq(Blocks) /\ ledger' \in Seq(Blocks)
    BY TypeFacts DEF Served, IInv, TypeOK, LedgerTypeOK, StoreTypeOK
  <2> QED
    BY <2>1, <2>2
<1> QED
  BY <1>1, <1>2, <1>3, <1>4, <1>5 DEF Later

\* Every step of the auditor or of a handler keeps what the handlers know.
LEMMA NextHttpInv ==
  ASSUME Served, Served', [HttpNext]_httpVars, HttpInv
  PROVE  HttpInv'
<1>1. Readable(db, ledger)
  BY CommittedIsReadable DEF Served
<1>2. MintsVouched(db, ledger, 0, {}) /\ DbInv(db)
  BY DEF Served, RowInv, IInv
<1>3. CASE UNCHANGED handler
  <2>1. \A c \in Clients : HandlerInv(handler[c], db, ledger)
    BY DEF HttpInv
  <2>2. Later(db, ledger, db', ledger')
    BY AuditorRuns, ServedLater
  <2>3. PICK d, l, d2, l2 : d = db /\ l = ledger /\ d2 = db' /\ l2 = ledger'
    OBVIOUS
  <2>4. \A c \in Clients : HandlerInv(handler[c], d2, l2)
    BY <2>1, <2>2, <2>3, HandlerStays
  <2>5. \A c \in Clients : HandlerInv(handler'[c], db', ledger')
    BY <1>3, <2>3, <2>4
  <2> QED
    BY <1>3, <2>5 DEF HttpInv
<1>4. ASSUME NEW c \in Clients, UNCHANGED vars, DOMAIN handler' = Clients,
             \A e \in Clients : e # c => handler'[e] = handler[e],
             HandlerInv(handler'[c], db, ledger)
      PROVE  HttpInv'
  <2>1. db' = db /\ ledger' = ledger
    BY <1>4 DEF vars, ledgerVars, storeVars
  <2>2. \A e \in Clients : HandlerInv(handler'[e], db, ledger)
    BY <1>4 DEF HttpInv
  <2>3. \A e \in Clients : HandlerInv(handler'[e], db', ledger')
    BY <2>1, <2>2
  <2> QED
    BY <1>4, <2>3 DEF HttpInv
<1>5. ASSUME NEW c \in Clients, NEW req \in Requests, Ask(c, req) PROVE HttpInv'
  BY <1>1, <1>4, <1>5, AskStep
<1>6. ASSUME NEW c \in Clients, HandlerStep(c) PROVE HttpInv'
  <2>1. PICK h, h2 : h = handler[c] /\ h2 = handler'[c]
    OBVIOUS
  <2>2. HandlerInv(h, db, ledger)
    BY <2>1 DEF HttpInv
  <2>3. DOMAIN h2 = HandlerFields /\ h2.req = h.req /\ h2.since = h.since
    BY <1>6, <2>1, HandlerFrame
  <2>4. h.req.route = "block_audit_data" => BlockHandler(h2, db)
    BY <1>1, <1>6, <2>1, BlockStep
  <2>5. h.req.route = "mint_info" => MintHandler(h2, db, ledger)
    BY <1>1, <1>2, <1>6, <2>1, MintStep
  <2>6. HandlerInv(h2, db, ledger)
    BY <2>2, <2>3, <2>4, <2>5 DEF HandlerInv
  <2> QED
    BY <1>4, <1>6, <2>1, <2>6, HandlerFrame
<1> QED
  BY <1>3, <1>5, <1>6 DEF HttpNext, httpVars

\* What the handlers know is true in every reachable state.
LEMMA HttpInvariance == HttpSpec => []HttpInv
<1>1. HttpInit /\ Served => HttpInv
  <2> SUFFICES ASSUME HttpInit, Served PROVE HttpInv
    OBVIOUS
  <2>1. DOMAIN handler = Clients /\ \A c \in Clients : handler[c] = IdleHandler
    BY DEF HttpInit
  <2>2. PICK h : h = IdleHandler
    OBVIOUS
  <2>3. /\ DOMAIN h = HandlerFields /\ h.pc = "idle" /\ h.since = 0
        /\ h.req = [route |-> "block_audit_data", via |-> "http", block |-> {}]
    BY <2>2 DEF IdleHandler, NewHandler, HandlerFields
  <2>4. h.req \in Requests
    BY <2>3 DEF Requests, Option
  <2>5. Readable(db, ledger)
    BY CommittedIsReadable DEF Served
  <2>6. db.counters["num_blocks_synced"] \in Nat
    BY <2>5, SyncedBlocks
  <2>7. HandlerInv(h, db, ledger)
    BY <2>3, <2>4, <2>6 DEF HandlerInv
  <2> QED
    BY <2>1, <2>2, <2>7 DEF HttpInv
<1>2. Served /\ Served' /\ [HttpNext]_httpVars /\ HttpInv => HttpInv'
  BY NextHttpInv
<1> QED
  BY <1>1, <1>2, AuditorServes, PTL DEF HttpSpec

----------------------------------------------------------------------------
(* The answers.                                                            *)

\* An answer about a block is consistent (HttpApi!BlockAnswersAreConsistent),
\* whatever is committed between the queries of the request.
THEOREM BlockAnswers == HttpSpec => []BlockAnswersAreConsistent
<1>1. HttpInv => BlockAnswersAreConsistent
  <2> SUFFICES ASSUME HttpInv, NEW c \in Clients, Answered(c, "block_audit_data")
               PROVE  LET h == handler[c]
                      IN  /\ h.status = "ok" =>
                               /\ h.req.via # "grpc" =>
                                    \E r \in db.block_balance :
                                      r.block_index = BlockOf(c) /\ h.balances = {r.balances}
                               /\ BlockOf(c) \in db.block_audit_data
                               /\ h.req.block = {} => BlockOf(c) + 1 >= h.since
                          /\ h.status # "ok" =>
                               /\ h.status = "not_found"
                               /\ h.since <= (IF h.req.block = {} THEN 0 ELSE BlockOf(c))
    BY DEF BlockAnswersAreConsistent
  <2>1. handler[c].pc = "done" /\ BlockHandler(handler[c], db)
    BY DEF HttpInv, HandlerInv, Answered
  <2>2. BlockOf(c) = BlockAsked(handler[c])
    BY DEF BlockOf, BlockAsked
  <2> QED
    BY <2>1, <2>2 DEF BlockHandler
<1> QED
  BY <1>1, HttpInvariance, PTL

\* An answer of mint_info is whole (HttpApi!MintInfoIsWhole), although its
\* tables are read one after the other.
THEOREM MintInfoAnswers == HttpSpec => []MintInfoIsWhole
<1>1. Served /\ HttpInv => MintInfoIsWhole
  <2> SUFFICES ASSUME Served, HttpInv, NEW c \in Clients, Answered(c, "mint_info"),
                      handler[c].status = "ok"
               PROVE  LET h == handler[c]
                          mints == {x.mint_tx.nonce : x \in h.mints_with_configs}
                          configTxs == {x.mint_config_tx.nonce : x \in h.configs_of}
                          none == mints = {} /\ configTxs = {}
                      IN  IF BlockOf(c) < Len(ledger)
                          THEN /\ mints \in {{}, MintNonces(BlockOf(c))}
                               /\ configTxs \in {{}, ConfigNonces(BlockOf(c))}
                               /\ (mints # {} \/ h.since > BlockOf(c)) =>
                                    configTxs = ConfigNonces(BlockOf(c))
                               /\ h.since > BlockOf(c) => mints = MintNonces(BlockOf(c))
                               /\ \A x \in h.mints_with_configs :
                                    /\ x.mint_config_tx.block_index < BlockOf(c)
                                    /\ x.mint_config.signer_set \in decode(x.mint_tx).signed_by
                          ELSE none
    BY DEF MintInfoIsWhole
  <2>1. PICK h, b : h = handler[c] /\ b = BlockOf(c)
    OBVIOUS
  <2>2. /\ h.pc = "done" /\ h.status = "ok" /\ MintHandler(h, db, ledger)
        /\ h.since \in Nat /\ h.since <= db.counters["num_blocks_synced"]
    BY <2>1 DEF HttpInv, HandlerInv, Answered
  <2>3. b = BlockAsked(h) /\ b \in Nat
    BY <2>1, <2>2 DEF BlockOf, BlockAsked, MintHandler
  <2>4. PICK n \in Nat : /\ n = db.counters["num_blocks_synced"] /\ n <= Len(ledger)
                         /\ BlocksWhole(db, ledger, n)
    BY CommittedIsReadable DEF Served, Readable
  <2>5. Len(ledger) \in Nat
    BY TypeFacts DEF Served
  <2>6. PICK M, C, mints, configTxs :
          /\ M = MintRowsOf(db, b) /\ C = ConfigRowsOf(db, b)
          /\ mints = {x.mint_tx.nonce : x \in h.mints_with_configs}
          /\ configTxs = {x.mint_config_tx.nonce : x \in h.configs_of}
    OBVIOUS
  <2>7. mints = {m.nonce : m \in h.mint_txs}
    <3>1. {x.mint_tx : x \in h.mints_with_configs} = h.mint_txs
      BY <2>2 DEF MintHandler
    <3> QED
      BY ONLY <2>6, <3>1
  <2>8. configTxs = {x.nonce : x \in h.mint_config_txs}
    <3>1. {r.mint_config_tx : r \in h.configs_of} = h.mint_config_txs
      BY <2>2 DEF MintHandler
    <3> QED
      BY ONLY <2>6, <3>1
  <2>9. /\ h.mint_txs = {} \/ h.mint_txs = M
        /\ h.since > b => h.mint_txs = M
        /\ h.mint_config_txs = {} \/ h.mint_config_txs = C
        /\ h.mint_txs # {} \/ h.since > b => h.mint_config_txs = C
    BY <2>2, <2>3, <2>6 DEF MintHandler
  <2>10. mints = {} <=> h.mint_txs = {}
    BY <2>7
  <2>11. ASSUME NEW x \in h.mints_with_configs
         PROVE  /\ x.mint_config_tx.block_index < b
                /\ x.mint_config.signer_set \in decode(x.mint_tx).signed_by
    <3>1. x.mint_config_tx.block_index < b /\ Verified(ledger, x.mint_tx, x.mint_config)
      BY <2>2, <2>3 DEF MintHandler
    <3> QED
      BY <3>1 DEF Verified, decode
  <2>12. CASE b < n
    <3>1. {m.nonce : m \in M} = MintNonces(b) /\ {x.nonce : x \in C} = ConfigNonces(b)
      <4>1. b \in 0 .. n - 1
        BY <2>3, <2>4, <2>12
      <4>2. {m.nonce : m \in MintRowsOf(db, b)} = MintNonces(b)
        BY <2>4, <4>1 DEF BlocksWhole, MintNonces
      <4>3. {x.nonce : x \in ConfigRowsOf(db, b)} = ConfigNonces(b)
        BY <2>4, <4>1 DEF BlocksWhole, ConfigNonces
      <4> QED
        BY <2>6, <4>2, <4>3
    <3>2. mints = {} \/ mints = MintNonces(b)
      BY <2>7, <2>9, <3>1
    <3>3. configTxs = {} \/ configTxs = ConfigNonces(b)
      BY <2>8, <2>9, <3>1
    <3>4. mints # {} \/ h.since > b => configTxs = ConfigNonces(b)
      BY <2>8, <2>9, <2>10, <3>1
    <3>5. h.since > b => mints = MintNonces(b)
      BY <2>7, <2>9, <3>1
    <3>6. b < Len(ledger)
      BY <2>3, <2>4, <2>5, <2>12
    <3> QED
      BY <2>1, <2>6, <2>11, <3>2, <3>3, <3>4, <3>5, <3>6
  <2>13. CASE b >= n
    <3>1. M = {} /\ C = {}
      <4>1. (\A m \in db.mint_txs : m.block_index # b) /\ \A x \in db.mint_config_txs : x.block_index # b
        BY <2>3, <2>4, <2>13 DEF BlocksWhole
      <4> QED
        BY <2>6, <4>1 DEF MintRowsOf, ConfigRowsOf
    <3>2. mints = {} /\ configTxs = {} /\ ~(h.since > b)
      BY <2>2, <2>3, <2>4, <2>7, <2>8, <2>9, <2>13, <3>1
    <3> QED
      BY <2>1, <2>6, <2>11, <3>2
  <2>14. b < n \/ b >= n
    BY <2>3, <2>4
  <2> QED
    BY <2>12, <2>13, <2>14
<1> QED
  BY <1>1, AuditorServes, HttpInvariance, PTL

\* mint_info fails only on a mint that is attributed to no config
\* (HttpApi!MintInfoFailsOnlyUnattributed).
THEOREM MintInfoFailures == HttpSpec => []MintInfoFailsOnlyUnattributed
<1>1. HttpInv => MintInfoFailsOnlyUnattributed
  <2> SUFFICES ASSUME HttpInv, NEW c \in Clients, Answered(c, "mint_info"),
                      handler[c].status # "ok"
               PROVE  /\ handler[c].status = "object_not_saved"
                      /\ \E m \in db.mint_txs : m.block_index = BlockOf(c) /\ m.mint_config_id = {}
                      /\ db.counters["num_mint_txs_without_matching_mint_config"] > 0
    BY DEF MintInfoFailsOnlyUnattributed
  <2>1. handler[c].pc = "done" /\ MintHandler(handler[c], db, ledger)
    BY DEF HttpInv, HandlerInv, Answered
  <2>2. BlockOf(c) = BlockAsked(handler[c])
    BY DEF BlockOf, BlockAsked
  <2> QED
    BY <2>1, <2>2 DEF MintHandler
<1> QED
  BY <1>1, HttpInvariance, PTL

----------------------------------------------------------------------------
(* Two sums, read one after the other.                                     *)

\* The tables that are summed up hold finitely many rows.
FiniteBurns == IsFiniteSet(db.burn_tx_outs) /\ IsFiniteSet(wdb.burn_tx_outs)

\* A step stores at most one burn.
LEMMA NextFiniteBurns ==
  ASSUME IInv, IInv', [Next]_vars, FiniteBurns
  PROVE  FiniteBurns'
<1>1. CASE Idles \/ Begins \/ Commits
  BY <1>1 DEF Idles, Begins, Commits, FiniteBurns
<1>2. CASE \E p \in Procs : ScanProceeds(p)
  <2>1. PICK p \in Procs : ScanProceeds(p)
    BY <1>2
  <2>2. PICK s, s2, c : s = scan[p] /\ s2 = scan'[p] /\ c = Contents(p)
    OBVIOUS
  <2>3. c \in BlockContents /\ ScanMove(s, s2, wdb, wdb', c) /\ db' = db /\ wdb \in Databases
    BY <2>1, <2>2, ContentsType, TypeFacts DEF ScanProceeds, ScanInTx
  <2>4. \/ wdb'.burn_tx_outs = wdb.burn_tx_outs
        \/ \E b : wdb'.burn_tx_outs = wdb.burn_tx_outs \cup {b}
    <3>1. CASE ConfigMove(s, s2, wdb, wdb', c)
      BY <3>1 DEF ConfigMove, StoresConfig, Keeps, AllBut, Fields
    <3>2. CASE MintMove(s, s2, wdb, wdb', c)
      BY <3>2 DEF MintMove, StoresMint, Keeps, AllBut, Fields
    <3>3. CASE BurnMove(s, s2, wdb, wdb', c)
      BY <3>3 DEF BurnMove, StoresBurn
    <3>4. CASE FinishMove(s, s2, wdb, wdb', c)
      BY <3>4 DEF FinishMove, FinishesBlock, Keeps, AllBut, Fields
    <3>5. CASE /\ ~ConfigMove(s, s2, wdb, wdb', c) /\ ~MintMove(s, s2, wdb, wdb', c)
               /\ ~BurnMove(s, s2, wdb, wdb', c) /\ ~FinishMove(s, s2, wdb, wdb', c)
      BY <2>3, <3>5, ScanMoveKeepsBlocks DEF Keeps, LedgerTables
    <3> QED
      BY <3>1, <3>2, <3>3, <3>4, <3>5
  <2> QED
    BY <2>3, <2>4, FS_AddElement DEF FiniteBurns
<1>3. CASE \E t \in Workers : WorkProceeds(t)
  <2>1. PICK t \in Workers : WorkProceeds(t)
    BY <1>3
  <2>2. PICK k \in DOMAIN Config : audited_safe(t) = Config[k]
    BY SafeOfThread
  <2>3. WorkMove(work[t], work'[t], wdb, wdb', Tx(t), Config[k]) /\ db' = db /\ wdb \in Databases
    BY <2>1, <2>2, TypeFacts DEF WorkProceeds
  <2>4. wdb'.burn_tx_outs = wdb.burn_tx_outs
    BY <2>3, WorkMoveKeepsBlocks DEF Keeps, LedgerTables
  <2> QED
    BY <2>3, <2>4 DEF FiniteBurns
<1> QED
  BY <1>1, <1>2, <1>3, StepCases

\* So a sum of amounts is a number.
LEMMA BurnsInvariance == Spec => []FiniteBurns
<1>1. Init => FiniteBurns
  BY FS_EmptySet DEF Init, StoreInit, EmptyDb, FiniteBurns
<1>2. IInv /\ IInv' /\ [Next]_vars /\ FiniteBurns => FiniteBurns'
  BY NextFiniteBurns
<1> QED
  BY <1>1, <1>2, Invariance, PTL DEF Spec

\* What is summed up.
Summable(d) == d \in Databases /\ IsFiniteSet(d.mint_txs) /\ IsFiniteSet(d.burn_tx_outs)

\* The committed rows can be summed up.
LEMMA CommittedIsSummable ==
  ASSUME Served, FiniteBurns
  PROVE  Summable(db)
<1>1. db \in Databases /\ wdb \in Databases
  BY TypeFacts DEF Served
<1>2. IsFiniteSet(db.mint_txs)
  BY <1>1, PrefixMeans DEF Served, PrefixForm, Balanced
<1> QED
  BY <1>1, <1>2 DEF Summable, FiniteBurns

\* The totals are numbers, and the mints only add up.
LEMMA TotalsGrow ==
  ASSUME NEW d, Summable(d), NEW d2, Summable(d2), d.mint_txs \subseteq d2.mint_txs, NEW token
  PROVE  /\ MintTotal(d, token) \in Nat /\ BurnTotal(d, token) \in Nat
         /\ MintTotal(d2, token) \in Nat /\ MintTotal(d, token) <= MintTotal(d2, token)
<1>1. PICK M, M2, B : /\ M = {m \in d.mint_txs : m.token_id = token}
                      /\ M2 = {m \in d2.mint_txs : m.token_id = token}
                      /\ B = {b \in d.burn_tx_outs : b.token_id = token}
  OBVIOUS
<1>2. M \in SUBSET M2 /\ IsFiniteSet(M2) /\ IsFiniteSet(B)
  BY <1>1, FS_Subset DEF Summable
<1>3. AmountsAreNat(M2) /\ AmountsAreNat(B)
  BY <1>1, DbAssumption DEF Summable, Databases, AmountsAreNat, MintTxRows, BurnTxOutRows, U64
<1>4. SumOfAmounts(M2) \in Nat /\ SumOfAmounts(M) \in Nat /\ SumOfAmounts(M) <= SumOfAmounts(M2)
  BY <1>2, <1>3, AmountSums
<1>5. SumOfAmounts(B) \in Nat
  BY <1>2, <1>3, AmountSums
<1> QED
  BY <1>1, <1>4, <1>5 DEF MintTotal, BurnTotal

\* A handler of ledger_balance that has read the first sum: mints that are
\* committed later can only add to the total.
TotalHandler(h, d) ==
  /\ h.pc \in {"mint_total", "burn_total", "done"}
  /\ h.pc = "burn_total" =>
       h.mint_total \in Nat /\ h.mint_total <= MintTotal(d, h.req.token_id)

TotalInv ==
  \A c \in Clients : handler[c].req.route = "ledger_balance" => TotalHandler(handler[c], db)

\* The order of the two sums.
LEMMA TotalOrder ==
  /\ Queries("ledger_balance")[1] = "mint_total"
  /\ NextQuery("ledger_balance", "mint_total") = "burn_total"
  /\ NextQuery("ledger_balance", "burn_total") = "done"
<1>1. Queries("ledger_balance") = <<"mint_total", "burn_total", "done">>
  BY DEF Queries
<1>2. PICK q : q = <<"mint_total", "burn_total", "done">>
  OBVIOUS
<1>3. /\ DOMAIN q = 1 .. 3
      /\ q[1] = "mint_total" /\ q[2] = "burn_total" /\ q[3] = "done"
  BY <1>2
<1>4. (CHOOSE i \in DOMAIN q : q[i] = "mint_total") = 1
  <2>1. \A i \in DOMAIN q : q[i] = "mint_total" <=> i = 1
    BY <1>3
  <2> QED
    BY <1>3, <2>1
<1>5. (CHOOSE i \in DOMAIN q : q[i] = "burn_total") = 2
  <2>1. \A i \in DOMAIN q : q[i] = "burn_total" <=> i = 2
    BY <1>3
  <2> QED
    BY <1>3, <2>1
<1> QED
  BY <1>1, <1>2, <1>3, <1>4, <1>5 DEF NextQuery

\* A step of a handler of ledger_balance: the first sum, then the second.
LEMMA TotalStep ==
  ASSUME HttpInv, TotalInv, Summable(db), NEW c \in Clients, HandlerStep(c),
         handler[c].req.route = "ledger_balance"
  PROVE  LET h == handler[c]
             h2 == handler'[c]
             t == h.req.token_id
         IN  \/ /\ h.pc = "mint_total" /\ h2.pc = "burn_total" /\ h2.mint_total = MintTotal(db, t)
             \/ /\ h.pc = "burn_total" /\ h2.pc = "done"
                /\ h2.mint_total = h.mint_total /\ h2.burn_total = BurnTotal(db, t)
<1>1. PICK h, h2 : h = handler[c] /\ h2 = handler'[c]
  OBVIOUS
<1>2. /\ DOMAIN handler = Clients /\ DOMAIN h = HandlerFields
      /\ h.pc \in {"mint_total", "burn_total", "done"}
  BY <1>1 DEF HttpInv, HandlerInv, TotalInv, TotalHandler
<1>3. get_mint_total(c) \/ get_burn_total(c)
  BY <1>1, <1>2
     DEF HandlerStep, LastSyncedBlock, GetBlockAuditData, GetBalances,
         CmdGetBlockAuditData, GetMintTxs, GetMintConfigTxs, GetMintConfigs, MintConfigsDone,
         GetSigners, GetMintConfig, GetMintConfigTx, MintInfoDone
<1>4. CASE get_mint_total(c)
  <2>1. /\ h.pc = "mint_total"
        /\ h2 = [h EXCEPT !.pc = "burn_total", !.mint_total = MintTotal(db, h.req.token_id)]
    BY <1>1, <1>2, <1>4, TotalOrder DEF get_mint_total, Continue
  <2> QED
    BY <1>1, <1>2, <2>1 DEF HandlerFields
<1>5. CASE get_burn_total(c)
  <2>1. /\ h.pc = "burn_total"
        /\ h2 = [h EXCEPT !.pc = "done", !.burn_total = BurnTotal(db, h.req.token_id)]
    BY <1>1, <1>2, <1>5, TotalOrder DEF get_burn_total, Continue
  <2> QED
    BY <1>1, <1>2, <2>1 DEF HandlerFields
<1> QED
  BY <1>3, <1>4, <1>5

\* Every step keeps the first sum below the total.
LEMMA NextTotalInv ==
  ASSUME Served, Served', FiniteBurns, FiniteBurns', HttpInv, [HttpNext]_httpVars, TotalInv
  PROVE  TotalInv'
<1>1. Summable(db)
  BY CommittedIsSummable
<1>2. Summable(db')
  <2>1. Summable(db)'
    BY CommittedIsSummable, PTL
  <2> QED
    BY <2>1 DEF Summable, Databases
<1>3. db.mint_txs \subseteq db'.mint_txs
  BY AuditorRuns, ServedLater DEF Later, RowsStay, LedgerTables
<1>4. PICK d, d2 : d = db /\ d2 = db'
  OBVIOUS
<1>5. ASSUME NEW e \in Clients, handler[e].req.route = "ledger_balance",
             handler'[e] = handler[e]
      PROVE  TotalHandler(handler'[e], db')
  <2>1. PICK h : h = handler[e]
    OBVIOUS
  <2>2. TotalHandler(h, d)
    BY <1>4, <1>5, <2>1 DEF TotalInv
  <2>3. MintTotal(d, h.req.token_id) \in Nat /\ MintTotal(d2, h.req.token_id) \in Nat
        /\ MintTotal(d, h.req.token_id) <= MintTotal(d2, h.req.token_id)
    BY <1>1, <1>2, <1>3, <1>4, TotalsGrow
  <2>4. TotalHandler(h, d2)
    BY <2>2, <2>3 DEF TotalHandler
  <2> QED
    BY <1>4, <1>5, <2>1, <2>4
<1>6. CASE UNCHANGED handler
  BY <1>5, <1>6 DEF TotalInv
<1>7. ASSUME NEW c \in Clients, NEW req \in Requests, Ask(c, req) PROVE TotalInv'
  <2>1. /\ \A e \in Clients : e # c => handler'[e] = handler[e]
        /\ handler'[c] = NewHandler(FirstPc(req), req, num_blocks_synced(db))
    BY <1>7 DEF Ask, HttpInv
  <2>2. PICK h : h = NewHandler(FirstPc(req), req, num_blocks_synced(db))
    OBVIOUS
  <2>3. h.pc = FirstPc(req) /\ h.req = req
    BY <2>2 DEF NewHandler
  <2>4. h.req.route = "ledger_balance" => TotalHandler(h, d2)
    BY <2>3, TotalOrder DEF TotalHandler, FirstPc
  <2> QED
    BY <1>4, <1>5, <2>1, <2>2, <2>4 DEF TotalInv
<1>8. ASSUME NEW c \in Clients, HandlerStep(c) PROVE TotalInv'
  <2>1. /\ \A e \in Clients : e # c => handler'[e] = handler[e]
        /\ handler'[c].req = handler[c].req /\ UNCHANGED vars
    BY <1>8, HandlerFrame
  <2>2. PICK h, h2 : h = handler[c] /\ h2 = handler'[c]
    OBVIOUS
  <2>3. d2 = d
    BY <1>4, <2>1 DEF vars, storeVars
  <2>4. MintTotal(d, h.req.token_id) \in Nat
    BY <1>1, <1>4, TotalsGrow
  <2>5. h.req.route = "ledger_balance" => TotalHandler(h2, d2)
    BY <1>1, <1>4, <1>8, <2>1, <2>2, <2>3, <2>4, TotalStep DEF TotalHandler
  <2> QED
    BY <1>4, <1>5, <2>1, <2>2, <2>5 DEF TotalInv
<1> QED
  BY <1>6, <1>7, <1>8 DEF HttpNext, httpVars

\* It holds in every reachable state.
LEMMA TotalInvariance == HttpSpec => [](FiniteBurns /\ TotalInv)
<1>1. HttpInit => TotalInv
  BY DEF HttpInit, TotalInv, IdleHandler, NewHandler
<1>2. HttpSpec => Spec
  <2>1. HttpInit => Init
    BY DEF HttpInit
  <2> QED
    BY <2>1, AuditorRuns, PTL DEF HttpSpec, Spec
<1>3. /\ Served /\ Served' /\ FiniteBurns /\ FiniteBurns' /\ HttpInv /\ [HttpNext]_httpVars
      /\ TotalInv
      => TotalInv'
  BY NextTotalInv
<1> QED
  BY <1>1, <1>2, <1>3, AuditorServes, BurnsInvariance, HttpInvariance, PTL DEF HttpSpec

\* The balance a client computes from the two sums of ledger_balance is never
\* too high (HttpApi!BalanceIsNeverOverstated), whatever is committed between
\* them.
THEOREM BalanceAnswers == HttpSpec => BalanceIsNeverOverstated
<1> DEFINE Stated(c) ==
      (handler[c].req.route = "ledger_balance" /\ handler[c].pc # "done" /\ handler'[c].pc = "done")
      => LET t == handler[c].req.token_id
         IN  handler'[c].mint_total + BurnTotal(db, t) <= MintTotal(db, t) + handler'[c].burn_total
<1>1. ASSUME Served, FiniteBurns, HttpInv, TotalInv, [HttpNext]_httpVars, NEW c \in Clients
      PROVE  Stated(c)
  <2>1. PICK h, h2, t : h = handler[c] /\ h2 = handler'[c] /\ t = h.req.token_id
    OBVIOUS
  <2>2. SUFFICES ASSUME h.req.route = "ledger_balance", h.pc # "done", h2.pc = "done"
                 PROVE  h2.mint_total + BurnTotal(db, t) <= MintTotal(db, t) + h2.burn_total
    BY <2>1
  <2>3. Summable(db)
    BY <1>1, CommittedIsSummable
  <2>4. MintTotal(db, t) \in Nat /\ BurnTotal(db, t) \in Nat
    BY <2>3, TotalsGrow
  <2>5. TotalHandler(h, db) /\ DOMAIN handler = Clients
    BY <1>1, <2>1, <2>2 DEF TotalInv, HttpInv
  <2>6. \A e \in Clients, req \in Requests : ~Ask(e, req) \/ h2 = h
    BY <2>1, <2>2, <2>5 DEF Ask, TotalHandler
  <2>7. \A e \in Clients : HandlerStep(e) /\ h2 # h => e = c
    BY <1>1, <2>1, HandlerFrame
  <2>8. HandlerStep(c)
    BY <1>1, <2>1, <2>2, <2>6, <2>7 DEF HttpNext, httpVars
  <2>9. /\ h.pc = "burn_total" /\ h2.mint_total = h.mint_total
        /\ h2.burn_total = BurnTotal(db, t)
    BY <1>1, <2>1, <2>2, <2>3, <2>8, TotalStep
  <2> QED
    BY <2>1, <2>4, <2>5, <2>9 DEF TotalHandler
<1>2. /\ Served /\ FiniteBurns /\ HttpInv /\ TotalInv /\ [HttpNext]_httpVars
      => [\A c \in Clients : Stated(c)]_httpVars
  BY <1>1
<1> QED
  BY <1>2, AuditorServes, HttpInvariance, TotalInvariance, PTL DEF HttpSpec, BalanceIsNeverOverstated

----------------------------------------------------------------------------
(* The types of what a handler has read.                                   *)

\* The program points of the handlers.
Pcs == {"idle", "last", "get", "balances", "cli", "mint_txs", "mint_config_txs", "mint_configs",
        "signers", "mint_config", "mint_config_tx", "mint_total", "burn_total", "done"}

ConfigJoins == [mint_config_tx: MintConfigTxRows, mint_configs: Seq(MintConfigs)]

MintJoins == [mint_tx: MintTxRows, mint_config_tx: MintConfigTxRows, mint_config: MintConfigs]

\* A handler in terms of its fields.
LEMMA HandlerType ==
  ASSUME NEW h
  PROVE  h \in Handlers <=>
           /\ h = [f \in HandlerFields |-> h[f]]
           /\ h.pc \in Pcs /\ h.req \in Requests /\ h.since \in Nat
           /\ h.block \in Option(Nat) /\ h.balances \in Option(BalanceMaps)
           /\ h.mint_txs \subseteq MintTxRows /\ h.mint_config_txs \subseteq MintConfigTxRows
           /\ h.configs_of \subseteq ConfigJoins /\ h.todo \subseteq MintTxRows
           /\ h.mints_with_configs \subseteq MintJoins
           /\ h.mint_total \in Nat /\ h.burn_total \in Nat /\ h.status \in Statuses
  BY DEF Handlers, HandlerFields, Pcs, ConfigJoins, MintJoins

\* The database rows a handler reads have their types.
LEMMA RowTypes ==
  ASSUME NEW d \in Databases
  PROVE  /\ \A b : get_mint_txs_by_block_index(d, b) \subseteq MintTxRows
         /\ \A b : get_by_block_index(d, b) \subseteq MintConfigTxRows
         /\ \A x \in MintConfigTxRows : get_by_mint_config_tx_id(d, x) \in Seq(MintConfigs)
         /\ \A id : \A x \in get_by_id(d, id) :
              x \in MintConfigTxRows /\ x.configs[id.position] \in MintConfigs
<1>1. d.mint_txs \subseteq MintTxRows /\ d.mint_config_txs \subseteq MintConfigTxRows
  BY DEF Databases
<1>2. ASSUME NEW x \in MintConfigTxRows
      PROVE  /\ x.configs \in Seq(MintConfigs)
             /\ \A i \in DOMAIN x.configs : x.configs[i] \in MintConfigs
  <2>1. PICK q \in Seq(MintConfigs) : q = x.configs
    BY DEF MintConfigTxRows
  <2>2. \A i \in DOMAIN q : q[i] \in MintConfigs
    BY <2>1
  <2> QED
    BY <2>1, <2>2
<1>3. \A b : get_mint_txs_by_block_index(d, b) \subseteq MintTxRows
  BY <1>1 DEF get_mint_txs_by_block_index
<1>4. \A b : get_by_block_index(d, b) \subseteq MintConfigTxRows
  BY <1>1 DEF get_by_block_index
<1>5. << >> \in Seq(MintConfigs)
  OBVIOUS
<1>6. \A x \in MintConfigTxRows : get_by_mint_config_tx_id(d, x) \in Seq(MintConfigs)
  BY <1>2, <1>5 DEF get_by_mint_config_tx_id
<1>7. \A id : \A x \in get_by_id(d, id) :
        x \in MintConfigTxRows /\ x.configs[id.position] \in MintConfigs
  BY <1>1, <1>2 DEF get_by_id
<1> QED
  BY <1>3, <1>4, <1>6, <1>7

\* A field is replaced by a value of its type.
LEMMA FieldUpdates ==
  ASSUME NEW h \in Handlers
  PROVE  /\ \A v \in Pcs : [h EXCEPT !.pc = v] \in Handlers
         /\ \A v \in Option(Nat) : [h EXCEPT !.block = v] \in Handlers
         /\ \A v \in Option(BalanceMaps) : [h EXCEPT !.balances = v] \in Handlers
         /\ \A v \in SUBSET MintTxRows : [h EXCEPT !.mint_txs = v] \in Handlers
         /\ \A v \in SUBSET MintConfigTxRows : [h EXCEPT !.mint_config_txs = v] \in Handlers
         /\ \A v \in SUBSET ConfigJoins : [h EXCEPT !.configs_of = v] \in Handlers
         /\ \A v \in SUBSET MintTxRows : [h EXCEPT !.todo = v] \in Handlers
         /\ \A v \in SUBSET MintJoins : [h EXCEPT !.mints_with_configs = v] \in Handlers
         /\ \A v \in Nat : [h EXCEPT !.mint_total = v] \in Handlers
         /\ \A v \in Nat : [h EXCEPT !.burn_total = v] \in Handlers
         /\ \A v \in Statuses : [h EXCEPT !.status = v] \in Handlers
  BY DEF Handlers, Pcs, ConfigJoins, MintJoins

\* Every step of a handler keeps its type.
LEMMA HandlerStepType ==
  ASSUME HttpInv, Readable(db, ledger), Summable(db), NEW c \in Clients, HandlerStep(c),
         handler[c] \in Handlers, TotalInv
  PROVE  handler'[c] \in Handlers
<1>1. PICK h, h2 : h = handler[c] /\ h2 = handler'[c]
  OBVIOUS
<1>2. /\ DOMAIN handler = Clients /\ h \in Handlers /\ db \in Databases
      /\ h.pc # "idle" /\ h.req.route = "mint_info" => MintHandler(h, db, ledger)
  BY <1>1 DEF HttpInv, HandlerInv, Summable
<1>3. SUFFICES h2 \in Handlers
  BY <1>1
<1>4. /\ h.mint_txs \subseteq MintTxRows /\ h.mint_config_txs \subseteq MintConfigTxRows
      /\ h.configs_of \subseteq ConfigJoins /\ h.todo \subseteq MintTxRows
      /\ h.mints_with_configs \subseteq MintJoins
  BY <1>2, HandlerType
<1> USE <1>2 DEF Continue, Reply, Fail
<1>5. \A pc \in Pcs : [h EXCEPT !.pc = pc] \in Handlers
  BY FieldUpdates
<1>6. \A st \in Statuses : [[h EXCEPT !.status = st] EXCEPT !.pc = "done"] \in Handlers
  BY FieldUpdates DEF Pcs
<1>7. CASE LastSyncedBlock(c)
  <2>1. CASE db.block_audit_data = {}
    BY <1>1, <1>6, <1>7, <2>1 DEF LastSyncedBlock, Statuses
  <2>2. CASE db.block_audit_data # {}
    <3>1. PICK m \in Nat : m = Max(db.block_audit_data)
      BY <2>2, SyncedBlocks
    <3>2. h2 = [h EXCEPT !.pc = "get", !.block = {m}]
      BY <1>1, <1>7, <2>2, <3>1 DEF LastSyncedBlock
    <3>3. {m} \in Option(Nat)
      BY DEF Option
    <3> QED
      BY <3>2, <3>3, FieldUpdates DEF Pcs
  <2> QED
    BY <2>1, <2>2
<1>8. CASE GetBlockAuditData(c)
  <2>1. \/ \E st \in Statuses : h2 = [[h EXCEPT !.status = st] EXCEPT !.pc = "done"]
        \/ \E pc \in Pcs : h2 = [h EXCEPT !.pc = pc]
    BY <1>1, <1>8 DEF GetBlockAuditData, Statuses, Pcs
  <2> QED
    BY <1>5, <1>6, <2>1
<1>9. CASE GetBalances(c)
  <2>1. PICK r \in BalanceMaps : r = get_balances_for_block(db, BlockOf(c))
    BY BalancesType
  <2>2. h2 = [[h EXCEPT !.balances = {r}] EXCEPT !.pc = "done"]
    BY <1>1, <1>9, <2>1 DEF GetBalances
  <2>3. {r} \in Option(BalanceMaps)
    BY DEF Option
  <2> QED
    BY <2>2, <2>3, FieldUpdates DEF Pcs
<1>10. CASE CmdGetBlockAuditData(c)
  <2>1. PICK found : found = IF h.req.block # {} THEN h.req.block
                             ELSE IF db.block_audit_data = {} THEN {}
                             ELSE {Max(db.block_audit_data)}
    OBVIOUS
  <2>2. IF found # {} /\ found \subseteq db.block_audit_data
        THEN h2 = [[h EXCEPT !.block = found,
                     !.balances = {get_balances_for_block(db, x) : x \in found}] EXCEPT !.pc = "done"]
        ELSE h2 = [[h EXCEPT !.status = "not_found"] EXCEPT !.pc = "done"]
    BY <1>1, <1>10, <2>1 DEF CmdGetBlockAuditData
  <2>3. CASE found # {} /\ found \subseteq db.block_audit_data
    <3>1. h.pc = "cli" /\ h.req.route = "block_audit_data" /\ h.req \in Requests
      BY <1>1, <1>10 DEF CmdGetBlockAuditData, HttpInv, HandlerInv, MintHandler, TotalInv,
                        TotalHandler, Requests
    <3>2. PICK b \in Nat : found = {b}
      BY <2>1, <2>3, <3>1, RequestFacts, SyncedBlocks
    <3>3. PICK r \in BalanceMaps : r = get_balances_for_block(db, b)
      BY BalancesType
    <3>4. {get_balances_for_block(db, x) : x \in found} = {r}
      BY <3>2, <3>3
    <3>5. h2 = [[h EXCEPT !.block = {b}, !.balances = {r}] EXCEPT !.pc = "done"]
      BY <2>2, <2>3, <3>2, <3>4
    <3>6. {b} \in Option(Nat) /\ {r} \in Option(BalanceMaps)
      BY DEF Option
    <3> QED
      BY <3>5, <3>6, FieldUpdates DEF Pcs
  <2>4. CASE ~(found # {} /\ found \subseteq db.block_audit_data)
    BY <1>6, <2>2, <2>4 DEF Statuses
  <2> QED
    BY <2>3, <2>4
<1>11. CASE GetMintTxs(c)
  <2>1. PICK M : M = get_mint_txs_by_block_index(db, BlockOf(c)) /\ M \subseteq MintTxRows
    BY RowTypes
  <2>2. h2 = [h EXCEPT !.pc = "mint_config_txs", !.mint_txs = M]
    BY <1>1, <1>11, <2>1, QueryOrder DEF GetMintTxs
  <2> QED
    BY <2>1, <2>2, FieldUpdates DEF Pcs
<1>12. CASE GetMintConfigTxs(c)
  <2>1. PICK X : X = get_by_block_index(db, BlockOf(c)) /\ X \subseteq MintConfigTxRows
    BY RowTypes
  <2>2. h2 = [h EXCEPT !.pc = "mint_configs", !.mint_config_txs = X]
    BY <1>1, <1>12, <2>1, QueryOrder DEF GetMintConfigTxs
  <2> QED
    BY <2>1, <2>2, FieldUpdates DEF Pcs
<1>13. CASE GetMintConfigs(c)
  <2>1. PICK x \in h.mint_config_txs :
          h2 = [h EXCEPT !.configs_of = @ \cup
                 {[mint_config_tx |-> x, mint_configs |-> get_by_mint_config_tx_id(db, x)]}]
    BY <1>1, <1>13 DEF GetMintConfigs
  <2>2. x \in MintConfigTxRows /\ get_by_mint_config_tx_id(db, x) \in Seq(MintConfigs)
    BY <1>4, <2>1, RowTypes
  <2>3. PICK j \in ConfigJoins :
          j = [mint_config_tx |-> x, mint_configs |-> get_by_mint_config_tx_id(db, x)]
    BY <2>2 DEF ConfigJoins
  <2>4. h2 = [h EXCEPT !.configs_of = h.configs_of \cup {j}]
    BY <2>1, <2>3
  <2>5. PICK J : J = h.configs_of \cup {j} /\ J \subseteq ConfigJoins
    BY <1>4
  <2> QED
    BY <2>4, <2>5, FieldUpdates
<1>14. CASE MintConfigsDone(c)
  <2>1. h2 = [h EXCEPT !.pc = "signers", !.todo = h.mint_txs]
    BY <1>1, <1>14 DEF MintConfigsDone
  <2> QED
    BY <1>4, <2>1, FieldUpdates DEF Pcs
<1>15. CASE GetSigners(c)
  <2>1. \/ \E st \in Statuses : h2 = [[h EXCEPT !.status = st] EXCEPT !.pc = "done"]
        \/ h2 = [h EXCEPT !.pc = "mint_config"]
    BY <1>1, <1>15 DEF GetSigners, Statuses
  <2> QED
    BY <1>5, <1>6, <2>1 DEF Pcs
<1>16. CASE GetMintConfig(c)
  <2>1. \/ h2 = [h EXCEPT !.pc = "signers", !.todo = h.todo \ {MintOf(c)}]
        \/ h2 = [h EXCEPT !.pc = "mint_config_tx"]
    BY <1>1, <1>16 DEF GetMintConfig
  <2>2. PICK T : T = h.todo \ {MintOf(c)} /\ T \subseteq MintTxRows
    BY <1>4
  <2>3. CASE h2 = [h EXCEPT !.pc = "signers", !.todo = T]
    <3>1. PICK g \in Handlers : g = [h EXCEPT !.todo = T]
      BY <2>2, FieldUpdates
    <3>2. h2 = [g EXCEPT !.pc = "signers"]
      BY <2>3, <3>1
    <3> QED
      BY <3>1, <3>2, FieldUpdates DEF Pcs
  <2> QED
    BY <1>5, <2>1, <2>2, <2>3 DEF Pcs
<1>17. CASE GetMintConfigTx(c)
  <2>1. PICK m, id : m = MintOf(c) /\ id = ConfigId(c)
    OBVIOUS
  <2>2. h.pc = "mint_config_tx" /\ m \in h.todo
    <3>1. h.pc = "mint_config_tx" /\ h.req \in Requests
      BY <1>1, <1>17 DEF GetMintConfigTx, HttpInv, HandlerInv
    <3>2. h.req.route = "mint_info"
      BY <1>1, <3>1, RequestFacts DEF HttpInv, HandlerInv, BlockHandler, TotalInv, TotalHandler
    <3> QED
      BY <1>1, <2>1, <3>1, <3>2 DEF MintHandler, MintOf
  <2>3. PICK J : J = {[mint_tx |-> m, mint_config_tx |-> x, mint_config |-> x.configs[id.position]] :
                        x \in get_by_id(db, id)}
    OBVIOUS
  <2>4. m \in MintTxRows
    BY <1>4, <2>2
  <2>5. J \subseteq MintJoins
    BY <2>3, <2>4, RowTypes DEF MintJoins
  <2>6. h2 = [h EXCEPT !.pc = "signers", !.todo = h.todo \ {m},
                       !.mints_with_configs = h.mints_with_configs \cup J]
    BY <1>1, <1>17, <2>1, <2>3 DEF GetMintConfigTx
  <2>7. PICK T, W : /\ T = h.todo \ {m} /\ T \subseteq MintTxRows
                    /\ W = h.mints_with_configs \cup J /\ W \subseteq MintJoins
    BY <1>4, <2>5
  <2> QED
    BY <2>6, <2>7, FieldUpdates DEF Pcs
<1>18. CASE MintInfoDone(c)
  BY <1>1, <1>5, <1>18 DEF MintInfoDone, Pcs
<1>19. CASE get_mint_total(c)
  <2>1. PICK n \in Nat : n = MintTotal(db, h.req.token_id)
    BY TotalsGrow
  <2>2. h2 = [h EXCEPT !.pc = "burn_total", !.mint_total = n]
    BY <1>1, <1>19, <2>1, TotalOrder DEF get_mint_total
  <2> QED
    BY <2>2, FieldUpdates DEF Pcs
<1>20. CASE get_burn_total(c)
  <2>1. PICK n \in Nat : n = BurnTotal(db, h.req.token_id)
    BY TotalsGrow
  <2>2. h2 = [h EXCEPT !.pc = "done", !.burn_total = n]
    BY <1>1, <1>20, <2>1, TotalOrder DEF get_burn_total
  <2> QED
    BY <2>2, FieldUpdates DEF Pcs
<1> QED
  BY <1>7, <1>8, <1>9, <1>10, <1>11, <1>12, <1>13, <1>14, <1>15, <1>16, <1>17, <1>18, <1>19, <1>20
     DEF HandlerStep

\* A new request has its type.
LEMMA NewHandlerType ==
  ASSUME NEW req \in Requests, NEW n \in Nat, NEW pc \in Pcs
  PROVE  NewHandler(pc, req, n) \in Handlers
<1>1. PICK h : h = NewHandler(pc, req, n)
  OBVIOUS
<1>2. PICK o : o = IF req.route = "ledger_balance" THEN {} ELSE req.block
  OBVIOUS
<1>3. o \in Option(Nat)
  <2>1. req.route # "ledger_balance" => req.block = {} \/ \E b \in Nat : req.block = {b}
    BY RequestFacts
  <2> QED
    BY <1>2, <2>1 DEF Option
<1>4. {} \in Option(BalanceMaps)
  BY DEF Option
<1>5. h = [pc |-> pc, req |-> req, since |-> n, block |-> o,
           balances |-> {}, mint_txs |-> {}, mint_config_txs |-> {}, configs_of |-> {}, todo |-> {},
           mints_with_configs |-> {}, mint_total |-> 0, burn_total |-> 0, status |-> "ok"]
  BY <1>1, <1>2 DEF NewHandler
<1>6. h \in Handlers
  BY <1>3, <1>4, <1>5, HandlerType DEF HandlerFields, Statuses
<1> QED
  BY <1>1, <1>6

\* Every request is at a step of its handler and holds what that step has read
\* (HttpApi!HttpTypeOK): totals are numbers, rows are rows, and there is always
\* a mint where the handler looks for one.
THEOREM HttpTypeCorrectness == HttpSpec => []HttpTypeOK
<1>1. HttpInit => HttpTypeOK
  <2> SUFFICES ASSUME HttpInit PROVE HttpTypeOK
    OBVIOUS
  <2>1. PICK req : req = [route |-> "block_audit_data", via |-> "http", block |-> {}]
    OBVIOUS
  <2>2. req \in Requests
    BY <2>1 DEF Requests, Option
  <2>3. IdleHandler \in Handlers
    BY <2>1, <2>2, NewHandlerType DEF IdleHandler, Pcs
  <2> QED
    BY <2>3 DEF HttpInit, HttpTypeOK
<1>2. ASSUME Served, FiniteBurns, HttpInv, TotalInv, HttpTypeOK, [HttpNext]_httpVars
      PROVE  HttpTypeOK'
  <2>1. Summable(db) /\ Readable(db, ledger)
    BY <1>2, CommittedIsSummable, CommittedIsReadable DEF Served
  <2>2. ASSUME NEW c \in Clients, \A e \in Clients : e # c => handler'[e] = handler[e],
               handler'[c] \in Handlers, handler' = [e \in Clients |-> handler'[e]]
        PROVE  HttpTypeOK'
    BY <1>2, <2>2 DEF HttpTypeOK
  <2>3. CASE UNCHANGED handler
    BY <1>2, <2>3 DEF HttpTypeOK
  <2>4. ASSUME NEW c \in Clients, NEW req \in Requests, Ask(c, req) PROVE HttpTypeOK'
    <3>1. handler' = [handler EXCEPT ![c] = NewHandler(FirstPc(req), req, num_blocks_synced(db))]
      BY <2>4 DEF Ask
    <3>2. num_blocks_synced(db) \in Nat
      BY <2>1, SyncedBlocks
    <3>3. FirstPc(req) \in Pcs
      BY RequestFacts, QueryOrder, TotalOrder DEF FirstPc, Pcs
    <3>4. NewHandler(FirstPc(req), req, num_blocks_synced(db)) \in Handlers
      BY <3>2, <3>3, NewHandlerType
    <3> QED
      BY <1>2, <3>1, <3>4 DEF HttpTypeOK
  <2>5. ASSUME NEW c \in Clients, HandlerStep(c) PROVE HttpTypeOK'
    <3>1. handler'[c] \in Handlers
      BY <1>2, <2>1, <2>5, HandlerStepType DEF HttpTypeOK
    <3>2. PICK h2 : handler' = [handler EXCEPT ![c] = h2]
      BY <2>5
         DEF HandlerStep, LastSyncedBlock, GetBlockAuditData, GetBalances, CmdGetBlockAuditData,
             GetMintTxs, GetMintConfigTxs, GetMintConfigs, MintConfigsDone, GetSigners,
             GetMintConfig, GetMintConfigTx, MintInfoDone, get_mint_total, get_burn_total,
             Continue, Reply, Fail
    <3> QED
      BY <1>2, <3>1, <3>2 DEF HttpTypeOK
  <2> QED
    BY <1>2, <2>3, <2>4, <2>5 DEF HttpNext, httpVars
<1>3. /\ Served /\ FiniteBurns /\ HttpInv /\ TotalInv /\ HttpTypeOK /\ [HttpNext]_httpVars
      => HttpTypeOK'
  BY <1>2
<1> QED
  BY <1>1, <1>3, AuditorServes, HttpInvariance, TotalInvariance, PTL DEF HttpSpec

----------------------------------------------------------------------------
(* The page, whose tables are read at different moments.                   *)

PageFields == {"mint_txs", "deposits", "burn_tx_outs", "withdrawals"}

\* From d to d2 no row is lost, and the audit log is only appended to.
Grown(d, d2) ==
  /\ \A f \in PageFields : d[f] \subseteq d2[f]
  /\ \A t \in AuditTables : Extends(d2[t], d[t])

\* A database whose audit log can be joined with the rows.
Joined(d) == d \in Databases /\ LogInv(d)

\* The audit log of a database, entry by entry.
LEMMA LogTypes ==
  ASSUME NEW d \in Databases, NEW t \in AuditTables
  PROVE  d[t] \in Seq(AuditedMintRows \cup AuditedBurnRows)
<1>1. d.audited_mints \in Seq(AuditedMintRows) /\ d.audited_burns \in Seq(AuditedBurnRows)
  BY DEF Databases
<1>2. PICK S : S = AuditedMintRows \cup AuditedBurnRows
  OBVIOUS
<1>3. \A R \in SUBSET S : \A q \in Seq(R) : q \in Seq(S)
  <2> SUFFICES ASSUME NEW R \in SUBSET S, NEW q \in Seq(R) PROVE q \in Seq(S)
    OBVIOUS
  <2>1. Len(q) \in Nat /\ DOMAIN q = 1 .. Len(q) /\ \A i \in 1 .. Len(q) : q[i] \in S
    OBVIOUS
  <2>2. q = [i \in 1 .. Len(q) |-> q[i]]
    OBVIOUS
  <2> QED
    BY <2>1, <2>2
<1>4. AuditedMintRows \in SUBSET S /\ AuditedBurnRows \in SUBSET S
  BY <1>2
<1> QED
  BY <1>1, <1>2, <1>3, <1>4 DEF AuditTables

\* Growth composes.
LEMMA GrownTwice ==
  ASSUME NEW a \in Databases, NEW b \in Databases, NEW c \in Databases, Grown(a, b), Grown(b, c)
  PROVE  Grown(a, c)
<1>1. \A f \in PageFields : a[f] \subseteq c[f]
  BY DEF Grown
<1>2. ASSUME NEW t \in AuditTables PROVE Extends(c[t], a[t])
  <2>1. PICK S : S = AuditedMintRows \cup AuditedBurnRows
    OBVIOUS
  <2>2. PICK x, y, z : x = a[t] /\ y = b[t] /\ z = c[t]
    OBVIOUS
  <2>3. x \in Seq(S) /\ y \in Seq(S) /\ z \in Seq(S)
    BY <1>2, <2>1, <2>2, LogTypes
  <2>4. Extends(y, x) /\ Extends(z, y)
    BY <1>2, <2>2 DEF Grown
  <2>5. Len(x) <= Len(y) /\ \A i \in 1 .. Len(x) : y[i] = x[i]
    BY <2>3, <2>4, ExtendsEntries
  <2>6. Len(y) <= Len(z) /\ \A i \in 1 .. Len(y) : z[i] = y[i]
    BY <2>3, <2>4, ExtendsEntries
  <2>7. Len(x) \in Nat /\ Len(y) \in Nat /\ Len(z) \in Nat
    BY <2>3
  <2>8. Len(x) <= Len(z) /\ \A i \in 1 .. Len(x) : z[i] = x[i]
    BY <2>5, <2>6, <2>7
  <2> QED
    BY <2>2, <2>3, <2>8, ExtendsEntries
<1> QED
  BY <1>1, <1>2 DEF Grown

\* A database extends itself.
LEMMA GrownSame ==
  ASSUME NEW d \in Databases
  PROVE  Grown(d, d)
<1>1. ASSUME NEW t \in AuditTables PROVE Extends(d[t], d[t])
  <2>1. PICK S, q : S = AuditedMintRows \cup AuditedBurnRows /\ q = d[t]
    OBVIOUS
  <2>2. q \in Seq(S)
    BY <1>1, <2>1, LogTypes
  <2>3. Extends(q, q)
    BY <2>2, ExtendsEntries
  <2> QED
    BY <2>1, <2>3
<1> QED
  BY <1>1 DEF Grown

\* What is committed stays: the database grows with every step.
LEMMA DbGrows ==
  ASSUME IInv, IInv', UnitInv, [Next]_vars
  PROVE  Grown(db, db')
<1>1. db \in Databases /\ wdb \in Databases
  BY TypeFacts
<1>2. db' = db \/ Commits
  BY StepCases DEF Idles, Begins, ScanProceeds, WorkProceeds
<1>3. CASE db' = db
  BY <1>1, <1>3, GrownSame
<1>4. CASE Commits
  <2>1. db' = wdb
    BY <1>4 DEF Commits
  <2>2. ASSUME NEW p \in Procs, scan[p].pc = "commit" PROVE Grown(db, wdb)
    <3>1. BlockUnit(scan[p], db, wdb, Contents(p)) /\ GrowsFrom(db, wdb)
      BY <2>2 DEF UnitInv, ScanInTx
    <3> QED
      BY <3>1 DEF BlockUnit, GrowsFrom, Grown, Keeps, SafeTables, PageFields, AuditTables
  <2>3. ASSUME NEW t \in Workers, work[t].pc = "commit" PROVE Grown(db, wdb)
    <3>1. TxUnit(work[t], db, wdb, Tx(t), audited_safe(t)) /\ GrowsFrom(db, wdb)
      BY <2>3 DEF UnitInv, WorkInTx
    <3>2. CASE wdb = db
      BY <1>1, <3>2, GrownSame
    <3>3. CASE wdb # db
      BY <3>1, <3>3 DEF TxUnit, GrowsFrom, Grown, Keeps, LedgerTables, PageFields, AuditTables
    <3> QED
      BY <3>2, <3>3
  <2> QED
    BY <1>4, <2>1, <2>2, <2>3 DEF Commits
<1> QED
  BY <1>2, <1>3, <1>4

\* All rows are kept, in order, if the joins keep all positions.
LEMMA AllRowsAt ==
  ASSUME NEW S, NEW rows \in Seq(S)
  PROVE  RowsAt(rows, DOMAIN rows) = rows
<1>1. PICK n \in Nat : n = Len(rows) /\ DOMAIN rows = 1 .. n
  OBVIOUS
<1>2. \A k \in Nat : IsFiniteSet(1 .. k) /\ Cardinality(1 .. k) = k
  BY FS_Interval
<1>3. ASSUME NEW k \in 1 .. n
      PROVE  (CHOOSE i \in 1 .. n : Cardinality({j \in 1 .. n : j <= i}) = k) = k
  <2> DEFINE Rank(i) == Cardinality({j \in 1 .. n : j <= i})
  <2>1. ASSUME NEW i \in 1 .. n PROVE Rank(i) = i
    <3>1. PICK I : I = {j \in 1 .. n : j <= i}
      OBVIOUS
    <3>2. I = 1 .. i /\ i \in Nat
      BY <3>1
    <3>3. Cardinality(I) = i
      BY <1>2, <3>2
    <3> QED
      BY <3>1, <3>3
  <2> HIDE DEF Rank
  <2>2. (CHOOSE i \in 1 .. n : Rank(i) = k) = k
    BY <2>1
  <2> QED
    BY <2>2 DEF Rank
<1>4. RowsAt(rows, 1 .. n) = [k \in 1 .. n |-> rows[k]]
  <2>1. Cardinality(1 .. n) = n
    BY <1>2
  <2>2. RowsAt(rows, 1 .. n)
          = [k \in 1 .. n |->
               rows[CHOOSE i \in 1 .. n : Cardinality({j \in 1 .. n : j <= i}) = k]]
    BY <2>1 DEF RowsAt
  <2> QED
    BY <1>3, <2>2
<1>5. rows = [k \in 1 .. n |-> rows[k]]
  BY <1>1
<1> QED
  BY <1>1, <1>4, <1>5

\* Every pair of the audit log is of stored rows, so the joins drop nothing.
LEMMA JoinsKeepAll ==
  ASSUME NEW d, Joined(d)
  PROVE  /\ list_with_mint_and_deposit(d) = d.audited_mints
         /\ list_with_burn_and_withdrawal(d) = d.audited_burns
<1>1. d.audited_mints \in Seq(AuditedMintRows) /\ d.audited_burns \in Seq(AuditedBurnRows)
  BY DEF Joined, Databases
<1>2. PICK M, B : M = d.audited_mints /\ B = d.audited_burns
  OBVIOUS
<1>3. ASSUME NEW i \in DOMAIN M
      PROVE  /\ \E m \in d.mint_txs : m.nonce = M[i].mint
             /\ \E e \in d.deposits : e.eth_tx_hash = M[i].deposit
  <2>1. PICK m \in d.mint_txs, e \in d.deposits :
          M[i] = [mint |-> m.nonce, deposit |-> e.eth_tx_hash]
    BY <1>2, <1>3 DEF Joined, LogInv, MintLogInv, SoundMintLog
  <2> QED
    BY <2>1
<1>4. ASSUME NEW i \in DOMAIN B
      PROVE  /\ \E b \in d.burn_tx_outs : b.public_key = B[i].burn
             /\ \E w \in d.withdrawals : w.eth_tx_hash = B[i].withdrawal
  <2>1. PICK b \in d.burn_tx_outs, w \in d.withdrawals :
          B[i] = [burn |-> b.public_key, withdrawal |-> w.eth_tx_hash]
    BY <1>2, <1>4 DEF Joined, LogInv, BurnLogInv, SoundBurnLog
  <2> QED
    BY <2>1
<1>5. {i \in DOMAIN M : /\ \E m \in d.mint_txs : m.nonce = M[i].mint
                        /\ \E e \in d.deposits : e.eth_tx_hash = M[i].deposit} = DOMAIN M
  BY <1>3
<1>6. {i \in DOMAIN B : /\ \E b \in d.burn_tx_outs : b.public_key = B[i].burn
                        /\ \E w \in d.withdrawals : w.eth_tx_hash = B[i].withdrawal} = DOMAIN B
  BY <1>4
<1>7. list_with_mint_and_deposit(d) = RowsAt(M, DOMAIN M)
  BY <1>2, <1>5 DEF list_with_mint_and_deposit
<1>8. list_with_burn_and_withdrawal(d) = RowsAt(B, DOMAIN B)
  BY <1>2, <1>6 DEF list_with_burn_and_withdrawal
<1> QED
  BY <1>1, <1>2, <1>7, <1>8, AllRowsAt

\* OFFSET and LIMIT.
LEMMA PageEntries ==
  ASSUME NEW S, NEW rows \in Seq(S), NEW offset \in Nat, NEW limit \in Nat
  PROVE  /\ PageOf(rows, offset, limit) \in Seq(S)
         /\ offset <= Len(rows) =>
              /\ offset + Len(PageOf(rows, offset, limit)) <= Len(rows)
              /\ Len(PageOf(rows, offset, limit)) <= limit
              /\ Len(PageOf(rows, offset, limit)) < limit =>
                   offset + Len(PageOf(rows, offset, limit)) = Len(rows)
              /\ \A i \in 1 .. Len(PageOf(rows, offset, limit)) :
                   PageOf(rows, offset, limit)[i] = rows[offset + i]
<1>1. PICK n \in Nat : n = Len(rows)
  OBVIOUS
<1>2. PICK last \in Nat : last = IF offset + limit <= n THEN offset + limit ELSE n
  OBVIOUS
<1>3. Min({offset + limit, n}) = last
  <2>1. PICK a \in Nat : a = offset + limit
    OBVIOUS
  <2>2. last \in {a, n} /\ \A y \in {a, n} : last <= y
    BY <1>2, <2>1
  <2>3. \A x \in {a, n} : (\A y \in {a, n} : x <= y) => x = last
    BY <2>2
  <2>4. Min({a, n}) = last
    BY <2>2, <2>3 DEF Min
  <2> QED
    BY <2>1, <2>4
<1>4. PICK p : p = SubSeq(rows, offset + 1, last)
  OBVIOUS
<1>5. PageOf(rows, offset, limit) = p
  BY <1>1, <1>3, <1>4 DEF PageOf
<1>6. p \in Seq(S)
  BY <1>1, <1>2, <1>4
<1>7. ASSUME offset <= n
      PROVE  Len(p) = last - offset /\ \A i \in 1 .. Len(p) : p[i] = rows[offset + i]
  <2>1. offset + 1 \in 1 .. n + 1 /\ last \in offset .. n
    BY <1>2, <1>7
  <2>2. Len(p) = last - offset
    BY <1>1, <1>4, <2>1
  <2>3. ASSUME NEW i \in 1 .. Len(p) PROVE p[i] = rows[offset + i]
    BY <1>1, <1>4, <2>1, <2>2, <2>3
  <2> QED
    BY <2>2, <2>3
<1> QED
  BY <1>1, <1>2, <1>5, <1>6, <1>7

\* What a client has collected stays the beginning of the log when it grows,
\* and when the next page is read.
LEMMA PagesExtend ==
  ASSUME NEW S, NEW read, NEW log \in Seq(S), Extends(log, read), read \in Seq(S)
  PROVE  /\ \A log2 \in Seq(S) : Extends(log2, log) => Extends(log2, read)
         /\ \A limit \in Nat : LET more == read \o PageOf(log, Len(read), limit)
                               IN  more \in Seq(S) /\ Extends(log, more)
<1>1. PICK n \in Nat : n = Len(read)
  OBVIOUS
<1>2. Len(log) \in Nat /\ n <= Len(log) /\ \A i \in 1 .. n : log[i] = read[i]
  BY <1>1, ExtendsEntries
<1>3. ASSUME NEW log2 \in Seq(S), Extends(log2, log) PROVE Extends(log2, read)
  <2>1. Len(log2) \in Nat /\ Len(log) <= Len(log2) /\ \A i \in 1 .. Len(log) : log2[i] = log[i]
    BY <1>3, ExtendsEntries
  <2>2. Len(read) <= Len(log2) /\ \A i \in 1 .. Len(read) : log2[i] = read[i]
    BY <1>1, <1>2, <2>1
  <2> QED
    BY <2>2, ExtendsEntries
<1>4. ASSUME NEW limit \in Nat
      PROVE  /\ read \o PageOf(log, n, limit) \in Seq(S)
             /\ Extends(log, read \o PageOf(log, n, limit))
  <2>1. PICK p : p = PageOf(log, n, limit)
    OBVIOUS
  <2>2. /\ p \in Seq(S) /\ n + Len(p) <= Len(log)
        /\ \A i \in 1 .. Len(p) : p[i] = log[n + i]
    BY <1>2, <2>1, PageEntries
  <2>3. PICK more : more = read \o p
    OBVIOUS
  <2>4. more \in Seq(S) /\ Len(more) = n + Len(p) /\ Len(p) \in Nat
    BY <1>1, <2>2, <2>3
  <2>5. ASSUME NEW i \in 1 .. Len(more) PROVE log[i] = more[i]
    <3>1. CASE i <= n
      BY <1>1, <1>2, <2>2, <2>3, <2>4, <2>5, <3>1
    <3>2. CASE i > n
      <4>1. PICK j \in 1 .. Len(p) : i = n + j
        BY <2>4, <2>5, <3>2
      <4>2. more[i] = p[j]
        BY <1>1, <2>2, <2>3, <4>1
      <4> QED
        BY <2>2, <4>1, <4>2
    <3> QED
      BY <2>4, <3>1, <3>2
  <2>6. Extends(log, more)
    BY <2>2, <2>4, <2>5, ExtendsEntries
  <2> QED
    BY <2>1, <2>3, <2>4, <2>6
<1> QED
  BY <1>1, <1>3, <1>4

\* The places of the entry with key in column side of the log q, and that it is there.
Places(q, side, key) == {i \in DOMAIN q : q[i][side] = key}

Has(q, side, key) == Places(q, side, key) # {}

\* No key is twice in column side of the log q.
OneEach(q, side) == \A i, j \in DOMAIN q : q[i][side] = q[j][side] => i = j

\* The entry is within the limit of a page.
OnPage(q, side, key) == \E i \in Places(q, side, key) : i <= PageLimit

\* Whether x is in the log L, which was read between the logs F and D, if it
\* was in F exactly if it is in D.
LEMMA InLogBetween ==
  ASSUME NEW S, NEW F \in Seq(S), NEW L \in Seq(S), NEW D \in Seq(S),
         Extends(L, F), Extends(D, L), NEW side, NEW x, Has(F, side, x) <=> Has(D, side, x)
  PROVE  Has(L, side, x) <=> Has(F, side, x)
<1>1. /\ Len(F) \in Nat /\ Len(L) \in Nat /\ Len(D) \in Nat
      /\ Len(F) <= Len(L) /\ \A i \in 1 .. Len(F) : L[i] = F[i]
      /\ Len(L) <= Len(D) /\ \A i \in 1 .. Len(L) : D[i] = L[i]
  BY ExtendsEntries
<1>2. DOMAIN F = 1 .. Len(F) /\ DOMAIN L = 1 .. Len(L) /\ DOMAIN D = 1 .. Len(D)
  OBVIOUS
<1>3. ASSUME NEW i \in Places(F, side, x) PROVE i \in Places(L, side, x)
  BY <1>1, <1>2 DEF Places
<1>4. ASSUME NEW i \in Places(L, side, x) PROVE i \in Places(D, side, x)
  BY <1>1, <1>2 DEF Places
<1> QED
  BY <1>3, <1>4 DEF Has

\* The entries of x on a page of the log L, which was read between the logs F
\* and D: x is on it once if its place in the log is within the limit.
LEMMA EntriesOnPage ==
  ASSUME NEW S, NEW F \in Seq(S), NEW L \in Seq(S), NEW D \in Seq(S),
         Extends(L, F), Extends(D, L), NEW side, NEW x, OneEach(D, side),
         Has(F, side, x) <=> Has(D, side, x)
  PROVE  Cardinality(Places(PageOf(L, 0, PageLimit), side, x))
           = IF Has(F, side, x) /\ OnPage(D, side, x) THEN 1 ELSE 0
<1>1. PICK P : P = PageOf(L, 0, PageLimit)
  OBVIOUS
<1>2. /\ Len(F) \in Nat /\ Len(L) \in Nat /\ Len(D) \in Nat
      /\ Len(F) <= Len(L) /\ \A i \in 1 .. Len(F) : L[i] = F[i]
      /\ Len(L) <= Len(D) /\ \A i \in 1 .. Len(L) : D[i] = L[i]
  BY ExtendsEntries
<1>3. /\ P \in Seq(S) /\ Len(P) \in Nat /\ Len(P) <= Len(L) /\ Len(P) <= PageLimit
      /\ Len(P) < PageLimit => Len(P) = Len(L)
      /\ \A i \in 1 .. Len(P) : P[i] = L[i]
  <2>1. 0 \in Nat /\ PageLimit \in Nat /\ 0 <= Len(L)
    BY <1>2, PageAssumption
  <2>2. P \in Seq(S) /\ Len(P) \in Nat
    BY <1>1, <2>1, PageEntries
  <2> QED
    BY <1>1, <1>2, <2>1, <2>2, PageEntries
<1>4. /\ DOMAIN P = 1 .. Len(P) /\ DOMAIN F = 1 .. Len(F) /\ DOMAIN D = 1 .. Len(D)
      /\ PageLimit \in Nat
  BY <1>3, PageAssumption
<1>5. PICK E, positions : E = Places(P, side, x) /\ positions = Places(D, side, x)
  OBVIOUS
<1>6. ASSUME NEW i \in E PROVE i \in positions
  <2>1. i \in 1 .. Len(P) /\ P[i][side] = x
    BY <1>4, <1>5, <1>6 DEF Places
  <2>2. i \in 1 .. Len(L) /\ i \in 1 .. Len(D)
    BY <1>2, <1>3, <2>1
  <2>3. D[i] = P[i]
    BY <1>2, <1>3, <2>1, <2>2
  <2> QED
    BY <1>4, <1>5, <2>1, <2>2, <2>3 DEF Places
<1>7. CASE ~Has(F, side, x)
  <2>1. E = {}
    BY <1>5, <1>6, <1>7 DEF Has
  <2> QED
    BY <1>1, <1>5, <1>7, <2>1, FS_EmptySet
<1>8. CASE Has(F, side, x)
  <2>1. PICK k \in 1 .. Len(F) : F[k][side] = x
    BY <1>4, <1>8 DEF Has, Places
  <2>2. k \in 1 .. Len(D) /\ k \in 1 .. Len(L) /\ D[k] = F[k] /\ L[k] = F[k]
    BY <1>2, <2>1
  <2>3. positions = {k}
    BY <1>4, <1>5, <2>1, <2>2 DEF Places, OneEach
  <2>4. CASE k <= PageLimit
    <3>1. k \in 1 .. Len(P)
      BY <1>2, <1>3, <1>4, <2>2, <2>4
    <3>2. k \in E
      BY <1>3, <1>4, <1>5, <2>1, <2>2, <3>1 DEF Places
    <3>3. E = {k}
      BY <1>6, <2>3, <3>2
    <3>4. Cardinality({k}) = 1
      BY FS_Singleton
    <3>5. OnPage(D, side, x)
      BY <1>5, <2>3, <2>4 DEF OnPage
    <3> QED
      BY <1>1, <1>5, <1>8, <3>3, <3>4, <3>5
  <2>5. CASE ~(k <= PageLimit)
    <3>1. k \notin 1 .. Len(P)
      BY <1>3, <1>4, <2>2, <2>5
    <3>2. E = {}
      BY <1>4, <1>5, <1>6, <2>3, <3>1 DEF Places
    <3>3. ~OnPage(D, side, x)
      BY <1>5, <2>3, <2>5 DEF OnPage
    <3> QED
      BY <1>1, <1>5, <3>2, <3>3, FS_EmptySet
  <2> QED
    BY <2>4, <2>5
<1> QED
  BY <1>7, <1>8

\* The page p over the database d: every answer was true of a database between
\* the one the page was opened with and d.
PageRead(p, d) ==
  /\ DOMAIN p = {"open", "from", "answers"}
  /\ p.open => Joined(p.from) /\ Grown(p.from, d)
  /\ \A t \in DOMAIN p.answers :
       /\ p.open /\ t \in Tables
       /\ \E r : /\ Joined(r) /\ Grown(p.from, r) /\ Grown(r, d)
                 /\ p.answers[t] = Query(r, t)

\* What a client has collected is the beginning of the log.
PagerRead(g, d) ==
  /\ DOMAIN g = AuditTables
  /\ \A t \in AuditTables : g[t] \in Seq(AuditedMintRows \cup AuditedBurnRows) /\ Extends(d[t], g[t])

PageInv == PageRead(page, db) /\ PagerRead(pager, db)

\* The answers stay true when the database grows.
LEMMA PageStays ==
  ASSUME NEW p, NEW g, NEW d, Joined(d), NEW d2, Joined(d2), Grown(d, d2),
         PageRead(p, d), PagerRead(g, d)
  PROVE  PageRead(p, d2) /\ PagerRead(g, d2)
<1>1. ASSUME NEW r, Joined(r), Grown(r, d) PROVE Grown(r, d2)
  BY <1>1, GrownTwice DEF Joined
<1>2. PageRead(p, d2)
  BY <1>1 DEF PageRead
<1>3. ASSUME NEW t \in AuditTables PROVE Extends(d2[t], g[t])
  <2>1. PICK S, a, b, c : S = AuditedMintRows \cup AuditedBurnRows /\ a = d[t] /\ b = d2[t] /\ c = g[t]
    OBVIOUS
  <2>2. a \in Seq(S) /\ b \in Seq(S) /\ c \in Seq(S)
    BY <2>1, LogTypes DEF Joined, PagerRead
  <2>3. Extends(a, c) /\ Extends(b, a)
    BY <2>1 DEF PagerRead, Grown
  <2>4. Extends(b, c)
    BY <2>2, <2>3, PagesExtend
  <2> QED
    BY <2>1, <2>4
<1> QED
  BY <1>2, <1>3 DEF PagerRead

\* What the page relies on.
Kept == IInv /\ UnitInv /\ LogInv(db)

\* Every step of the auditor, the page or a client keeps it.
LEMMA NextPageInv ==
  ASSUME Kept, Kept', [PageNext]_pageVars, PageInv
  PROVE  PageInv'
<1>1. Joined(db)
  BY TypeFacts DEF Kept, Joined
<1>2. CASE UNCHANGED <<page, pager>> /\ [Next]_vars
  <2>1. Grown(db, db')
    BY <1>2, DbGrows DEF Kept
  <2>2. Joined(db')
    <3>1. db' \in Databases
      BY DEF Kept, IInv, TypeOK, LedgerTypeOK, StoreTypeOK
    <3>2. LogInv(db')
      BY DEF Kept, LogInv, MintLogInv, SoundMintLog, OneToOneMints, BurnLogInv, SoundBurnLog,
             OneToOneBurns
    <3> QED
      BY <3>1, <3>2 DEF Joined
  <2>3. PICK d, d2 : d = db /\ d2 = db'
    OBVIOUS
  <2>4. PageRead(page, d2) /\ PagerRead(pager, d2)
    BY <1>1, <2>1, <2>2, <2>3, PageStays DEF PageInv
  <2>5. page' = page /\ pager' = pager
    BY <1>2
  <2>6. PageRead(page', db') /\ PagerRead(pager', db')
    BY <2>3, <2>4, <2>5
  <2> QED
    BY <2>6 DEF PageInv
<1>3. db \in Databases /\ Grown(db, db)
  BY <1>1, GrownSame DEF Joined
<1>4. ASSUME UNCHANGED <<vars, pager>>, PageRead(page', db) PROVE PageInv'
  <2>1. db' = db /\ pager' = pager
    BY <1>4 DEF vars, storeVars
  <2>2. PageRead(page', db') /\ PagerRead(pager', db')
    BY <1>4, <2>1 DEF PageInv
  <2> QED
    BY <2>2 DEF PageInv
<1>5. CASE OpenPage
  <2>1. page' = [open |-> TRUE, from |-> db, answers |-> << >>] /\ UNCHANGED <<vars, pager>>
    BY <1>5 DEF OpenPage
  <2>2. PageRead(page', db)
    BY <1>1, <1>3, <2>1 DEF PageRead
  <2> QED
    BY <1>4, <2>1, <2>2
<1>6. CASE ClosePage
  <2>1. page' = [open |-> FALSE, from |-> EmptyDb, answers |-> << >>] /\ UNCHANGED <<vars, pager>>
    BY <1>6 DEF ClosePage, Closed
  <2>2. PageRead(page', db)
    BY <2>1 DEF PageRead
  <2> QED
    BY <1>4, <2>1, <2>2
<1>7. ASSUME NEW table \in Tables, AnswerTable(table) PROVE PageInv'
  <2>1. PICK p, a, a2 :
          /\ p = page /\ a = page.answers
          /\ a2 = [t \in DOMAIN a \cup {table} |-> IF t = table THEN Query(db, t) ELSE a[t]]
    OBVIOUS
  <2>2. page' = [p EXCEPT !.answers = a2] /\ UNCHANGED <<vars, pager>> /\ p.open
    BY <1>7, <2>1 DEF AnswerTable
  <2>3. PageRead(p, db)
    BY <2>1 DEF PageInv
  <2>4. PICK p2 : p2 = [p EXCEPT !.answers = a2]
    OBVIOUS
  <2>5. /\ DOMAIN p2 = {"open", "from", "answers"} /\ p2.open = p.open /\ p2.from = p.from
        /\ p2.answers = a2
    BY <2>3, <2>4 DEF PageRead
  <2>6. ASSUME NEW t \in DOMAIN a2
        PROVE  /\ t \in Tables
               /\ \E r : Joined(r) /\ Grown(p.from, r) /\ Grown(r, db) /\ a2[t] = Query(r, t)
    <3>1. CASE t = table
      <4>1. a2[t] = Query(db, t)
        BY <2>1, <2>6, <3>1
      <4> QED
        BY <1>1, <1>3, <2>2, <2>3, <3>1, <4>1 DEF PageRead
    <3>2. CASE t # table
      <4>1. t \in DOMAIN a /\ a2[t] = a[t]
        BY <2>1, <2>6, <3>2
      <4> QED
        BY <2>1, <2>3, <4>1 DEF PageRead
    <3> QED
      BY <3>1, <3>2
  <2>7. PageRead(p2, db)
    BY <2>2, <2>3, <2>5, <2>6 DEF PageRead
  <2> QED
    BY <1>4, <2>2, <2>4, <2>7
<1>8. ASSUME NEW table \in AuditTables, ReadOn(table) PROVE PageInv'
  <2>1. PICK S, log, read : S = AuditedMintRows \cup AuditedBurnRows /\ log = db[table] /\ read = pager[table]
    OBVIOUS
  <2>2. /\ log \in Seq(S) /\ read \in Seq(S) /\ Extends(log, read) /\ DOMAIN pager = AuditTables
    BY <1>1, <2>1, LogTypes DEF Joined, PageInv, PagerRead
  <2>3. list(db, table, Len(read), PageLimit) = PageOf(log, Len(read), PageLimit)
    BY <1>1, <2>1, JoinsKeepAll DEF list, AuditTables
  <2>4. PICK more : more = read \o PageOf(log, Len(read), PageLimit)
    OBVIOUS
  <2>5. more \in Seq(S) /\ Extends(log, more)
    BY <2>2, <2>4, PagesExtend, PageAssumption
  <2>6. pager' = [pager EXCEPT ![table] = more] /\ UNCHANGED <<vars, page>>
    BY <1>8, <2>1, <2>3, <2>4 DEF ReadOn
  <2>7. db' = db /\ page' = page
    BY <2>6 DEF vars, storeVars
  <2>8. PagerRead(pager', db)
    BY <2>1, <2>2, <2>5, <2>6 DEF PageInv, PagerRead
  <2>9. PageRead(page', db') /\ PagerRead(pager', db')
    BY <2>7, <2>8 DEF PageInv
  <2> QED
    BY <2>9 DEF PageInv
<1> QED
  BY <1>2, <1>5, <1>6, <1>7, <1>8 DEF PageNext, pageVars

\* It holds in every reachable state.
LEMMA PageInvariance == PageSpec => [](Kept /\ PageInv)
<1>1. PageInit => Init
  BY DEF PageInit
<1>2. [PageNext]_pageVars => [Next]_vars
  BY DEF PageNext, pageVars, OpenPage, ClosePage, AnswerTable, ReadOn
<1>3. PageSpec => Spec
  BY <1>1, <1>2, PTL DEF PageSpec, Spec
<1>4. PageInit /\ Kept => PageInv
  <2> SUFFICES ASSUME PageInit, Kept PROVE PageInv
    OBVIOUS
  <2>1. /\ page = [open |-> FALSE, from |-> EmptyDb, answers |-> << >>]
        /\ pager = [t \in AuditTables |-> << >>]
    BY DEF PageInit, Closed
  <2>2. PageRead(page, db)
    BY <2>1 DEF PageRead
  <2>3. ASSUME NEW t \in AuditTables
        PROVE  << >> \in Seq(AuditedMintRows \cup AuditedBurnRows) /\ Extends(db[t], << >>)
    <3>1. PICK S, q, e : S = AuditedMintRows \cup AuditedBurnRows /\ q = db[t] /\ e = << >>
      OBVIOUS
    <3>2. q \in Seq(S) /\ e \in Seq(S) /\ Len(e) = 0 /\ Len(q) \in Nat
      BY <3>1, LogTypes, TypeFacts DEF Kept
    <3>3. Len(e) <= Len(q) /\ \A i \in 1 .. Len(e) : q[i] = e[i]
      BY <3>2
    <3>4. Extends(q, e)
      BY <3>2, <3>3, ExtendsEntries
    <3> QED
      BY <3>1, <3>2, <3>4
  <2> QED
    BY <2>1, <2>2, <2>3 DEF PageInv, PagerRead
<1>5. Kept /\ Kept' /\ [PageNext]_pageVars /\ PageInv => PageInv'
  BY NextPageInv
<1>6. Spec => []Kept
  BY Invariance, UnitInvariance, LogsInvariance, PTL DEF Kept
<1> QED
  BY <1>3, <1>4, <1>5, <1>6, PTL DEF PageSpec

\* Pages that a client reads one after the other fit together
\* (TablePage!PagesFitTogether), for any limit and however the log grows.
THEOREM PagesFit == PageSpec => []PagesFitTogether
<1>1. PageInv => PagesFitTogether
  BY DEF PageInv, PagerRead, PagesFitTogether
<1> QED
  BY <1>1, PageInvariance, PTL

\* The row x, named key in column side of the log, is on the page once, as
\* TablePage!ListedOnce says it of each row.
RowListed(log, list_table, x, key, side) ==
  Has(page.from[log], side, key) = Has(db[log], side, key) =>
    /\ (x \in shown(list_table)) = ~Has(page.from[log], side, key)
    /\ Cardinality(Places(shown(log), side, key))
         = IF Has(page.from[log], side, key) /\ OnPage(db[log], side, key) THEN 1 ELSE 0

\* The list shows x if it was not in the log when the list was read.
ListTells(log, list_table, x, key, side) ==
  \A r : /\ Grown(page.from, r)
         /\ page.answers[list_table] = Query(r, list_table)
         => (x \in shown(list_table) <=> ~Has(r[log], side, key))

\* A row of the page is listed once if its list holds the rows that the log
\* lacked when the list was read.
LEMMA RowIsListed ==
  ASSUME PageInv, Joined(db), NEW log \in AuditTables, NEW list_table \in Tables,
         log \in DOMAIN page.answers, list_table \in DOMAIN page.answers,
         NEW x, NEW key, NEW side, OneEach(db[log], side),
         ListTells(log, list_table, x, key, side)
  PROVE  RowListed(log, list_table, x, key, side)
<1>1. PICK S, from, F, D : /\ S = AuditedMintRows \cup AuditedBurnRows
                           /\ from = page.from /\ F = from[log] /\ D = db[log]
  OBVIOUS
<1>2. PICK a : Joined(a) /\ Grown(from, a) /\ Grown(a, db) /\ page.answers[log] = Query(a, log)
  BY <1>1 DEF PageInv, PageRead
<1>3. PICK b : /\ Joined(b) /\ Grown(from, b) /\ Grown(b, db)
               /\ page.answers[list_table] = Query(b, list_table)
  BY <1>1 DEF PageInv, PageRead
<1>4. Joined(from)
  BY <1>1 DEF PageInv, PageRead
<1>5. F \in Seq(S) /\ D \in Seq(S)
  BY <1>1, <1>4, LogTypes DEF Joined
<1>6. ASSUME NEW r, Joined(r), Grown(from, r), Grown(r, db)
      PROVE  r[log] \in Seq(S) /\ Extends(r[log], F) /\ Extends(D, r[log])
  BY <1>1, <1>6, LogTypes DEF Joined, Grown
<1>7. PICK L, M : L = a[log] /\ M = b[log]
  OBVIOUS
<1>8. /\ L \in Seq(S) /\ Extends(L, F) /\ Extends(D, L)
      /\ M \in Seq(S) /\ Extends(M, F) /\ Extends(D, M)
  BY <1>2, <1>3, <1>6, <1>7
<1>9. shown(log) = PageOf(L, 0, PageLimit)
  <2>1. shown(log) = page.answers[log]
    BY DEF shown, AuditTables
  <2>2. Query(a, log) = list(a, log, 0, PageLimit)
    BY DEF Query, AuditTables
  <2>3. list(a, log, 0, PageLimit) = PageOf(L, 0, PageLimit)
    BY <1>2, <1>7, JoinsKeepAll DEF list, AuditTables
  <2> QED
    BY <1>2, <2>1, <2>2, <2>3
<1>10. ASSUME Has(F, side, key) <=> Has(D, side, key)
       PROVE  /\ x \in shown(list_table) <=> ~Has(F, side, key)
              /\ Cardinality(Places(shown(log), side, key))
                   = IF Has(F, side, key) /\ OnPage(D, side, key) THEN 1 ELSE 0
  <2>1. Has(M, side, key) <=> Has(F, side, key)
    BY <1>5, <1>8, <1>10, InLogBetween
  <2>2. x \in shown(list_table) <=> ~Has(M, side, key)
    BY <1>1, <1>3, <1>7 DEF ListTells
  <2>3. OneEach(D, side)
    BY <1>1
  <2> QED
    BY <1>5, <1>8, <1>9, <1>10, <2>1, <2>2, <2>3, EntriesOnPage
<1>11. Has(F, side, key) \in BOOLEAN /\ Has(D, side, key) \in BOOLEAN
  BY DEF Has
<1> QED
  BY <1>1, <1>10, <1>11 DEF RowListed

\* Every mint and deposit that was stored when the page was opened is on the
\* loaded page once (TablePage!MintsAreListedOnce), although its tables are read
\* at different moments, for any limit and any number of rows.
THEOREM MintsListed == PageSpec => []MintsAreListedOnce
<1>1. Kept /\ PageInv => MintsAreListedOnce
  <2> SUFFICES ASSUME Kept, PageInv, MintTables \subseteq DOMAIN page.answers
               PROVE  /\ ListedOnce("audited_mints", "unaudited_mints",
                                    {m \in page.from.mint_txs : m.token_id = PageToken},
                                    LAMBDA m : m.nonce, "mint")
                      /\ ListedOnce("audited_mints", "unaudited_deposits",
                                    page.from.deposits, LAMBDA e : e.eth_tx_hash, "deposit")
    BY DEF MintsAreListedOnce
  <2>1. /\ Joined(db) /\ "audited_mints" \in AuditTables
        /\ {"unaudited_mints", "unaudited_deposits"} \subseteq Tables
        /\ {"audited_mints", "unaudited_mints", "unaudited_deposits"} \subseteq DOMAIN page.answers
    BY TypeFacts DEF Kept, Joined, AuditTables, Tables, MintTables
  <2>2. OneEach(db.audited_mints, "mint") /\ OneEach(db.audited_mints, "deposit")
    BY DEF Kept, LogInv, MintLogInv, OneToOneMints, OneEach
  <2>3. ASSUME NEW m \in page.from.mint_txs, m.token_id = PageToken, NEW r,
               Grown(page.from, r), page.answers["unaudited_mints"] = Query(r, "unaudited_mints")
        PROVE  m \in shown("unaudited_mints") <=> ~Has(r.audited_mints, "mint", m.nonce)
    <3>1. m \in r.mint_txs
      BY <2>3 DEF Grown, PageFields
    <3>2. Query(r, "unaudited_mints") = find_unaudited_mint_txs(r)
      BY DEF Query, AuditTables
    <3>3. shown("unaudited_mints") = {x \in page.answers["unaudited_mints"] : x.token_id = PageToken}
      BY DEF shown
    <3>4. m \in find_unaudited_mint_txs(r) <=> ~Has(r.audited_mints, "mint", m.nonce)
      BY <3>1 DEF find_unaudited_mint_txs, MintIsAudited, Has, Places
    <3> QED
      BY <2>3, <3>2, <3>3, <3>4
  <2>4. ASSUME NEW e \in page.from.deposits, NEW r,
               Grown(page.from, r), page.answers["unaudited_deposits"] = Query(r, "unaudited_deposits")
        PROVE  e \in shown("unaudited_deposits")
                 <=> ~Has(r.audited_mints, "deposit", e.eth_tx_hash)
    <3>1. e \in r.deposits
      BY <2>4 DEF Grown, PageFields
    <3>2. Query(r, "unaudited_deposits") = find_unaudited_deposits(r)
      BY DEF Query, AuditTables
    <3>3. shown("unaudited_deposits") = page.answers["unaudited_deposits"]
      BY DEF shown
    <3>4. e \in find_unaudited_deposits(r) <=> ~Has(r.audited_mints, "deposit", e.eth_tx_hash)
      BY <3>1 DEF find_unaudited_deposits, DepositIsAudited, Has, Places
    <3> QED
      BY <2>4, <3>2, <3>3, <3>4
  <2>5. ASSUME NEW m \in page.from.mint_txs, m.token_id = PageToken
        PROVE  RowListed("audited_mints", "unaudited_mints", m, m.nonce, "mint")
    <3>1. ListTells("audited_mints", "unaudited_mints", m, m.nonce, "mint")
      BY <2>3, <2>5 DEF ListTells
    <3> QED
      BY <2>1, <2>2, <3>1, RowIsListed
  <2>6. ASSUME NEW e \in page.from.deposits
        PROVE  RowListed("audited_mints", "unaudited_deposits", e, e.eth_tx_hash, "deposit")
    <3>1. ListTells("audited_mints", "unaudited_deposits", e, e.eth_tx_hash, "deposit")
      BY <2>4 DEF ListTells
    <3> QED
      BY <2>1, <2>2, <3>1, RowIsListed
  <2>7. ListedOnce("audited_mints", "unaudited_mints",
                   {m \in page.from.mint_txs : m.token_id = PageToken}, LAMBDA m : m.nonce, "mint")
    BY <2>5 DEF ListedOnce, RowListed, Has, Places, OnPage
  <2>8. ListedOnce("audited_mints", "unaudited_deposits", page.from.deposits,
                   LAMBDA e : e.eth_tx_hash, "deposit")
    BY <2>6 DEF ListedOnce, RowListed, Has, Places, OnPage
  <2> QED
    BY <2>7, <2>8
<1> QED
  BY <1>1, PageInvariance, PTL

\* The same for burns and withdrawals (TablePage!BurnsAreListedOnce).
THEOREM BurnsListed == PageSpec => []BurnsAreListedOnce
<1>1. Kept /\ PageInv => BurnsAreListedOnce
  <2> SUFFICES ASSUME Kept, PageInv, BurnTables \subseteq DOMAIN page.answers
               PROVE  /\ ListedOnce("audited_burns", "unaudited_burns",
                                    {b \in page.from.burn_tx_outs : b.token_id = PageToken},
                                    LAMBDA b : b.public_key, "burn")
                      /\ ListedOnce("audited_burns", "unaudited_withdrawals",
                                    page.from.withdrawals, LAMBDA w : w.eth_tx_hash, "withdrawal")
    BY DEF BurnsAreListedOnce
  <2>1. /\ Joined(db) /\ "audited_burns" \in AuditTables
        /\ {"unaudited_burns", "unaudited_withdrawals"} \subseteq Tables
        /\ {"audited_burns", "unaudited_burns", "unaudited_withdrawals"} \subseteq DOMAIN page.answers
    BY TypeFacts DEF Kept, Joined, AuditTables, Tables, BurnTables
  <2>2. OneEach(db.audited_burns, "burn") /\ OneEach(db.audited_burns, "withdrawal")
    BY DEF Kept, LogInv, BurnLogInv, OneToOneBurns, OneEach
  <2>3. ASSUME NEW b \in page.from.burn_tx_outs, b.token_id = PageToken, NEW r,
               Grown(page.from, r), page.answers["unaudited_burns"] = Query(r, "unaudited_burns")
        PROVE  b \in shown("unaudited_burns") <=> ~Has(r.audited_burns, "burn", b.public_key)
    <3>1. b \in r.burn_tx_outs
      BY <2>3 DEF Grown, PageFields
    <3>2. Query(r, "unaudited_burns") = find_unaudited_burn_tx_outs(r)
      BY DEF Query, AuditTables
    <3>3. shown("unaudited_burns") = {x \in page.answers["unaudited_burns"] : x.token_id = PageToken}
      BY DEF shown
    <3>4. b \in find_unaudited_burn_tx_outs(r) <=> ~Has(r.audited_burns, "burn", b.public_key)
      BY <3>1 DEF find_unaudited_burn_tx_outs, BurnIsAudited, Has, Places
    <3> QED
      BY <2>3, <3>2, <3>3, <3>4
  <2>4. ASSUME NEW w \in page.from.withdrawals, NEW r,
               Grown(page.from, r), page.answers["unaudited_withdrawals"] = Query(r, "unaudited_withdrawals")
        PROVE  w \in shown("unaudited_withdrawals")
                 <=> ~Has(r.audited_burns, "withdrawal", w.eth_tx_hash)
    <3>1. w \in r.withdrawals
      BY <2>4 DEF Grown, PageFields
    <3>2. Query(r, "unaudited_withdrawals") = find_unaudited_withdrawals(r)
      BY DEF Query, AuditTables
    <3>3. shown("unaudited_withdrawals") = page.answers["unaudited_withdrawals"]
      BY DEF shown
    <3>4. w \in find_unaudited_withdrawals(r) <=> ~Has(r.audited_burns, "withdrawal", w.eth_tx_hash)
      BY <3>1 DEF find_unaudited_withdrawals, WithdrawalIsAudited, Has, Places
    <3> QED
      BY <2>4, <3>2, <3>3, <3>4
  <2>5. ASSUME NEW b \in page.from.burn_tx_outs, b.token_id = PageToken
        PROVE  RowListed("audited_burns", "unaudited_burns", b, b.public_key, "burn")
    <3>1. ListTells("audited_burns", "unaudited_burns", b, b.public_key, "burn")
      BY <2>3, <2>5 DEF ListTells
    <3> QED
      BY <2>1, <2>2, <3>1, RowIsListed
  <2>6. ASSUME NEW w \in page.from.withdrawals
        PROVE  RowListed("audited_burns", "unaudited_withdrawals", w, w.eth_tx_hash, "withdrawal")
    <3>1. ListTells("audited_burns", "unaudited_withdrawals", w, w.eth_tx_hash, "withdrawal")
      BY <2>4 DEF ListTells
    <3> QED
      BY <2>1, <2>2, <3>1, RowIsListed
  <2>7. ListedOnce("audited_burns", "unaudited_burns",
                   {b \in page.from.burn_tx_outs : b.token_id = PageToken}, LAMBDA b : b.public_key, "burn")
    BY <2>5 DEF ListedOnce, RowListed, Has, Places, OnPage
  <2>8. ListedOnce("audited_burns", "unaudited_withdrawals", page.from.withdrawals,
                   LAMBDA w : w.eth_tx_hash, "withdrawal")
    BY <2>6 DEF ListedOnce, RowListed, Has, Places, OnPage
  <2> QED
    BY <2>7, <2>8
<1> QED
  BY <1>1, PageInvariance, PTL

----------------------------------------------------------------------------
(* The gauges.                                                             *)

\* Every step, seen from the lock: a transaction begins, writes, is committed
\* at its last program point, or is undone together with its process.
LockBegins == \E t \in Threads : holder = {} /\ holder' = {t} /\ db' = db /\ wdb' = db

LockWrites == holder # {} /\ holder' = holder /\ db' = db

AtCommit(t) ==
  IF t = ScanThread(t[1]) THEN scan[t[1]].pc = "commit" ELSE work[t].pc = "commit"

LockCommits ==
  \E t \in holder : AtCommit(t) /\ holder' = holder \ {t} /\ db' = wdb /\ wdb' = wdb

LockUndoes ==
  \E ts : /\ holder' = holder \ ts /\ db' = db
          /\ wdb' = IF holder \cap ts # {} THEN db ELSE wdb
          /\ \A p \in Procs : ThreadsOf(p) \cap ts # {} => ThreadIsDead(p) \/ ThreadIsDead(p)'

\* Only its restart revives a process, and takes its transaction away.
LEMMA RestartFrees ==
  ASSUME IInv, [Next]_vars, NEW p \in Procs, Restarts(p)
  PROVE  holder' \cap ThreadsOf(p) = {} /\ db' = db
<1>1. scan \in [Procs -> ScanStates] /\ work \in [Workers -> WorkStates]
  BY TypeFacts
<1>2. CASE Restart(p)
  BY <1>2 DEF Restart, RollbackOf
<1>3. CASE ~Restart(p)
  <2>1. ASSUME NEW q \in Procs, ScanStep(q) \/ BeginBlock(q) \/ BlockLockTimeout(q)
        PROVE  scan[q].pc # "dead" /\ \A x \in Procs : x # q => scan'[x] = scan[x]
    BY <1>1, <2>1
       DEF ScanStep, BeginBlock, BlockLockTimeout, SyncLoop, CheckBlockIndex, Goto, NextItem,
           StoreMintConfigTx, LoadBalances, StoreMintTx, MintTxsDone, SkipOutput,
           StoreBurnTxOut, FinishBlock, SyncBlockFails, SyncBlockError, AuditMint,
           AuditMintsDone, AuditBurn, AuditBurnsDone, CommitBlock
  <2>2. ASSUME NEW t \in Workers, WorkStep(t) \/ BeginTx(t) \/ TxLockTimeout(t)
        PROVE  work[t].pc # "dead" /\ \A x \in Workers : x # t => work'[x] = work[x]
    BY <1>1, <2>2
       DEF WorkStep, BeginTx, TxLockTimeout, Poll, PollDone, SkipTx, InsertTx, DecodeFails,
           CommitTx, UnknownTransfer, UnknownTokenTransfer, StoreDeposit, DepositFails,
           TransfersDone, OtherSafeMultiSig, InvalidMultiSig, StoreWithdrawal, MultiSigFails,
           WorkFails, WorkGoto, AtTransfer, AtMultiSig
  <2>3. scan[p].pc = "dead" => scan'[p].pc = "dead"
    <3>1. CASE LedgerNext /\ UNCHANGED gnosisVars
      BY <2>1, <3>1 DEF LedgerNext, GrowLedger
    <3>2. CASE GnosisNext /\ UNCHANGED ledgerVars
      BY <3>2 DEF ledgerVars
    <3>3. ASSUME NEW q \in Procs, Crash(q) \/ Restart(q)
          PROVE  scan[p].pc = "dead" => scan'[p].pc = "dead"
      BY <1>1, <1>3, <3>3 DEF Crash, Restart
    <3> QED
      BY <3>1, <3>2, <3>3 DEF Next, vars
  <2>4. ASSUME NEW t \in Workers, t[1] = p, work[t].pc = "dead" PROVE work'[t].pc = "dead"
    <3>1. CASE LedgerNext /\ UNCHANGED gnosisVars
      BY <2>4, <3>1 DEF gnosisVars
    <3>2. CASE GnosisNext /\ UNCHANGED ledgerVars
      BY <2>2, <2>4, <3>2 DEF GnosisNext, ListTx
    <3>3. ASSUME NEW q \in Procs, Crash(q) \/ Restart(q)
          PROVE  work'[t].pc = "dead"
      BY <1>1, <1>3, <2>4, <3>3 DEF Crash, Restart, WorkAt
    <3> QED
      BY <2>4, <3>1, <3>2, <3>3 DEF Next, vars
  <2> QED
    BY <2>3, <2>4 DEF Restarts, ThreadIsDead
<1> QED
  BY <1>2, <1>3

\* Every step of the auditor is one of these.
LEMMA LockCases ==
  ASSUME IInv, [Next]_vars
  PROVE  LockBegins \/ LockWrites \/ LockCommits \/ LockUndoes
<1>1. scan \in [Procs -> ScanStates] /\ work \in [Workers -> WorkStates]
  BY TypeFacts
<1>2. ASSUME holder' = holder, db' = db, wdb' = wdb PROVE LockUndoes
  <2>1. /\ holder' = holder \ {} /\ wdb' = IF holder \cap {} # {} THEN db ELSE wdb
        /\ \A p \in Procs : ThreadsOf(p) \cap {} # {} => ThreadIsDead(p) \/ ThreadIsDead(p)'
    BY <1>2
  <2> QED
    BY <1>2, <2>1 DEF LockUndoes
<1>3. \A p \in Procs : ScanThread(p) \in Threads /\ ScanThread(p)[1] = p
  BY DEF Threads, ScanThread
<1>4. \A t \in Workers : t \in Threads /\ t[1] \in Procs /\ t # ScanThread(t[1])
  <2>1. \A k \in DOMAIN Config : k # 0
    BY DbAssumption
  <2> QED
    BY <2>1 DEF Threads, Workers, ScanThread
<1>5. ASSUME NEW p \in Procs, ScanStep(p) \/ BeginBlock(p) \/ BlockLockTimeout(p)
      PROVE  LockBegins \/ LockWrites \/ LockCommits \/ LockUndoes
  <2>1. CASE SyncLoop(p) \/ BlockLockTimeout(p)
    BY <1>2, <2>1 DEF SyncLoop, BlockLockTimeout, LockTimeout, storeVars
  <2>2. CASE BeginBlock(p)
    BY <1>3, <2>2 DEF BeginBlock, Begin, LockBegins
  <2>3. CASE CommitBlock(p)
    <3>1. AtCommit(ScanThread(p))
      BY <1>3, <2>3 DEF CommitBlock, AtCommit
    <3> QED
      BY <2>3, <3>1 DEF CommitBlock, Commit, LockCommits
  <2>4. CASE SyncBlockFails(p)
    <3>1. ThreadIsDead(p)'
      BY <1>1, <2>4 DEF SyncBlockFails, ScanAt, ThreadIsDead
    <3>2. \A q \in Procs : ThreadsOf(q) \cap {ScanThread(p)} # {} => q = p
      BY <1>3 DEF ThreadsOf
    <3> QED
      BY <2>4, <3>1, <3>2 DEF SyncBlockFails, Rollback, RollbackOf, LockUndoes
  <2>5. CASE ScanStep(p) /\ ~SyncLoop(p) /\ ~CommitBlock(p) /\ ~SyncBlockFails(p)
    BY <2>5
       DEF ScanStep, CheckBlockIndex, StoreMintConfigTx, LoadBalances, StoreMintTx,
           MintTxsDone, SkipOutput, StoreBurnTxOut, FinishBlock, AuditMint,
           AuditMintsDone, AuditBurn, AuditBurnsDone, Write, LockWrites
  <2> QED
    BY <1>5, <2>1, <2>2, <2>3, <2>4, <2>5
<1>6. ASSUME NEW t \in Workers, WorkStep(t) \/ BeginTx(t) \/ TxLockTimeout(t)
      PROVE  LockBegins \/ LockWrites \/ LockCommits \/ LockUndoes
  <2>1. CASE Poll(t) \/ PollDone(t) \/ TxLockTimeout(t)
    BY <1>2, <2>1 DEF Poll, PollDone, TxLockTimeout, LockTimeout, storeVars
  <2>2. CASE BeginTx(t)
    BY <1>4, <2>2 DEF BeginTx, Begin, LockBegins
  <2>3. CASE CommitTx(t)
    <3>1. AtCommit(t)
      BY <1>4, <2>3 DEF CommitTx, AtCommit
    <3> QED
      BY <2>3, <3>1 DEF CommitTx, Commit, LockCommits
  <2>4. CASE DecodeFails(t) \/ DepositFails(t) \/ MultiSigFails(t)
    <3>1. WorkFails(t)
      BY <2>4 DEF DecodeFails, DepositFails, MultiSigFails
    <3>2. ThreadIsDead(t[1])'
      <4>1. work'[t].pc = "dead"
        BY <1>1, <3>1 DEF WorkFails, WorkAt
      <4> QED
        BY <4>1 DEF ThreadIsDead
    <3>3. \A q \in Procs : ThreadsOf(q) \cap {t} # {} => q = t[1]
      BY DEF ThreadsOf
    <3> QED
      BY <3>1, <3>2, <3>3 DEF WorkFails, Rollback, RollbackOf, LockUndoes
  <2>5. CASE /\ WorkStep(t) /\ ~Poll(t) /\ ~PollDone(t) /\ ~CommitTx(t) /\ ~DecodeFails(t)
             /\ ~DepositFails(t) /\ ~MultiSigFails(t)
    BY <2>5
       DEF WorkStep, SkipTx, InsertTx, UnknownTransfer, UnknownTokenTransfer, StoreDeposit,
           TransfersDone, OtherSafeMultiSig, InvalidMultiSig, StoreWithdrawal, Write, LockWrites
  <2> QED
    BY <1>6, <2>1, <2>2, <2>3, <2>4, <2>5
<1>7. ASSUME NEW p \in Procs, Crash(p) \/ Restart(p) PROVE LockUndoes
  <2>1. ThreadIsDead(p) \/ ThreadIsDead(p)'
    BY <1>1, <1>7 DEF Crash, Restart, ScanAt, ThreadIsDead
  <2>2. \A q \in Procs : ThreadsOf(q) \cap ThreadsOf(p) # {} => q = p
    BY DEF ThreadsOf
  <2>3. RollbackOf(ThreadsOf(p))
    BY <1>7 DEF Crash, Restart, CrashStore
  <2> QED
    BY <2>1, <2>2, <2>3 DEF RollbackOf, LockUndoes
<1>8. CASE UNCHANGED vars
  BY <1>2, <1>8 DEF vars
<1>9. CASE LedgerNext /\ UNCHANGED gnosisVars
  BY <1>2, <1>5, <1>9 DEF LedgerNext, GrowLedger, storeVars
<1>10. CASE GnosisNext /\ UNCHANGED ledgerVars
  BY <1>2, <1>6, <1>10 DEF GnosisNext, ListTx, storeVars
<1> QED
  BY <1>7, <1>8, <1>9, <1>10 DEF Next

\* At most one thread is inside a transaction; the gauges of its process show
\* the counters it sees, or it has not changed any; and the gauges of a process
\* that has no dead thread count no more than it sees.
GaugeInv ==
  /\ DOMAIN gauges = Procs
  /\ holder = {} \/ \E t \in Threads : holder = {t}
  /\ \A p \in Procs : InTransaction(p) =>
       wdb.counters = db.counters \/ gauges[p] = wdb.counters
  /\ \A p \in Procs : ~ThreadIsDead(p) =>
       /\ gauges[p] \in [CounterNames -> Nat]
       /\ \A k \in CounterNames :
            gauges[p][k] <= (IF InTransaction(p) THEN wdb ELSE db).counters[k]

\* An error at the last program point of a transaction counts nothing.
LEMMA NothingAtCommit ==
  ASSUME NEW t, AtCommit(t)
  PROVE  CountersAtError(t) = gauges[t[1]]
  BY DEF CountersAtError, AtCommit

\* What a step may do to the gauges of a process.
LEMMA GaugeMoves ==
  ASSUME IInv, GaugeNext, GaugeInv, NEW p \in Procs
  PROVE  /\ Restarts(p) => gauges'[p] = ZeroGauges
         /\ LockBegins /\ ~Restarts(p) => gauges'[p] = gauges[p]
         /\ LockWrites /\ InTransaction(p) /\ ~Restarts(p) =>
              gauges'[p] = wdb'.counters
                \/ (gauges'[p] = gauges[p] /\ wdb'.counters = wdb.counters)
         /\ LockWrites /\ ~InTransaction(p) /\ ~Restarts(p) => gauges'[p] = gauges[p]
         /\ LockCommits /\ ~Restarts(p) => gauges'[p] = gauges[p]
         /\ LockUndoes /\ ~Restarts(p) =>
              gauges'[p] = gauges[p]
                \/ (InTransaction(p) /\ ~InTransaction(p)' /\ (ThreadIsDead(p) \/ ThreadIsDead(p)'))
<1>1. gauges'[p] = GaugesAfter(p)
  BY DEF GaugeNext
<1>2. PICK one : (holder = {} \/ holder = {one}) /\ (holder # {} => one \in Threads)
  BY DEF GaugeInv
<1>3. InTransaction(p) <=> holder # {} /\ holder \subseteq ThreadsOf(p)
  BY <1>2 DEF InTransaction
<1>4. Restarts(p) => gauges'[p] = ZeroGauges
  BY <1>1 DEF GaugesAfter
<1>5. ASSUME ~Restarts(p)
      PROVE  gauges'[p] = IF Counts(p) THEN wdb'.counters
                          ELSE IF Errs(p) THEN CountersAtError(CHOOSE t \in holder : TRUE)
                          ELSE gauges[p]
  BY <1>1, <1>5 DEF GaugesAfter, update_prometheus
<1>6. LockBegins => ~Counts(p) /\ ~Errs(p)
  BY DEF LockBegins, Counts, Errs
<1>7. LockWrites => ~Errs(p) /\ (Counts(p) <=> InTransaction(p) /\ wdb'.counters # wdb.counters)
  BY <1>3 DEF LockWrites, Counts, Errs
<1>8. LockCommits => /\ ~Counts(p)
                     /\ Errs(p) => CountersAtError(CHOOSE t \in holder : TRUE) = gauges[p]
  <2> SUFFICES ASSUME LockCommits
               PROVE  /\ ~Counts(p)
                      /\ Errs(p) => CountersAtError(CHOOSE t \in holder : TRUE) = gauges[p]
    OBVIOUS
  <2>1. PICK t \in holder : AtCommit(t) /\ holder' = holder \ {t}
    BY DEF LockCommits
  <2>2. holder = {t} /\ (CHOOSE x \in holder : TRUE) = t
    BY <1>2, <2>1
  <2>3. CountersAtError(t) = gauges[t[1]]
    BY <2>1, NothingAtCommit
  <2>4. Errs(p) => t[1] = p
    BY <2>1 DEF Errs, ThreadsOf
  <2> QED
    BY <2>1, <2>2, <2>3, <2>4 DEF Counts
<1>9. LockUndoes => /\ ~Counts(p)
                    /\ Errs(p) => /\ InTransaction(p) /\ ~InTransaction(p)'
                                  /\ ThreadIsDead(p) \/ ThreadIsDead(p)'
  <2> SUFFICES ASSUME LockUndoes
               PROVE  /\ ~Counts(p)
                      /\ Errs(p) => /\ InTransaction(p) /\ ~InTransaction(p)'
                                    /\ ThreadIsDead(p) \/ ThreadIsDead(p)'
    OBVIOUS
  <2>1. PICK ts : /\ holder' = holder \ ts /\ wdb' = IF holder \cap ts # {} THEN db ELSE wdb
                  /\ ThreadsOf(p) \cap ts # {} => ThreadIsDead(p) \/ ThreadIsDead(p)'
    BY DEF LockUndoes
  <2>2. ~Counts(p)
    BY <2>1 DEF Counts
  <2>3. ASSUME Errs(p) PROVE ThreadsOf(p) \cap ts # {}
    BY <2>1, <2>3 DEF Errs
  <2>4. Errs(p) => InTransaction(p) /\ ~InTransaction(p)'
    BY <1>3 DEF Errs, InTransaction
  <2> QED
    BY <2>1, <2>2, <2>3, <2>4
<1> QED
  BY <1>4, <1>5, <1>6, <1>7, <1>8, <1>9

\* What GaugeInv says of one process; g are its gauges, w the counters it sees.
Bounded(g, w) == g \in [CounterNames -> Nat] /\ \A k \in CounterNames : g[k] <= w.counters[k]

\* Every step keeps the gauges in bounds.
LEMMA NextGaugeInv ==
  ASSUME Served, Served', GaugeNext, GaugeInv
  PROVE  GaugeInv'
<1>1. IInv /\ IInv' /\ [Next]_vars
  BY DEF Served, GaugeNext
<1>2. /\ \A k \in CounterNames : db.counters[k] <= db'.counters[k]
      /\ db \in Databases /\ db' \in Databases /\ wdb \in Databases /\ wdb' \in Databases
  BY <1>1, CommittedRowsStay, TypeFacts DEF Served, IInv, TypeOK, LedgerTypeOK, StoreTypeOK
<1>3. /\ db.counters \in [CounterNames -> Nat] /\ db'.counters \in [CounterNames -> Nat]
      /\ wdb.counters \in [CounterNames -> Nat] /\ wdb'.counters \in [CounterNames -> Nat]
  BY <1>2 DEF Databases
<1>4. DOMAIN gauges' = Procs
  BY DEF GaugeNext
<1>5. PICK one : (holder = {} \/ holder = {one}) /\ (holder # {} => one \in Threads)
  BY DEF GaugeInv
<1>6. LockBegins \/ LockWrites \/ LockCommits \/ LockUndoes
  BY <1>1, LockCases
<1>7. holder' = {} \/ \E t \in Threads : holder' = {t}
  <2>1. CASE LockBegins
    BY <2>1 DEF LockBegins
  <2>2. CASE LockWrites \/ LockCommits \/ LockUndoes
    <3>1. holder' \subseteq holder
      BY <2>2 DEF LockWrites, LockCommits, LockUndoes
    <3> QED
      BY <1>5, <3>1
  <2> QED
    BY <1>6, <2>1, <2>2
<1>8. ASSUME NEW p \in Procs
      PROVE  /\ InTransaction(p)' => wdb'.counters = db'.counters \/ gauges'[p] = wdb'.counters
             /\ ~ThreadIsDead(p)' => Bounded(gauges'[p], IF InTransaction(p)' THEN wdb' ELSE db')
  <2>1. /\ InTransaction(p) => wdb.counters = db.counters \/ gauges[p] = wdb.counters
        /\ ~ThreadIsDead(p) => Bounded(gauges[p], IF InTransaction(p) THEN wdb ELSE db)
    BY DEF GaugeInv, Bounded
  <2>2. InTransaction(p) <=> holder # {} /\ one \in ThreadsOf(p)
    BY <1>5 DEF InTransaction
  <2>3. InTransaction(p)' <=> holder' \cap ThreadsOf(p) # {}
    BY DEF InTransaction, ThreadsOf, Threads, Workers, ScanThread
  <2>4. CASE Restarts(p)
    <3>1. ~InTransaction(p)' /\ gauges'[p] = ZeroGauges
      BY <1>1, <2>3, <2>4, RestartFrees, GaugeMoves
    <3>2. Bounded(ZeroGauges, db')
      BY <1>3 DEF Bounded, ZeroGauges
    <3> QED
      BY <3>1, <3>2
  <2>5. CASE ~Restarts(p) /\ LockBegins
    <3>1. holder = {} /\ wdb' = db /\ db' = db /\ gauges'[p] = gauges[p]
      BY <1>1, <2>5, GaugeMoves DEF LockBegins
    <3>2. ~ThreadIsDead(p)' => ~ThreadIsDead(p)
      BY <2>5 DEF Restarts
    <3> QED
      BY <2>1, <2>2, <3>1, <3>2
  <2>6. CASE ~Restarts(p) /\ LockWrites
    <3>1. holder' = holder /\ holder # {} /\ db' = db
      BY <2>6 DEF LockWrites
    <3>2. ~ThreadIsDead(p)' => ~ThreadIsDead(p)
      BY <2>6 DEF Restarts
    <3>3. InTransaction(p)' <=> InTransaction(p)
      BY <2>3, <3>1 DEF InTransaction
    <3>4. CASE InTransaction(p)
      <4>1. \/ gauges'[p] = wdb'.counters
            \/ gauges'[p] = gauges[p] /\ wdb'.counters = wdb.counters
        BY <1>1, <2>6, <3>4, GaugeMoves
      <4>2. CASE gauges'[p] = wdb'.counters
        BY <1>3, <3>3, <3>4, <4>2 DEF Bounded
      <4>3. CASE gauges'[p] = gauges[p] /\ wdb'.counters = wdb.counters
        BY <2>1, <3>1, <3>2, <3>3, <3>4, <4>3 DEF Bounded
      <4> QED
        BY <4>1, <4>2, <4>3
    <3>5. CASE ~InTransaction(p)
      <4>1. gauges'[p] = gauges[p]
        BY <1>1, <2>6, <3>5, GaugeMoves
      <4> QED
        BY <2>1, <3>1, <3>2, <3>3, <3>5, <4>1
    <3> QED
      BY <3>4, <3>5
  <2>7. CASE ~Restarts(p) /\ LockCommits
    <3>1. holder = {one} /\ holder' = {} /\ db' = wdb
      BY <1>5, <2>7 DEF LockCommits
    <3>2. ~InTransaction(p)' /\ gauges'[p] = gauges[p]
      BY <1>1, <2>3, <2>7, <3>1, GaugeMoves
    <3>3. ASSUME ~ThreadIsDead(p)' PROVE Bounded(gauges[p], db')
      <4>1. Bounded(gauges[p], wdb) \/ Bounded(gauges[p], db)
        BY <2>1, <2>7, <3>3 DEF Restarts
      <4>2. Bounded(gauges[p], db) => Bounded(gauges[p], db')
        BY <1>2, <1>3 DEF Bounded
      <4> QED
        BY <3>1, <4>1, <4>2
    <3> QED
      BY <3>2, <3>3
  <2>8. CASE ~Restarts(p) /\ LockUndoes
    <3>1. PICK ts : /\ holder' = holder \ ts /\ db' = db
                    /\ wdb' = IF holder \cap ts # {} THEN db ELSE wdb
                    /\ ThreadsOf(p) \cap ts # {} => ThreadIsDead(p) \/ ThreadIsDead(p)'
      BY <2>8 DEF LockUndoes
    <3>2. ~ThreadIsDead(p)' => ~ThreadIsDead(p)
      BY <2>8 DEF Restarts
    <3>3. \/ gauges'[p] = gauges[p]
          \/ ~InTransaction(p)' /\ ThreadIsDead(p)'
      BY <1>1, <2>8, <3>2, GaugeMoves
    <3>4. CASE InTransaction(p)'
      <4>1. holder' = holder /\ InTransaction(p) /\ holder \cap ts = {}
        BY <1>5, <2>2, <2>3, <3>1, <3>4
      <4>2. wdb' = wdb /\ gauges'[p] = gauges[p]
        BY <3>1, <3>3, <3>4, <4>1
      <4> QED
        BY <2>1, <3>1, <3>2, <3>4, <4>1, <4>2
    <3>5. CASE ~InTransaction(p)' /\ ~ThreadIsDead(p)'
      <4>1. ~InTransaction(p)
        BY <1>5, <2>2, <2>3, <3>1, <3>2, <3>5
      <4>2. gauges'[p] = gauges[p]
        BY <3>3, <3>5
      <4> QED
        BY <2>1, <3>1, <3>2, <3>5, <4>1, <4>2
    <3> QED
      BY <3>4, <3>5
  <2> QED
    BY <1>6, <2>4, <2>5, <2>6, <2>7, <2>8
<1> QED
  BY <1>4, <1>7, <1>8 DEF GaugeInv, Bounded, Threads, Workers, ScanThread

\* The same holds when a run of the auditor is followed with its gauges.
LEMMA GaugeInvariance == GaugeSpec => [](Served /\ GaugeInv)
<1>1. GaugeInit => Init
  BY DEF GaugeInit
<1>2. [GaugeNext]_gaugeVars => [Next]_vars
  BY DEF GaugeNext, gaugeVars
<1>3. GaugeSpec => Spec
  BY <1>1, <1>2, PTL DEF GaugeSpec, Spec
<1>4. GaugeSpec => []Served
  BY <1>3, Invariance, UnitInvariance, PrefixInvariance, RowInvariance, PTL DEF Served
<1>5. GaugeInit => GaugeInv
  <2> SUFFICES ASSUME GaugeInit PROVE GaugeInv
    OBVIOUS
  <2>1. holder = {} /\ db = EmptyDb /\ gauges = [p \in Procs |-> ZeroGauges]
    BY DEF GaugeInit, Init, StoreInit
  <2>2. db.counters = ZeroGauges
    BY <2>1 DEF EmptyDb, ZeroGauges
  <2> QED
    BY <2>1, <2>2 DEF GaugeInv, InTransaction, ZeroGauges
<1>6. Served /\ Served' /\ [GaugeNext]_gaugeVars /\ GaugeInv => GaugeInv'
  <2>1. UNCHANGED gaugeVars /\ GaugeInv => GaugeInv'
    BY DEF gaugeVars, vars, GaugeInv, InTransaction, ThreadIsDead
  <2> QED
    BY <2>1, NextGaugeInv
<1> QED
  BY <1>4, <1>5, <1>6, PTL DEF GaugeSpec

\* The gauges of a running process never count what is not in the database
\* (Gauges!GaugesAreCommitted).
THEOREM GaugesTellTheTruth == GaugeSpec => []GaugesAreCommitted
<1>1. GaugeInv => GaugesAreCommitted
  BY DEF GaugeInv, GaugesAreCommitted
<1> QED
  BY <1>1, GaugeInvariance, PTL

\* A commit that changes a counter leaves the gauges of its process equal to
\* the committed row (Gauges!GaugesFollowCommits).
THEOREM GaugesFollow == GaugeSpec => GaugesFollowCommits
<1>1. Served /\ GaugeInv /\ [GaugeNext]_gaugeVars =>
        [\A p \in Procs : (InTransaction(p) /\ db'.counters # db.counters)
                          => gauges'[p] = db'.counters]_gaugeVars
  <2> SUFFICES ASSUME Served, GaugeInv, GaugeNext, NEW p \in Procs, InTransaction(p),
                      db'.counters # db.counters
               PROVE  gauges'[p] = db'.counters
    OBVIOUS
  <2>1. IInv /\ [Next]_vars
    BY DEF Served, GaugeNext
  <2>2. LockCommits
    BY <2>1, LockCases DEF LockBegins, LockWrites, LockUndoes
  <2>3. db' = wdb /\ gauges[p] = wdb.counters
    BY <2>2 DEF LockCommits, GaugeInv
  <2>4. ~Restarts(p)
    BY <2>1, RestartFrees
  <2> QED
    BY <2>1, <2>2, <2>3, <2>4, GaugeMoves
<1> QED
  BY <1>1, GaugeInvariance, PTL DEF GaugeSpec, GaugesFollowCommits

=============================================================================
