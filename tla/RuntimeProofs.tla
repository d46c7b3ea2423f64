---------------------------- MODULE RuntimeProofs ----------------------------
(***************************************************************************)
(* The three parts of the running system that share no state with the      *)
(* database of ReserveAuditor, for every value of their constants: opening *)
(* the file never loses a count, a fetch covers the listing it began with, *)
(* and a pool with a connection per user is large enough.                  *)
(***************************************************************************)
EXTENDS OpenDb, Fetcher, ConnectionPool, FiniteSums

----------------------------------------------------------------------------
(* Opening the file.  The invariant says what a snapshot is worth: as long *)
(* as no one has committed since a process looked for the counters row and *)
(* found none, there is none.                                              *)

OpenPcs == {"closed", "migrate", "record", "find_counters", "insert_counters", "open"}

Files == [commits: Nat, tables: BOOLEAN, recorded: BOOLEAN, counters: Seq(Nat)]

OpenTypeOK ==
  /\ file \in Files
  /\ opener \in [Procs -> [pc: OpenPcs, snapshot: Nat]]
  /\ blocks \in Nat

\* One row, or none yet and then nothing is counted.
CountersRow == file.counters = <<blocks>> \/ (file.counters = << >> /\ blocks = 0)

\* The row does not go away, and a snapshot is no younger than the file.
SnapshotsTell ==
  \A p \in Procs :
    /\ opener[p].pc = "open" => file.counters # << >>
    /\ opener[p].pc = "insert_counters" =>
         /\ opener[p].snapshot <= file.commits
         /\ opener[p].snapshot = file.commits => file.counters = << >>

OpenInv == OpenTypeOK /\ CountersRow /\ SnapshotsTell

\* A commit is one more state of the file.
LEMMA CommitNumbers ==
  ASSUME NEW f \in Files, Commits(f)
  PROVE  /\ file' \in Files /\ file'.commits = f.commits + 1
         /\ file'.counters = f.counters
  BY DEF Files, Commits

\* A table of one row, written over a table of at most one.
LEMMA OneRow ==
  ASSUME NEW f \in Files, NEW n \in Nat
  PROVE  /\ <<n>> # << >>
         /\ [f EXCEPT !.counters = <<n>>] \in Files
         /\ [f EXCEPT !.counters = <<n>>].commits = f.commits
         /\ [f EXCEPT !.counters = <<n>>].counters = <<n>>
<1>1. <<n>> \in Seq(Nat) /\ Len(<<n>>) = 1 /\ Len(<< >>) = 0
  OBVIOUS
<1>2. <<n>> # << >>
  BY <1>1
<1>3. PICK c : c = <<n>>
  OBVIOUS
<1>4. /\ [f EXCEPT !.counters = c] \in Files
      /\ [f EXCEPT !.counters = c].commits = f.commits
      /\ [f EXCEPT !.counters = c].counters = c
  BY <1>1, <1>3 DEF Files
<1> QED
  BY <1>2, <1>3, <1>4

\* A process that panics or ends has no part in the invariant.
LEMMA ClosedKeeps ==
  ASSUME OpenInv, NEW p \in Procs, opener' = [opener EXCEPT ![p] = Closed],
         file' = file, blocks' = blocks
  PROVE  OpenInv'
<1>1. opener' \in [Procs -> [pc: OpenPcs, snapshot: Nat]] /\ opener'[p].pc = "closed"
  BY DEF OpenInv, OpenTypeOK, OpenPcs, Closed
<1>2. \A q \in Procs \ {p} : opener'[q] = opener[q]
  BY DEF OpenInv, OpenTypeOK
<1> QED
  BY <1>1, <1>2 DEF OpenInv, OpenTypeOK, CountersRow, SnapshotsTell

\* Nor has one that only looks, or takes the lock.
LEMMA LooksKeeps ==
  ASSUME OpenInv, NEW p \in Procs, NEW pc \in {"migrate", "record", "find_counters"},
         Become(p, pc), file' = file, blocks' = blocks
  PROVE  OpenInv'
<1>1. opener' \in [Procs -> [pc: OpenPcs, snapshot: Nat]] /\ opener'[p].pc = pc
  BY DEF OpenInv, OpenTypeOK, OpenPcs, Become
<1>2. \A q \in Procs \ {p} : opener'[q] = opener[q]
  BY DEF OpenInv, OpenTypeOK, Become
<1> QED
  BY <1>1, <1>2 DEF OpenInv, OpenTypeOK, CountersRow, SnapshotsTell

\* One step.
LEMMA OpenNextInv ==
  ASSUME OpenInv, [OpenDbNext]_openVars
  PROVE  OpenInv'
<1> USE DEF OpenInv
<1>1. ASSUME NEW p \in Procs, FindMigrations(p)
      PROVE  OpenInv'
  BY <1>1, LooksKeeps DEF FindMigrations
<1>2. ASSUME NEW p \in Procs, Migrate(p)
      PROVE  OpenInv'
  BY <1>2, LooksKeeps, ClosedKeeps DEF Migrate, Panics
<1>3. ASSUME NEW p \in Procs, RecordMigration(p)
      PROVE  OpenInv'
  <2>1. opener' = [opener EXCEPT ![p].pc = "find_counters"] /\ blocks' = blocks
    BY <1>3 DEF RecordMigration, Become
  <2>2. PICK f : f = [file EXCEPT !.tables = TRUE, !.recorded = TRUE]
    OBVIOUS
  <2>3. f \in Files /\ f.commits = file.commits /\ f.counters = file.counters
    BY <2>2 DEF OpenTypeOK, Files
  <2>4. file' \in Files /\ file'.counters = file.counters /\ file'.commits = file.commits + 1
    BY <1>3, <2>2, <2>3, CommitNumbers DEF RecordMigration
  <2>5. OpenTypeOK'
    BY <2>1, <2>4 DEF OpenTypeOK, OpenPcs
  <2>6. /\ opener'[p].pc = "find_counters"
        /\ \A q \in Procs \ {p} : opener'[q] = opener[q]
    BY <2>1 DEF OpenTypeOK
  <2>7. file.commits \in Nat /\ \A q \in Procs : opener[q].snapshot \in Nat
    BY DEF OpenTypeOK, Files
  <2>8. SnapshotsTell'
    BY <2>4, <2>6, <2>7 DEF SnapshotsTell
  <2> QED
    BY <2>1, <2>4, <2>5, <2>8 DEF CountersRow
<1>4. ASSUME NEW p \in Procs, FindCounters(p)
      PROVE  OpenInv'
  <2>1. file' = file /\ blocks' = blocks
    BY <1>4 DEF FindCounters
  <2>2. \A q \in Procs \ {p} : opener'[q] = opener[q]
    BY <1>4 DEF FindCounters, OpenTypeOK
  <2>3. opener'[p] = IF file.counters # << >> THEN [pc |-> "open", snapshot |-> 0]
                     ELSE [pc |-> "insert_counters", snapshot |-> file.commits]
    BY <1>4 DEF FindCounters, OpenTypeOK
  <2>4. file.commits \in Nat
    BY DEF OpenTypeOK, Files
  <2>5. OpenTypeOK'
    BY <1>4, <2>1, <2>4 DEF FindCounters, OpenTypeOK, OpenPcs
  <2>6. SnapshotsTell'
    BY <2>1, <2>2, <2>3, <2>4 DEF SnapshotsTell
  <2> QED
    BY <2>1, <2>5, <2>6 DEF CountersRow
<1>5. ASSUME NEW p \in Procs, InsertCounters(p)
      PROVE  OpenInv'
  <2>1. CASE file.commits # opener[p].snapshot
    BY <1>5, <2>1, ClosedKeeps DEF InsertCounters, Panics
  <2>2. CASE file.commits = opener[p].snapshot
    <3>1. blocks \in Nat /\ file \in Files
      BY DEF OpenTypeOK
    <3>2. <<blocks>> # << >>
      BY <3>1, OneRow
    <3>3. file.counters = << >>
      BY <1>5, <2>2 DEF InsertCounters, SnapshotsTell
    <3>4. file.counters = << >> /\ blocks = 0
      BY <3>2, <3>3 DEF CountersRow
    <3>5. opener' = [opener EXCEPT ![p].pc = "open"] /\ blocks' = blocks
      BY <1>5, <2>2 DEF InsertCounters, Become
    <3>6. PICK f : f = [file EXCEPT !.counters = Append(@, 0)]
      OBVIOUS
    <3>7. f \in Files /\ f.commits = file.commits /\ f.counters = <<0>>
      <4>1. Append(file.counters, 0) = <<0>>
        BY <3>4
      <4>2. f = [file EXCEPT !.counters = <<0>>]
        BY <3>6, <4>1
      <4> QED
        BY <3>1, <4>2, OneRow
    <3>8. file' \in Files /\ file'.counters = <<0>> /\ file'.commits = file.commits + 1
      BY <1>5, <2>2, <3>6, <3>7, CommitNumbers DEF InsertCounters
    <3>9. \A q \in Procs \ {p} : opener'[q] = opener[q]
      BY <3>5 DEF OpenTypeOK
    <3>10. file.commits \in Nat /\ \A q \in Procs : opener[q].snapshot \in Nat
      BY DEF OpenTypeOK, Files
    <3>11. opener'[p].pc = "open"
      BY <3>5 DEF OpenTypeOK
    <3>12. SnapshotsTell'
      BY <3>8, <3>9, <3>10, <3>11 DEF SnapshotsTell
    <3>13. OpenTypeOK'
      BY <3>5, <3>8 DEF OpenTypeOK, OpenPcs
    <3> QED
      BY <3>4, <3>5, <3>8, <3>12, <3>13 DEF CountersRow
  <2> QED
    BY <2>1, <2>2
<1>6. ASSUME NEW p \in Procs, inc_num_blocks_synced(p)
      PROVE  OpenInv'
  <2>1. file.counters = <<blocks>>
    BY <1>6 DEF inc_num_blocks_synced, CountersRow
  <2>2. opener' = opener /\ blocks' = blocks + 1
    BY <1>6 DEF inc_num_blocks_synced
  <2>3. PICK f : f = [file EXCEPT !.counters[1] = @ + 1]
    OBVIOUS
  <2>4. f \in Files /\ f.commits = file.commits /\ f.counters = <<blocks + 1>>
    <3>1. blocks \in Nat /\ file.counters[1] = blocks
      BY <2>1 DEF OpenTypeOK
    <3>2. [file.counters EXCEPT ![1] = file.counters[1] + 1] = <<blocks + 1>>
      BY <2>1, <3>1
    <3>3. f = [file EXCEPT !.counters = <<blocks + 1>>]
      BY <2>3, <3>2 DEF OpenTypeOK, Files
    <3>4. file \in Files /\ blocks + 1 \in Nat
      BY <3>1 DEF OpenTypeOK
    <3> QED
      BY <3>3, <3>4, OneRow
  <2>5. file' \in Files /\ file'.counters = <<blocks + 1>> /\ file'.commits = file.commits + 1
    BY <1>6, <2>3, <2>4, CommitNumbers DEF inc_num_blocks_synced
  <2>6. file.commits \in Nat /\ \A q \in Procs : opener[q].snapshot \in Nat
    BY DEF OpenTypeOK, Files
  <2>7. SnapshotsTell'
    BY <2>2, <2>5, <2>6 DEF SnapshotsTell
  <2>8. OpenTypeOK'
    BY <2>2, <2>5 DEF OpenTypeOK
  <2> QED
    BY <2>2, <2>5, <2>7, <2>8 DEF CountersRow
<1>7. ASSUME NEW p \in Procs, Exit(p)
      PROVE  OpenInv'
  BY <1>7, ClosedKeeps DEF Exit
<1>8. CASE UNCHANGED openVars
  BY <1>8 DEF openVars, OpenTypeOK, CountersRow, SnapshotsTell
<1> QED
  BY <1>1, <1>2, <1>3, <1>4, <1>5, <1>6, <1>7, <1>8, OpenDbAssumption DEF OpenDbNext, OpenStep

\* Whatever races to open a new file, crashes on the way or is started again
\* later: while any process has the file open the counters table has its one
\* row, and the row has counted every block (ensure_exists,
\* inc_num_blocks_synced).
THEOREM StartsKeepCounters == OpenDbSpec => []CountersSurviveStarts
<1>1. OpenDbInit => OpenInv
  BY DEF OpenDbInit, OpenInv, OpenTypeOK, CountersRow, SnapshotsTell, NewFile, Closed, OpenPcs,
         Files
<1>2. OpenInv /\ [OpenDbNext]_openVars => OpenInv'
  BY OpenNextInv
<1>3. OpenInv => CountersSurviveStarts
  BY DEF OpenInv, CountersRow, SnapshotsTell, CountersSurviveStarts
<1> QED
  BY <1>1, <1>2, <1>3, PTL DEF OpenDbSpec

----------------------------------------------------------------------------
(* The connection pool.                                                    *)

\* Nobody holds a connection before its first step is done, nor ever two.
Holding ==
  \A u \in Users : IF at[u] \in {0, 1} THEN conns[u] = 0 ELSE conns[u] \in {0, 1}

PoolTypeOK ==
  /\ db_connections \in Nat
  /\ at \in [Users -> Nat] /\ \A u \in Users : at[u] <= Len(Steps(u))
  /\ conns \in [Users -> Nat]

PoolInv == PoolTypeOK /\ Holding /\ PoolSuffices

\* Every round begins with get_conn, which comes once.
LEMMA RoundSteps ==
  ASSUME NEW u \in Users
  PROVE  /\ Len(Steps(u)) \in Nat /\ Len(Steps(u)) >= 2
         /\ \A i \in 1 .. Len(Steps(u)) : Steps(u)[i] = "get_conn" <=> i = 1
<1>1. CASE u = Main
  <2>1. Steps(u) = <<"get_conn", "read", "timestamp", "begin", "write">>
    BY <1>1, PoolAssumption DEF Steps
  <2> QED
    BY <2>1
<1>2. CASE u \in Safes
  <2>1. Steps(u) = <<"get_conn", "begin", "write">>
    BY <1>2, PoolAssumption DEF Steps
  <2> QED
    BY <2>1
<1>3. CASE u \in Handlers
  <2>1. Steps(u) = <<"get_conn", "read">>
    BY <1>3, PoolAssumption DEF Steps
  <2> QED
    BY <2>1
<1> QED
  BY <1>1, <1>2, <1>3 DEF Users

\* A user at a step other than get_conn goes on to the next, or ends its round.
LEMMA RoundGoesOn ==
  ASSUME PoolInv, NEW u \in Users, NEW step, IsAt(u, step),
         \/ Advance(u) /\ step # "get_conn"
         \/ EndRound(u),
         db_connections' = db_connections, panicked' = panicked
  PROVE  PoolInv'
<1>1. at[u] \in 1 .. Len(Steps(u)) /\ Len(Steps(u)) \in Nat /\ step = Steps(u)[at[u]]
  BY RoundSteps DEF PoolInv, PoolTypeOK, IsAt
<1>2. \/ /\ at' = [at EXCEPT ![u] = @ + 1] /\ conns' = conns
         /\ at[u] < Len(Steps(u)) /\ at[u] # 1
      \/ at' = [at EXCEPT ![u] = 0] /\ conns' = [conns EXCEPT ![u] = 0]
  <2>1. CASE EndRound(u)
    BY <2>1 DEF EndRound
  <2>2. CASE Advance(u) /\ step # "get_conn"
    <3>1. at[u] # 1
      BY <1>1, <2>2, RoundSteps
    <3> QED
      BY <2>2, <3>1 DEF Advance
  <2> QED
    BY <2>1, <2>2
<1>3. PoolTypeOK'
  <2>1. at' \in [Users -> Nat] /\ conns' \in [Users -> Nat]
    <3>1. at[u] + 1 \in Nat /\ at \in [Users -> Nat] /\ conns \in [Users -> Nat]
      BY <1>1 DEF PoolInv, PoolTypeOK
    <3>2. PICK k : k = at[u] + 1
      OBVIOUS
    <3> QED
      BY <1>2, <3>1, <3>2
  <2>2. at'[u] <= Len(Steps(u))
    BY <1>1, <1>2 DEF PoolInv, PoolTypeOK
  <2>3. \A v \in Users \ {u} : at'[v] = at[v]
    BY <1>2 DEF PoolInv, PoolTypeOK
  <2> QED
    BY <2>1, <2>2, <2>3 DEF PoolInv, PoolTypeOK
<1>4. Holding'
  BY <1>1, <1>2 DEF PoolInv, PoolTypeOK, Holding
<1> QED
  BY <1>3, <1>4 DEF PoolInv, PoolSuffices

\* One step.
LEMMA PoolNextInv ==
  ASSUME PoolInv, [PoolNext]_poolVars
  PROVE  PoolInv'
<1> USE DEF PoolInv
<1>1. ASSUME NEW u \in Users, Start(u) PROVE PoolInv'
  <2>1. Len(Steps(u)) \in Nat /\ Len(Steps(u)) >= 2
    BY RoundSteps
  <2>2. /\ at' = [at EXCEPT ![u] = 1] /\ at[u] = 0
        /\ UNCHANGED <<db_connections, conns, panicked>>
    BY <1>1 DEF Start
  <2>3. PoolTypeOK'
    BY <2>1, <2>2 DEF PoolTypeOK
  <2>4. Holding'
    BY <2>2 DEF PoolTypeOK, Holding
  <2> QED
    BY <2>2, <2>3, <2>4 DEF PoolSuffices
<1>2. ASSUME NEW u \in Users, get_conn(u) PROVE PoolInv'
  <2>1. /\ Len(Steps(u)) \in Nat /\ Len(Steps(u)) >= 2 /\ at[u] = 1
    BY <1>2, RoundSteps DEF get_conn, IsAt, PoolTypeOK
  <2>2. /\ at' = [at EXCEPT ![u] = @ + 1] /\ conns' = [conns EXCEPT ![u] = @ + 1]
        /\ UNCHANGED <<db_connections, panicked>>
    BY <1>2 DEF get_conn
  <2>3. PoolTypeOK'
    BY <2>1, <2>2 DEF PoolTypeOK
  <2>4. conns[u] = 0
    BY <2>1 DEF Holding
  <2>5. Holding'
    BY <2>1, <2>2, <2>4 DEF PoolTypeOK, Holding
  <2> QED
    BY <2>2, <2>3, <2>5 DEF PoolSuffices
<1>3. ASSUME NEW u \in Users, Read(u) \/ BeginExclusive(u) \/ Commit(u) PROVE PoolInv'
  BY <1>3, RoundGoesOn DEF Read, BeginExclusive, Commit
<1>4. CASE NothingToSync \/ Timestamp
  BY <1>4, RoundGoesOn DEF NothingToSync, Timestamp, Users
<1>5. ASSUME NEW u \in Users, ConnTimeout(u) PROVE PoolInv'
  <2>1. CASE u \in Handlers
    BY <1>5, <2>1, RoundGoesOn DEF ConnTimeout
  <2>2. CASE u \notin Handlers
    <3>1. /\ panicked' = panicked \cup {<<u, "no connection">>}
          /\ UNCHANGED <<db_connections, at, conns>> /\ InUse >= db_connections
      BY <1>5, <2>2 DEF ConnTimeout
    <3>2. at[u] = 1 /\ conns[u] = 0
      <4>1. at[u] \in 1 .. Len(Steps(u)) /\ Steps(u)[at[u]] = "get_conn"
        <5>1. IsAt(u, "get_conn")
          BY <1>5 DEF ConnTimeout
        <5> QED
          BY <5>1, RoundSteps DEF IsAt, PoolTypeOK
      <4>2. at[u] = 1
        BY <4>1, RoundSteps
      <4> QED
        BY <4>2 DEF Holding
    <3>3. \A v \in Users : conns[v] \in {0, 1}
      BY DEF Holding
    <3>4. InUse < Cardinality(Users)
      BY <3>2, <3>3, SumOfOnes, PoolAssumption DEF InUse
    <3>5. InUse \in Int /\ Cardinality(Users) \in Nat /\ db_connections \in Nat
      <4>1. \A v \in Users : conns[v] \in Int
        BY <3>3
      <4> QED
        BY <4>1, SumInt, FS_CardinalityType, PoolAssumption DEF InUse, PoolTypeOK
    <3>6. ~(Cardinality(Users) <= db_connections)
      <4>1. PICK i, c, n : i = InUse /\ c = Cardinality(Users) /\ n = db_connections
        OBVIOUS
      <4>2. i >= n
        BY <3>1, <4>1
      <4>3. i < c
        BY <3>4, <4>1
      <4>4. i \in Int /\ c \in Nat /\ n \in Nat
        BY <3>5, <4>1
      <4>5. ~(c <= n)
        BY <4>2, <4>3, <4>4
      <4> QED
        BY <4>1, <4>5
    <3> QED
      BY <3>1, <3>6 DEF PoolTypeOK, Holding, PoolSuffices
  <2> QED
    BY <2>1, <2>2
<1>6. ASSUME NEW u \in Users, LockTimeout(u) PROVE PoolInv'
  <2>1. /\ panicked' = panicked \cup {<<u, "locked">>} /\ UNCHANGED <<db_connections, at, conns>>
    BY <1>6 DEF LockTimeout
  <2>2. \A v \in Users : <<v, "no connection">> \in panicked' => <<v, "no connection">> \in panicked
    BY <2>1
  <2> QED
    BY <2>1, <2>2 DEF PoolTypeOK, Holding, PoolSuffices
<1>7. CASE RestartProcess
  <2>1. /\ at' = [u \in Users |-> 0] /\ conns' = [u \in Users |-> 0] /\ panicked' = {}
        /\ db_connections' = db_connections
    BY <1>7 DEF RestartProcess
  <2>2. \A u \in Users : 0 <= Len(Steps(u))
    BY RoundSteps
  <2> QED
    BY <2>1, <2>2 DEF PoolTypeOK, Holding, PoolSuffices
<1>8. CASE UNCHANGED poolVars
  BY <1>8 DEF poolVars, PoolTypeOK, Holding, PoolSuffices
<1> QED
  BY <1>1, <1>2, <1>3, <1>4, <1>5, <1>6, <1>7, <1>8 DEF PoolNext

\* No thread dies for want of a connection if the pool has one per thread and
\* concurrent request (ConnectionPool!PoolSuffices), for any numbers of them.
THEOREM PoolIsEnough == PoolSpec => []PoolSuffices
<1>1. PoolInit => PoolInv
  <2> SUFFICES ASSUME PoolInit PROVE PoolInv
    OBVIOUS
  <2>1. \A u \in Users : 0 <= Len(Steps(u))
    BY RoundSteps
  <2> QED
    BY <2>1, PoolAssumption
    DEF PoolInit, PoolInv, PoolTypeOK, Holding, PoolSuffices
<1>2. PoolInv /\ [PoolNext]_poolVars => PoolInv'
  BY PoolNextInv
<1>3. PoolInv => PoolSuffices
  BY DEF PoolInv
<1> QED
  BY <1>1, <1>2, <1>3, PTL DEF PoolSpec

----------------------------------------------------------------------------
(* Fetching a listing.  The transactions are listed from n down to 1, so a *)
(* page is a run of numbers, and a page read later of a longer listing     *)
(* lies no lower.                                                          *)

Newest(n) == [i \in 1 .. n |-> n + 1 - i]

\* What was fetched before the page at url holds those of the first s
\* transactions that are above the page, as the listing is now (n long).
HoldsAbove(raw, s, n, url) == \A x \in 1 .. s : x + url > n => \E k \in DOMAIN raw : raw[k] = x

\* Of the first s transactions none is fetched before every newer one was.
NewestFirst(raw, s) ==
  \A k \in DOMAIN raw : \A x \in 1 .. s : raw[k] < x => \E l \in 1 .. k - 1 : raw[l] = x

\* Only listed transactions are fetched.
OnlyListed(raw, n) == \A k \in DOMAIN raw : raw[k] \in 1 .. n

\* The page p begins with the transaction n - url and goes downwards.
RunsDown(p, n, url) == \A i \in 1 .. Len(p) : p[i] = n - url + 1 - i

ThreadStates ==
  [pc: {"sleep", "fetch", "process"}, url: Nat, raw_transactions: Seq(Nat), pos: Nat]

FetchTypeOK ==
  /\ thread \in ThreadStates
  /\ Len(listing) \in Nat /\ listing = Newest(Len(listing))
  /\ Len(snapshot) \in Nat /\ snapshot = Newest(Len(snapshot))
  /\ Len(snapshot) <= Len(listing)

\* t is the thread over a listing of n transactions, s of them in the snapshot.
FetchedSoFar(t, s, n) ==
  /\ OnlyListed(t.raw_transactions, n)
  /\ t.pc = "sleep" => t = Sleeping
  /\ t.pc = "fetch" =>
       /\ t.url <= n
       /\ IF t.url = 0 THEN t.raw_transactions = << >>
          ELSE HoldsAbove(t.raw_transactions, s, n, t.url) /\ NewestFirst(t.raw_transactions, s)
  /\ t.pc = "process" =>
       HoldsAbove(t.raw_transactions, s, n, n) /\ NewestFirst(t.raw_transactions, s)

FetchInv == FetchTypeOK /\ FetchedSoFar(thread, Len(snapshot), Len(listing))

\* A listing grows at its newest end.
LEMMA NewestGrows ==
  ASSUME NEW n \in Nat
  PROVE  /\ Newest(n) \in Seq(Nat) /\ Len(Newest(n)) = n
         /\ <<n + 1>> \o Newest(n) = Newest(n + 1)
<1>1. PICK q : q = Newest(n)
  OBVIOUS
<1>2. q \in Seq(Nat) /\ Len(q) = n
  BY <1>1 DEF Newest
<1>3. PICK r : r = <<n + 1>> \o q
  OBVIOUS
<1>4. r \in Seq(Nat) /\ Len(r) = n + 1 /\ r[1] = n + 1 /\ \A i \in 1 .. n : r[i + 1] = q[i]
  BY <1>2, <1>3
<1>5. ASSUME NEW i \in 1 .. n + 1 PROVE r[i] = n + 1 + 1 - i
  <2>1. CASE i = 1
    BY <1>4, <2>1
  <2>2. CASE i # 1
    <3>1. PICK j \in 1 .. n : i = j + 1
      BY <1>5, <2>2
    <3>2. q[j] = n + 1 - j
      BY <1>1, <3>1 DEF Newest
    <3> QED
      BY <1>4, <3>1, <3>2
  <2> QED
    BY <2>1, <2>2
<1>6. r = Newest(n + 1)
  BY <1>4, <1>5 DEF Newest
<1> QED
  BY <1>1, <1>2, <1>3, <1>6

\* The smaller of two numbers.
LEMMA MinOfTwo ==
  ASSUME NEW a \in Nat, NEW n \in Nat
  PROVE  Min({a, n}) = IF a <= n THEN a ELSE n
<1>1. PICK last \in Nat : last = IF a <= n THEN a ELSE n
  OBVIOUS
<1>2. last \in {a, n} /\ \A y \in {a, n} : last <= y
  BY <1>1
<1>3. \A x \in {a, n} : (\A y \in {a, n} : x <= y) => x = last
  BY <1>2
<1>4. Min({a, n}) = last
  BY <1>2, <1>3 DEF Min
<1> QED
  BY <1>1, <1>4

\* A run of a listing of n transactions goes from n - url downwards.
LEMMA RunOfNewest ==
  ASSUME NEW n \in Nat, NEW url \in Nat, NEW last \in url .. n, NEW q \in Seq(Nat),
         q = Newest(n), Len(q) = n
  PROVE  \E p \in Seq(Nat) : /\ p = SubSeq(q, url + 1, last) /\ Len(p) = last - url
                             /\ RunsDown(p, n, url)
<1>1. PICK p : p = SubSeq(q, url + 1, last)
  OBVIOUS
<1>2. p \in Seq(Nat)
  BY <1>1
<1>3. Len(p) = last - url
  BY <1>1
<1>4. ASSUME NEW i \in 1 .. Len(p) PROVE p[i] = n - url + 1 - i
  <2>1. p[i] = q[url + i]
    <3>1. PICK m \in Nat : m = url + 1
      OBVIOUS
    <3>2. i \in 1 .. last - m + 1 /\ m \in Nat /\ last \in Nat
      BY <1>3, <1>4, <3>1
    <3>3. SubSeq(q, m, last)[i] = q[m + i - 1]
      BY <3>2
    <3>4. m + i - 1 = url + i
      BY <3>1, <3>2
    <3> QED
      BY <1>1, <3>1, <3>3, <3>4, Zenon
  <2>2. url + i \in 1 .. n
    BY <1>3, <1>4
  <2>3. PICK j \in 1 .. n : j = url + i
    BY <2>2
  <2>4. q[j] = n + 1 - j
    BY <2>3 DEF Newest
  <2> QED
    BY <1>3, <1>4, <2>1, <2>3, <2>4
<1> QED
  BY <1>1, <1>2, <1>3, <1>4 DEF RunsDown

\* The pages so far and the next one.
LEMMA PageJoins ==
  ASSUME NEW n \in Nat, NEW s \in 0 .. n, NEW url \in 0 .. n, NEW raw \in Seq(Nat), NEW p \in Seq(Nat),
         NEW size \in Nat, size = Len(p), size <= n - url,
         OnlyListed(raw, n), RunsDown(p, n, url), HoldsAbove(raw, s, n, url), NewestFirst(raw, s)
  PROVE  /\ raw \o p \in Seq(Nat) /\ OnlyListed(raw \o p, n)
         /\ HoldsAbove(raw \o p, s, n, url + size) /\ NewestFirst(raw \o p, s)
<1>1. PICK q \in Seq(Nat), m \in Nat : q = raw \o p /\ m = Len(raw)
  <2>1. raw \o p \in Seq(Nat) /\ Len(raw) \in Nat
    OBVIOUS
  <2> QED
    BY <2>1
<1>2. /\ m \in Nat /\ q \in Seq(Nat) /\ Len(q) = m + size
      /\ DOMAIN raw = 1 .. m /\ DOMAIN q = 1 .. m + size
  BY <1>1
<1>3. \A k \in 1 .. m : q[k] = raw[k]
  BY <1>1, <1>2
<1>4. ASSUME NEW i \in 1 .. size PROVE q[m + i] = n - url + 1 - i /\ m + i \in 1 .. m + size
  <2>1. q[m + i] = p[i] /\ p[i] = n - url + 1 - i
    BY <1>1, <1>2 DEF RunsDown
  <2> QED
    BY <1>2, <2>1
<1>5. ASSUME NEW k \in DOMAIN q, k > m
      PROVE  \E i \in 1 .. size : k = m + i /\ q[k] = n - url + 1 - i
  <2>1. k \in 1 .. m + size
    BY <1>2
  <2>2. PICK i \in Int : i = k - m
    BY <2>1
  <2>3. k = m + i
    BY <2>1, <2>2
  <2>4. i >= 1
    BY <1>5, <2>1, <2>2
  <2>5. i <= size
    BY <2>1, <2>2
  <2>6. i \in 1 .. size
    BY <2>2, <2>4, <2>5
  <2> QED
    BY <1>4, <2>3, <2>6
<1>6. ASSUME NEW k \in DOMAIN q PROVE q[k] \in 1 .. n
  <2>1. CASE k <= m
    BY <1>2, <1>3, <1>6, <2>1 DEF OnlyListed
  <2>2. CASE k > m
    BY <1>5, <1>6, <2>2
  <2> QED
    BY <1>2, <2>1, <2>2
<1>7. HoldsAbove(q, s, n, url + size)
  <2> SUFFICES ASSUME NEW x \in 1 .. s, x + (url + size) > n PROVE \E k \in DOMAIN q : q[k] = x
    BY DEF HoldsAbove
  <2>1. CASE x + url > n
    <3>1. PICK k \in DOMAIN raw : raw[k] = x
      BY <2>1 DEF HoldsAbove
    <3>2. k \in DOMAIN q /\ q[k] = x
      BY <1>2, <1>3, <3>1
    <3> QED
      BY <3>2
  <2>2. CASE ~(x + url > n)
    <3>1. PICK i \in 1 .. size : x = n - url + 1 - i
      <4>1. n - url + 1 - x \in 1 .. size
        BY <2>2
      <4> QED
        BY <4>1
    <3> QED
      BY <1>2, <1>4, <3>1
  <2> QED
    BY <2>1, <2>2
<1>8. NewestFirst(q, s)
  <2> SUFFICES ASSUME NEW k \in DOMAIN q, NEW x \in 1 .. s, q[k] < x
               PROVE  \E l \in 1 .. k - 1 : q[l] = x
    BY DEF NewestFirst
  <2>1. CASE k <= m
    <3>1. k \in DOMAIN raw /\ raw[k] < x
      BY <1>2, <1>3, <2>1
    <3>2. PICK l \in 1 .. k - 1 : raw[l] = x
      BY <3>1 DEF NewestFirst
    <3> QED
      BY <1>2, <1>3, <2>1, <3>2
  <2>2. CASE k > m
    <3>1. PICK i \in 1 .. size : k = m + i /\ q[k] = n - url + 1 - i
      BY <1>5, <2>2
    <3>2. CASE x + url > n
      <4>1. PICK l \in DOMAIN raw : raw[l] = x
        BY <3>2 DEF HoldsAbove
      <4>2. /\ l \in 1 .. k - 1
            /\ q[l] = x
        <5>1. l \in 1 .. m
          BY <1>2, <4>1
        <5>2. l \in 1 .. k - 1
          BY <2>2, <5>1
        <5>3. q[l] = x
          BY <1>3, <4>1, <5>1
        <5> QED
          BY <5>2, <5>3
      <4> QED
        BY <4>2
    <3>3. CASE ~(x + url > n)
      <4>1. PICK j \in 1 .. i - 1 : x = n - url + 1 - j
        <5>1. n - url + 1 - x \in 1 .. i - 1
          BY <3>1, <3>3
        <5> QED
          BY <5>1
      <4>2. j \in 1 .. size /\ m + j \in 1 .. k - 1
        BY <1>2, <3>1, <4>1
      <4> QED
        BY <1>4, <4>1, <4>2
    <3> QED
      BY <3>2, <3>3
  <2> QED
    BY <1>2, <2>1, <2>2
<1> QED
  BY <1>1, <1>2, <1>6, <1>7, <1>8 DEF OnlyListed

PageAt(q, url, size) == SubSeq(q, url + 1, Min({url + size, Len(q)}))

\* What was fetched with the page at url of the listing q of n transactions: all
\* down to the place where the next page begins, or all.
FetchedNext(old, q, url, size, s, n) ==
  \E raw \in Seq(Nat), last \in 0 .. n :
    /\ raw = old \o PageAt(q, url, size)
    /\ OnlyListed(raw, n) /\ NewestFirst(raw, s) /\ HoldsAbove(raw, s, n, last)
    /\ IF url + size < n THEN last = url + size /\ last # 0 ELSE last = n

\* The next page, of size transactions at most, of the listing q.
LEMMA NextPage ==
  ASSUME NEW n \in Nat, NEW s \in 0 .. n, NEW url \in 0 .. n, NEW size \in Nat \ {0},
         NEW old \in Seq(Nat), NEW q \in Seq(Nat), q = Newest(n), Len(q) = n,
         OnlyListed(old, n), HoldsAbove(old, s, n, url), NewestFirst(old, s)
  PROVE  FetchedNext(old, q, url, size, s, n)
<1>1. PICK last \in url .. n : last = IF url + size <= n THEN url + size ELSE n
  OBVIOUS
<1>2. Min({url + size, n}) = last
  <2>1. PICK a \in Nat : a = url + size
    OBVIOUS
  <2>2. Min({a, n}) = IF a <= n THEN a ELSE n
    BY <2>1, MinOfTwo
  <2> QED
    BY <1>1, <2>1, <2>2
<1>3. PICK p \in Seq(Nat) : /\ p = SubSeq(q, url + 1, last) /\ Len(p) = last - url
                            /\ RunsDown(p, n, url)
  <2>1. url \in Nat
    OBVIOUS
  <2> QED
    BY <1>1, <2>1, RunOfNewest
<1>4. PICK len \in Nat : len = Len(p) /\ len <= n - url /\ url + len = last
  BY <1>1, <1>3
<1>5. /\ old \o p \in Seq(Nat) /\ OnlyListed(old \o p, n)
      /\ NewestFirst(old \o p, s) /\ HoldsAbove(old \o p, s, n, url + len)
  BY <1>3, <1>4, PageJoins
<1>6. PICK raw : raw = old \o p
  OBVIOUS
<1>7. raw = old \o PageAt(q, url, size)
  BY <1>2, <1>3, <1>6 DEF PageAt
<1>8. raw \in Seq(Nat) /\ OnlyListed(raw, n) /\ NewestFirst(raw, s) /\ HoldsAbove(raw, s, n, last)
  BY <1>4, <1>5, <1>6
<1>9. last \in 0 .. n /\ IF url + size < n THEN last = url + size /\ last # 0 ELSE last = n
  BY <1>1
<1> QED
  BY <1>7, <1>8, <1>9 DEF FetchedNext

\* The next page, as the service answers it.
LEMMA PageFetched ==
  ASSUME FetchTypeOK, NEW n \in Nat, n = Len(listing), NEW s \in Nat, s <= n,
         thread.pc = "fetch", FetchedSoFar(thread, s, n)
  PROVE  \E raw \in Seq(Nat), last \in 0 .. n :
           /\ raw = thread.raw_transactions \o Results(thread.url)
           /\ OnlyListed(raw, n)
           /\ NewestFirst(raw, IF thread.url = 0 THEN n ELSE s)
           /\ HoldsAbove(raw, IF thread.url = 0 THEN n ELSE s, n, last)
           /\ \/ NextUrl(thread.url) = {} /\ last = n
              \/ NextUrl(thread.url) = {last} /\ last # 0
<1>1. PICK m \in Nat : m = n
  OBVIOUS
<1>2. /\ thread.url \in 0 .. m /\ thread.raw_transactions \in Seq(Nat) /\ PageSize \in Nat \ {0}
      /\ (IF thread.url = 0 THEN n ELSE s) \in 0 .. m
  BY <1>1, FetcherAssumption DEF FetchTypeOK, FetchedSoFar, ThreadStates
<1>3. PICK old \in Seq(Nat), url \in 0 .. m, size \in Nat \ {0}, s2 \in 0 .. m :
        /\ old = thread.raw_transactions /\ url = thread.url /\ size = PageSize
        /\ s2 = IF thread.url = 0 THEN n ELSE s
  BY <1>2
<1>4. listing \in Seq(Nat) /\ listing = Newest(m) /\ Len(listing) = m
  BY <1>1, NewestGrows DEF FetchTypeOK
<1>5. HoldsAbove(old, s2, m, url) /\ NewestFirst(old, s2)
  <2>1. CASE url = 0
    <3>1. old = << >> /\ s2 = m
      BY <1>1, <1>3, <2>1 DEF FetchedSoFar
    <3>2. DOMAIN old = {}
      BY <3>1
    <3> QED
      BY <2>1, <3>1, <3>2 DEF HoldsAbove, NewestFirst
  <2>2. CASE url # 0
    BY <1>1, <1>3, <2>2 DEF FetchedSoFar
  <2> QED
    BY <2>1, <2>2
<1>6. OnlyListed(old, m)
  BY <1>1, <1>3 DEF FetchedSoFar
<1>7. PICK raw \in Seq(Nat), last \in 0 .. m :
        /\ raw = old \o PageAt(listing, url, size)
        /\ OnlyListed(raw, m) /\ NewestFirst(raw, s2) /\ HoldsAbove(raw, s2, m, last)
        /\ IF url + size < m THEN last = url + size /\ last # 0 ELSE last = m
  <2>1. PICK q : q = listing
    OBVIOUS
  <2>2. q \in Seq(Nat) /\ q = Newest(m) /\ Len(q) = m
    BY <1>4, <2>1
  <2>3. FetchedNext(old, q, url, size, s2, m)
    BY <1>5, <1>6, <2>2, NextPage
  <2> QED
    BY <2>1, <2>3 DEF FetchedNext
<1>8. raw = thread.raw_transactions \o Results(thread.url)
  BY <1>3, <1>7 DEF Results, PageAt
<1>9. \/ NextUrl(thread.url) = {} /\ last = m
      \/ NextUrl(thread.url) = {last} /\ last # 0
  <2>1. NextUrl(thread.url) = IF url + size < m THEN {url + size} ELSE {}
    BY <1>3, <1>4 DEF NextUrl
  <2> QED
    BY <1>7, <2>1
<1> QED
  BY <1>1, <1>3, <1>7, <1>8, <1>9

\* The listing may grow at any moment.
LEMMA ListingGrows ==
  ASSUME FetchInv, ExecuteTx
  PROVE  FetchInv'
<1>1. PICK n \in Nat, s \in Nat : n = Len(listing) /\ s = Len(snapshot)
  BY DEF FetchInv, FetchTypeOK
<1>2. listing' = Newest(n + 1) /\ thread' = thread /\ snapshot' = snapshot
  BY <1>1, NewestGrows DEF FetchInv, FetchTypeOK, ExecuteTx
<1>3. PICK n2 \in Nat : n2 = n + 1
  OBVIOUS
<1>4. Len(listing') = n2 /\ listing' = Newest(n2)
  BY <1>2, <1>3, NewestGrows
<1>5. FetchTypeOK'
  BY <1>1, <1>2, <1>3, <1>4 DEF FetchInv, FetchTypeOK
<1>6. PICK t : t = thread
  OBVIOUS
<1>7. FetchedSoFar(t, s, n) /\ t.url \in Nat
  BY <1>1, <1>6 DEF FetchInv, FetchTypeOK, ThreadStates
<1>8. FetchedSoFar(t, s, n2)
  <2>1. OnlyListed(t.raw_transactions, n2)
    BY <1>3, <1>7 DEF FetchedSoFar, OnlyListed
  <2>2. HoldsAbove(t.raw_transactions, s, n, t.url) => HoldsAbove(t.raw_transactions, s, n2, t.url)
    BY <1>3, <1>7 DEF HoldsAbove
  <2>3. HoldsAbove(t.raw_transactions, s, n, n) => HoldsAbove(t.raw_transactions, s, n2, n2)
    BY <1>3 DEF HoldsAbove
  <2>4. t.pc = "fetch" => t.url <= n2
    BY <1>3, <1>7 DEF FetchedSoFar
  <2> QED
    BY <1>7, <2>1, <2>2, <2>3, <2>4 DEF FetchedSoFar
<1> QED
  BY <1>1, <1>2, <1>4, <1>5, <1>6, <1>8 DEF FetchInv

\* One step.
LEMMA FetcherNextInv ==
  ASSUME FetchInv, [FetcherNext]_fetcherVars
  PROVE  FetchInv'
<1>1. PICK n \in Nat, s \in Nat : n = Len(listing) /\ s = Len(snapshot) /\ s <= n
  BY DEF FetchInv, FetchTypeOK
<1>2. PICK t : t = thread
  OBVIOUS
<1>3. t \in ThreadStates /\ FetchedSoFar(t, s, n)
  BY <1>1, <1>2 DEF FetchInv, FetchTypeOK
<1>4. ASSUME NEW t2, thread' = t2, UNCHANGED <<listing, snapshot>>,
             t2 \in ThreadStates, FetchedSoFar(t2, s, n)
      PROVE  FetchInv'
  BY <1>1, <1>4 DEF FetchInv, FetchTypeOK
<1>5. Sleeping \in ThreadStates /\ FetchedSoFar(Sleeping, s, n)
  BY DEF FetchedSoFar, OnlyListed, Sleeping, ThreadStates
<1>6. CASE ExecuteTx
  BY <1>6, ListingGrows
<1>7. CASE StartPoll
  <2>1. PICK t2 : t2 = [t EXCEPT !.pc = "fetch"]
    OBVIOUS
  <2>2. thread' = t2 /\ UNCHANGED <<listing, snapshot>> /\ t.pc = "sleep"
    BY <1>2, <1>7, <2>1 DEF StartPoll
  <2>3. t = Sleeping
    BY <1>3, <2>2 DEF FetchedSoFar
  <2>4. /\ t2 \in ThreadStates /\ t2.pc = "fetch" /\ t2.url = 0
        /\ t2.raw_transactions = << >>
    BY <1>3, <2>1, <2>3 DEF Sleeping, ThreadStates
  <2>5. FetchedSoFar(t2, s, n)
    BY <2>4 DEF FetchedSoFar, OnlyListed
  <2> QED
    BY <1>4, <2>2, <2>4, <2>5
<1>8. CASE FetchPage
  <2>1. PICK s2 : s2 = IF t.url = 0 THEN n ELSE s
    OBVIOUS
  <2>2. t.pc = "fetch" /\ FetchTypeOK
    BY <1>2, <1>8 DEF FetchPage, FetchInv
  <2>3. PICK raw \in Seq(Nat), last \in 0 .. n :
          /\ raw = t.raw_transactions \o Results(t.url)
          /\ OnlyListed(raw, n) /\ NewestFirst(raw, s2) /\ HoldsAbove(raw, s2, n, last)
          /\ \/ NextUrl(t.url) = {} /\ last = n
             \/ NextUrl(t.url) = {last} /\ last # 0
    BY <1>1, <1>2, <1>3, <2>1, <2>2, PageFetched
  <2>4. PICK t2 : t2 = IF NextUrl(t.url) = {}
                       THEN [t EXCEPT !.pc = "process", !.raw_transactions = raw]
                       ELSE [t EXCEPT !.url = CHOOSE u \in NextUrl(t.url) : TRUE,
                                      !.raw_transactions = raw]
    OBVIOUS
  <2>5. /\ thread' = t2 /\ listing' = listing
        /\ snapshot' = IF t.url = 0 THEN listing ELSE snapshot
    BY <1>2, <1>8, <2>3, <2>4 DEF FetchPage
  <2>6. Len(snapshot') = s2 /\ s2 \in Nat /\ s2 <= n /\ snapshot' = Newest(s2)
    BY <1>1, <2>1, <2>2, <2>5 DEF FetchTypeOK
  <2>7. t2 \in ThreadStates /\ FetchedSoFar(t2, s2, n)
    <3>1. CASE NextUrl(t.url) = {} /\ last = n
      <4>1. t2 = [t EXCEPT !.pc = "process", !.raw_transactions = raw]
        BY <2>4, <3>1
      <4>2. t2 \in ThreadStates /\ t2.pc = "process" /\ t2.raw_transactions = raw
        BY <1>3, <4>1 DEF ThreadStates
      <4> QED
        BY <2>3, <3>1, <4>2 DEF FetchedSoFar
    <3>2. CASE NextUrl(t.url) = {last} /\ last # 0
      <4>1. (CHOOSE u \in NextUrl(t.url) : TRUE) = last
        BY <3>2
      <4>2. t2 = [t EXCEPT !.url = last, !.raw_transactions = raw]
        BY <2>4, <3>2, <4>1
      <4>3. last \in Nat /\ last <= n
        BY <2>3
      <4>4. /\ t2 \in ThreadStates /\ t2.pc = "fetch" /\ t2.url = last
            /\ t2.raw_transactions = raw
        BY <1>3, <2>2, <4>2, <4>3 DEF ThreadStates
      <4> QED
        BY <2>3, <3>2, <4>3, <4>4 DEF FetchedSoFar
    <3> QED
      BY <2>3, <3>1, <3>2
  <2> QED
    BY <1>1, <2>2, <2>5, <2>6, <2>7 DEF FetchInv, FetchTypeOK
<1>9. CASE FetchFails \/ PollEnds \/ CrashAndRestart
  BY <1>4, <1>5, <1>9 DEF FetchFails, PollEnds, CrashAndRestart
<1>10. CASE ProcessTx
  <2>1. PICK t2 : t2 = [t EXCEPT !.pos = @ + 1]
    OBVIOUS
  <2>2. thread' = t2 /\ UNCHANGED <<listing, snapshot>> /\ t.pc = "process"
    BY <1>2, <1>10, <2>1 DEF ProcessTx
  <2>3. /\ t2 \in ThreadStates
        /\ t2.pc = "process" /\ t2.raw_transactions = t.raw_transactions
    BY <1>3, <2>1, <2>2 DEF ThreadStates
  <2>4. FetchedSoFar(t2, s, n)
    BY <1>3, <2>2, <2>3 DEF FetchedSoFar
  <2> QED
    BY <1>4, <2>2, <2>3, <2>4
<1>11. CASE UNCHANGED fetcherVars
  <2>1. thread' = t /\ UNCHANGED <<listing, snapshot>>
    BY <1>2, <1>11 DEF fetcherVars
  <2> QED
    BY <1>3, <1>4, <2>1
<1> QED
  BY <1>6, <1>7, <1>8, <1>9, <1>10, <1>11 DEF FetcherNext, FetcherStep

\* A complete fetch returns everything that was listed when it began, first in
\* the order of the listing (Fetcher!FetchCoversListing), for any size of a
\* page, however long the listing is and however it grows meanwhile.
THEOREM FetchIsComplete == FetcherSpec => []FetchCoversListing
<1>1. FetcherInit => FetchInv
  <2> SUFFICES ASSUME FetcherInit PROVE FetchInv
    OBVIOUS
  <2>1. listing = << >> /\ snapshot = << >> /\ thread = Sleeping /\ << >> = Newest(0)
    BY DEF FetcherInit, Newest
  <2> QED
    BY <2>1 DEF FetchInv, FetchTypeOK, FetchedSoFar, OnlyListed, Sleeping, ThreadStates
<1>2. FetchInv /\ [FetcherNext]_fetcherVars => FetchInv'
  BY FetcherNextInv
<1>3. FetchInv => FetchCoversListing
  <2> SUFFICES ASSUME FetchInv, thread.pc = "process" PROVE FetchCoversListing
    BY DEF FetchCoversListing
  <2>1. PICK n \in Nat, s \in Nat, raw \in Seq(Nat) :
          n = Len(listing) /\ s = Len(snapshot) /\ raw = thread.raw_transactions
    BY DEF FetchInv, FetchTypeOK, ThreadStates
  <2>2. listing = Newest(n) /\ snapshot = Newest(s) /\ s <= n
    BY <2>1 DEF FetchInv, FetchTypeOK
  <2>3. /\ \A k \in DOMAIN raw : raw[k] \in 1 .. n
        /\ HoldsAbove(raw, s, n, n) /\ NewestFirst(raw, s)
    BY <2>1 DEF FetchInv, FetchedSoFar, OnlyListed
  <2>4. ToSet(snapshot) \subseteq ToSet(raw)
    <3> SUFFICES ASSUME NEW i \in DOMAIN snapshot PROVE \E k \in DOMAIN raw : raw[k] = snapshot[i]
      BY DEF ToSet
    <3>1. i \in 1 .. s /\ snapshot[i] = s + 1 - i
      BY <2>2 DEF Newest
    <3>2. PICK x \in 1 .. s : x = snapshot[i]
      BY <3>1
    <3>3. x + n > n
      OBVIOUS
    <3> QED
      BY <2>3, <3>2, <3>3 DEF HoldsAbove
  <2>5. ToSet(raw) \subseteq ToSet(listing)
    <3> SUFFICES ASSUME NEW k \in DOMAIN raw PROVE \E i \in DOMAIN listing : listing[i] = raw[k]
      BY DEF ToSet
    <3>1. PICK x \in 1 .. n : x = raw[k]
      BY <2>3
    <3>2. PICK i \in 1 .. n : i = n + 1 - x
      BY <3>1
    <3>3. i \in DOMAIN listing /\ listing[i] = x
      BY <2>2, <3>2 DEF Newest
    <3> QED
      BY <3>1, <3>3
  <2>6. FirstsInOrder(raw, snapshot)
    <3> SUFFICES ASSUME NEW k \in DOMAIN raw, NEW i \in DOMAIN snapshot, NEW j \in DOMAIN snapshot,
                        i < j, raw[k] = snapshot[j]
                 PROVE  \E l \in 1 .. k - 1 : raw[l] = snapshot[i]
      BY DEF FirstsInOrder
    <3>1. /\ i \in 1 .. s /\ snapshot[i] = s + 1 - i
          /\ j \in 1 .. s /\ snapshot[j] = s + 1 - j
      BY <2>2 DEF Newest
    <3>2. PICK x \in 1 .. s : x = s + 1 - i
      BY <3>1
    <3>3. raw[k] < x
      BY <3>1, <3>2
    <3>4. PICK l \in 1 .. k - 1 : raw[l] = x
      BY <2>3, <3>3 DEF NewestFirst
    <3> QED
      BY <3>1, <3>2, <3>4
  <2> QED
    BY <2>1, <2>4, <2>5, <2>6 DEF FetchCoversListing
<1> QED
  BY <1>1, <1>2, <1>3, PTL DEF FetcherSpec

=============================================================================
