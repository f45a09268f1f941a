----------------------- MODULE DepositTrackingProofs ------------------------
(***************************************************************************)
(* What DepositScanner and DepositConfirmationWatcher keep for every set of *)
(* transactions, every depth and every bound: rows and blocks fit together, *)
(* a row has been credited exactly when it is CONFIRMED, and no credit is   *)
(* early unless a reorganisation tears a pass.                              *)
(***************************************************************************)
EXTENDS DepositTracking, FiniteSetTheorems, TLAPS
LOCAL INSTANCE FiniteSetsExt

-----------------------------------------------------------------------------
(* The inductive invariant.                                                *)

Blocks == [hash : 1 .. hashes, ahead : 0 .. MaxAhead, txs : SUBSET Txs]
Logs == [id : Identities, number : Nat, hash : 1 .. hashes]
Statuses == {"ABSENT", "DETECTED", "CONFIRMED", "REORGED"}

\* The canonical chain: block hashes differ, and a transaction is in one block or
\* in the mempool.
ChainShaped ==
    /\ chain \in Seq(Blocks) /\ Len(chain) \in 1 .. hashes
    /\ hashes \in 1 .. MaxHash
    /\ sent \subseteq Txs /\ mempool \subseteq sent
    /\ faults \in 0 .. MaxFaults /\ reorgs \in 0 .. MaxReorgs
    /\ torn \in BOOLEAN
ChainHolds ==
    /\ \A m, n \in DOMAIN chain : chain[m].hash = chain[n].hash => m = n
    /\ \A m, n \in DOMAIN chain : \A t \in chain[m].txs : t \in chain[n].txs => m = n
    /\ \A n \in DOMAIN chain : chain[n].txs \subseteq sent \ mempool

ScanShaped ==
    scan \in {NoScan}
        \cup [phase : {"check"}, head : 1 .. hashes]
        \cup [phase : {"logs"}, from : Nat \ {0}, to : 1 .. hashes]
        \cup [phase : {"tip"}, to : 1 .. hashes, logs : SUBSET Logs]
        \cup [phase : {"commit"}, to : 1 .. hashes, logs : SUBSET Logs, tip : 0 .. hashes]

WatchShaped ==
    watch \in {NoWatch}
        \cup [phase : {"list"}, head : 1 .. hashes]
        \cup [phase : {"receipt"}, head : 1 .. hashes, todo : SUBSET Identities]
        \cup [phase : {"logs"}, head : 1 .. hashes, todo : SUBSET Identities,
              row : Identities, number : Nat]
        \cup [phase : {"commit"}, head : 1 .. hashes, todo : SUBSET Identities,
              row : Identities, found : SUBSET Logs]

RowsShaped ==
    /\ deposits \in [Identities -> [status : Statuses, number : Nat, hash : 0 .. hashes]]
    /\ \A i \in Identities : deposits[i].status # "ABSENT" => deposits[i].hash # NoHash
    /\ scanState \in [number : 0 .. hashes, hash : 0 .. hashes]

Events ==
    [type : {"deposit.confirmed", "deposit.detected"}, id : Identities, hash : 1 .. hashes]
      \cup [type : {"deposit.reorged"}, id : Identities, hash : 1 .. hashes,
            was_confirmed : BOOLEAN]
Credits(i) == {e \in outbox : e.type = "deposit.confirmed" /\ e.id = i}
Reversals(i) == {e \in outbox : e.type = "deposit.reorged" /\ e.id = i /\ e.was_confirmed}
OutboxShaped ==
    /\ outbox \in SUBSET Events
    /\ \A i \in Identities : IsFiniteSet(Credits(i)) /\ IsFiniteSet(Reversals(i))

Shaped == ChainShaped /\ ScanShaped /\ WatchShaped /\ RowsShaped /\ OutboxShaped

\* A block hash fixes what is in the block: a log somebody has read is in the
\* block with its hash for as long as that block is canonical.
Genuine(l) ==
    \A n \in DOMAIN chain : chain[n].hash = l.hash =>
        n = l.number /\ \E t \in chain[n].txs : l = LogOf(chain[n], n, t)
RowLog(i) == [id |-> i, number |-> deposits[i].number, hash |-> deposits[i].hash]
ReadingsGenuine ==
    /\ \A i \in Identities : deposits[i].status # "ABSENT" => Genuine(RowLog(i))
    /\ scan.phase \in {"tip", "commit"} => \A l \in scan.logs : Genuine(l)
    /\ watch.phase = "commit" =>
          \A l \in watch.found : Genuine(l) /\ l.id = watch.row

\* The block with this hash is no longer canonical, and never will be again.
Gone(h) == \A n \in DOMAIN chain : chain[n].hash # h

\* The row is CONFIRMED in the block with this hash.
ConfirmedIn(i, h) == deposits[i].status = "CONFIRMED" /\ deposits[i].hash = h

\* A block whose confirmation or reversal is told is gone, unless the row still
\* stands by it.
ToldOnce ==
    \A i \in Identities, h \in 1 .. hashes :
        /\ Confirmed(i, h) \in outbox => ConfirmedIn(i, h) \/ Gone(h)
        /\ ReorgTold(i, h) => ~ConfirmedIn(i, h) /\ Gone(h)

\* What the watcher's pass has read of its row: the rows it has to check stay as
\* they are, their block is gone unless it was found, and what was found has not
\* been told.
WatchHolds ==
    /\ watch.phase \in {"receipt", "logs", "commit"} =>
          \A i \in watch.todo : deposits[i].status \in Live
    /\ watch.phase \in {"logs", "commit"} => watch.row \in watch.todo
    /\ watch.phase = "logs" => Gone(deposits[watch.row].hash)
    /\ watch.phase = "commit" =>
          /\ watch.found = {} => Gone(deposits[watch.row].hash)
          /\ \A l \in watch.found :
                /\ l.hash # deposits[watch.row].hash => Gone(deposits[watch.row].hash)
                /\ Confirmed(watch.row, l.hash) \in outbox => ConfirmedIn(watch.row, l.hash)
                /\ ~ReorgTold(watch.row, l.hash)

\* The depths the blocks of the chain have reached, and what an untorn pass of the
\* watcher knows of them.
DepthShaped == depth \in [1 .. MaxHash -> Int]
DepthHolds ==
    /\ \A n \in DOMAIN chain :
          chain[n].txs # {} => depth[chain[n].hash] >= Len(chain) - n + 1
    /\ ~torn /\ watch # NoWatch => watch.head <= Len(chain)
    /\ ~torn /\ watch.phase = "commit" =>
          \A l \in watch.found : \E n \in DOMAIN chain : chain[n].hash = l.hash

CreditInv ==
    /\ Shaped /\ ChainHolds /\ ReadingsGenuine /\ ToldOnce /\ WatchHolds
    /\ CreditsMatchRows
DepthInv == DepthShaped /\ DepthHolds /\ CalmCreditsAreDeep
IInv == CreditInv /\ DepthInv

-----------------------------------------------------------------------------
(* Operators of the model.                                                 *)

LEMMA MaxOfTwo ==
  ASSUME NEW m \in Int, NEW n \in Int
  PROVE  Max({m, n}) = IF m >= n THEN m ELSE n
<1>1. CASE m >= n
  BY <1>1 DEF Max
<1>2. CASE ~(m >= n)
  BY <1>2 DEF Max
<1> QED BY <1>1, <1>2

LEMMA MinOfTwo ==
  ASSUME NEW m \in Int, NEW n \in Int
  PROVE  Min({m, n}) = IF m <= n THEN m ELSE n
<1>1. CASE m <= n
  BY <1>1 DEF Min
<1>2. CASE ~(m <= n)
  BY <1>2 DEF Min
<1> QED BY <1>1, <1>2

\* A log index counts the transactions of the block up to its own.
LEMMA PlaceBound ==
  ASSUME NEW S \in SUBSET Txs, NEW t \in S
  PROVE  Place(S, t) \in 1 .. Cardinality(Txs)
<1> DEFINE U == {u \in S : u <= t}
<1>0. t \in Nat
  BY TxsAssumption
<1>1. U \in SUBSET Txs /\ t \in U
  <2>1. t <= t
    BY <1>0
  <2>2. t \in U
    BY <2>1, Zenon
  <2>3. U \subseteq Txs
    BY Zenon
  <2> QED BY <2>2, <2>3, Zenon
<1>2. IsFiniteSet(U) /\ Cardinality(U) <= Cardinality(Txs)
  BY <1>1, TxsAssumption, FS_Subset
<1>3. Cardinality(U) # 0
  BY <1>1, <1>2, FS_EmptySet
<1>4. Cardinality(U) \in Nat /\ Cardinality(Txs) \in Nat
  BY <1>2, TxsAssumption, FS_CardinalityType
<1>5. Place(S, t) = Cardinality(U)
  BY DEF Place
<1> HIDE DEF U
<1> QED BY <1>2, <1>3, <1>4, <1>5

\* What get_transfer_logs returns for a transaction of a block.
LEMMA LogOfShaped ==
  ASSUME NEW b \in Blocks, NEW n \in Nat, NEW t \in b.txs
  PROVE  /\ LogOf(b, n, t) \in Logs
         /\ LogOf(b, n, t).id[1] = t
         /\ LogOf(b, n, t).number = n
         /\ LogOf(b, n, t).hash = b.hash
<1>1. Place(b.txs, t) \in 1 .. Cardinality(Txs)
  BY PlaceBound DEF Blocks
<1>2. Cardinality(Txs) \in Nat
  BY TxsAssumption, FS_CardinalityType
<1>3. b.ahead + Place(b.txs, t) \in 1 .. Cardinality(Txs) + MaxAhead
  BY <1>1, <1>2, BoundsAssumption DEF Blocks
<1>4. <<t, b.ahead + Place(b.txs, t)>> \in Identities
  BY <1>3 DEF Identities, Blocks
<1> QED BY <1>4 DEF LogOf, Logs, Blocks

LEMMA ChainIndices ==
  ASSUME ChainShaped
  PROVE  /\ DOMAIN chain = 1 .. Len(chain)
         /\ Len(chain) \in Nat /\ hashes \in Nat
         /\ \A n \in DOMAIN chain : n \in Nat /\ chain[n] \in Blocks
BY BoundsAssumption DEF ChainShaped

LEMMA LogsInIs ==
  ASSUME NEW a, NEW b, NEW l
  PROVE  l \in LogsIn(a, b) <=>
             \E n \in (a .. b) \cap DOMAIN chain :
                 \E t \in chain[n].txs : l = LogOf(chain[n], n, t)
BY DEF LogsIn

\* What a pass reads from the chain is genuine, and canonical at that moment.
LEMMA Reading ==
  ASSUME ChainShaped, ChainHolds, NEW a, NEW b, NEW l \in LogsIn(a, b)
  PROVE  /\ l \in Logs /\ Genuine(l) /\ ~Gone(l.hash)
         /\ l.number \in (a .. b) \cap DOMAIN chain
         /\ chain[l.number].hash = l.hash
         /\ l.id[1] \in chain[l.number].txs
         /\ l = LogOf(chain[l.number], l.number, l.id[1])
<1>1. PICK n \in (a .. b) \cap DOMAIN chain : \E t \in chain[n].txs : l = LogOf(chain[n], n, t)
  BY LogsInIs
<1>2. PICK t \in chain[n].txs : l = LogOf(chain[n], n, t)
  BY <1>1
<1>3. n \in Nat /\ chain[n] \in Blocks
  BY ChainIndices
<1>4. l \in Logs /\ l.id[1] = t /\ l.number = n /\ l.hash = chain[n].hash
  BY <1>2, <1>3, LogOfShaped
<1>5. Genuine(l)
  BY <1>2, <1>4 DEF Genuine, ChainHolds
<1> QED BY <1>2, <1>4, <1>5 DEF Gone

\* get_receipt finds one log at most.
LEMMA OneReceipt ==
  ASSUME ChainShaped, ChainHolds, NEW t, NEW l \in Receipts(t), NEW m \in Receipts(t)
  PROVE  l = m
<1>1. l \in LogsIn(1, Len(chain)) /\ l.id[1] = t /\ m \in LogsIn(1, Len(chain)) /\ m.id[1] = t
  BY DEF Receipts
<1>2. /\ l.number \in DOMAIN chain /\ t \in chain[l.number].txs
      /\ l = LogOf(chain[l.number], l.number, t)
  BY <1>1, Reading
<1>3. /\ m.number \in DOMAIN chain /\ t \in chain[m.number].txs
      /\ m = LogOf(chain[m.number], m.number, t)
  BY <1>1, Reading
<1>4. l.number = m.number
  BY <1>2, <1>3 DEF ChainHolds
<1> QED BY <1>2, <1>3, <1>4

\* A row whose block is canonical has a receipt, which is its log.
LEMMA RowHasReceipt ==
  ASSUME Shaped, ChainHolds, ReadingsGenuine, NEW i \in Identities,
         deposits[i].status # "ABSENT", ~Gone(deposits[i].hash)
  PROVE  RowLog(i) \in Receipts(i[1])
<1>1. PICK n \in DOMAIN chain : chain[n].hash = deposits[i].hash
  BY DEF Gone
<1>2. Genuine(RowLog(i)) /\ RowLog(i).hash = deposits[i].hash /\ RowLog(i).id = i
  BY DEF ReadingsGenuine, RowLog
<1>3. PICK t \in chain[n].txs : RowLog(i) = LogOf(chain[n], n, t)
  BY <1>1, <1>2 DEF Genuine
<1>4. n \in 1 .. Len(chain)
  BY ChainIndices DEF Shaped
<1>5. RowLog(i) \in LogsIn(1, Len(chain))
  BY <1>3, <1>4, LogsInIs
<1> QED BY <1>2, <1>5 DEF Receipts

-----------------------------------------------------------------------------
(* The chain's own steps.                                                  *)

\* Between two states of the chain blocks are taken from the top or added under
\* fresh hashes; none changes.
ChainMoves ==
    /\ hashes \in Nat /\ hashes' \in Nat /\ hashes <= hashes'
    /\ \A n \in DOMAIN chain' :
          (n \in DOMAIN chain /\ chain'[n] = chain[n]) \/ chain'[n].hash > hashes

LEMMA GoneForEver ==
  ASSUME ChainMoves, NEW h \in 1 .. hashes, Gone(h)
  PROVE  Gone(h)'
BY DEF ChainMoves, Gone

LEMMA GenuineForEver ==
  ASSUME ChainMoves, NEW l, l.hash \in 1 .. hashes, Genuine(l)
  PROVE  Genuine(l)'
<1> SUFFICES ASSUME NEW n \in DOMAIN chain', chain'[n].hash = l.hash
             PROVE  n = l.number /\ \E t \in chain'[n].txs : l = LogOf(chain'[n], n, t)
  BY DEF Genuine
<1>1. n \in DOMAIN chain /\ chain'[n] = chain[n]
  BY DEF ChainMoves
<1> QED BY <1>1 DEF Genuine

\* Everything but the chain's own state survives a step of the chain.
LEMMA ChainStep ==
  ASSUME CreditInv, ChainMoves, ChainShaped', ChainHolds',
         UNCHANGED <<scanState, deposits, outbox, scan, watch>>
  PROVE  CreditInv'
<1>0. 1 .. hashes \subseteq 1 .. hashes' /\ 0 .. hashes \subseteq 0 .. hashes'
  BY DEF ChainMoves
<1>1. Logs \subseteq Logs' /\ Events \subseteq Events'
  BY <1>0 DEF Logs, Events
<1>2. ScanShaped'
  BY <1>0, <1>1 DEF CreditInv, Shaped, ScanShaped
<1>3. WatchShaped'
  BY <1>0, <1>1 DEF CreditInv, Shaped, WatchShaped
<1>4. RowsShaped'
  BY <1>0, <1>1 DEF CreditInv, Shaped, RowsShaped
<1>5. OutboxShaped'
  BY <1>1 DEF CreditInv, Shaped, OutboxShaped, Credits, Reversals
<1>6. ReadingsGenuine'
  <2>1. ASSUME NEW i \in Identities, deposits[i].status # "ABSENT"
        PROVE  Genuine(RowLog(i))'
    <3>1. PICK l : l = RowLog(i)
      OBVIOUS
    <3>2. l.hash \in 1 .. hashes /\ Genuine(l)
      BY <2>1, <3>1 DEF CreditInv, Shaped, RowsShaped, NoHash, RowLog, ReadingsGenuine
    <3>3. Genuine(l)'
      BY <3>2, GenuineForEver
    <3>4. RowLog(i)' = l
      BY <3>1 DEF RowLog
    <3> QED BY <3>3, <3>4 DEF Genuine
  <2>2. ASSUME scan.phase \in {"tip", "commit"}, NEW l \in scan.logs
        PROVE  Genuine(l)'
    <3>1. l \in Logs
      BY <2>2 DEF CreditInv, Shaped, ScanShaped, NoScan
    <3> QED BY <2>2, <3>1, GenuineForEver DEF CreditInv, ReadingsGenuine, Logs
  <2>3. ASSUME watch.phase = "commit", NEW l \in watch.found
        PROVE  Genuine(l)' /\ l.id = watch.row
    <3>1. l \in Logs
      BY <2>3 DEF CreditInv, Shaped, WatchShaped, NoWatch
    <3> QED BY <2>3, <3>1, GenuineForEver DEF CreditInv, ReadingsGenuine, Logs
  <2> QED BY <2>1, <2>2, <2>3 DEF ReadingsGenuine
<1>7. ToldOnce'
  <2> SUFFICES ASSUME NEW i \in Identities, NEW h \in 1 .. hashes'
               PROVE  /\ Confirmed(i, h) \in outbox => ConfirmedIn(i, h) \/ Gone(h)'
                      /\ ReorgTold(i, h) => ~ConfirmedIn(i, h) /\ Gone(h)'
    BY DEF ToldOnce, ConfirmedIn, Confirmed, Reorged, ReorgTold
  <2>1. Confirmed(i, h) \in outbox \/ ReorgTold(i, h) => h \in 1 .. hashes
    BY DEF CreditInv, Shaped, OutboxShaped, Events, Confirmed, Reorged, ReorgTold
  <2> QED BY <2>1, GoneForEver DEF CreditInv, ToldOnce
<1>8. WatchHolds'
  <2>1. ASSUME watch.phase \in {"logs", "commit"}, Gone(deposits[watch.row].hash)
        PROVE  Gone(deposits[watch.row].hash)'
    <3>1. watch.row \in Identities /\ deposits[watch.row].status \in Live
      BY <2>1 DEF CreditInv, Shaped, WatchShaped, NoWatch, WatchHolds
    <3>2. PICK h : h = deposits[watch.row].hash
      OBVIOUS
    <3>3. h \in 1 .. hashes
      BY <3>1, <3>2 DEF CreditInv, Shaped, RowsShaped, NoHash, Live
    <3>4. Gone(h)'
      BY <2>1, <3>2, <3>3, GoneForEver
    <3> QED BY <3>2, <3>4 DEF Gone
  <2> QED BY <2>1 DEF CreditInv, WatchHolds, ConfirmedIn, Confirmed, Reorged, ReorgTold
<1>9. CreditsMatchRows'
  BY DEF CreditInv, CreditsMatchRows, NetCredit
<1> QED BY <1>2, <1>3, <1>4, <1>5, <1>6, <1>7, <1>8, <1>9 DEF CreditInv, Shaped

LEMMA SimulateDepositStep ==
  ASSUME CreditInv, NEW t \in Txs, SimulateDeposit(t)
  PROVE  CreditInv'
<1>1. ChainShaped'
  BY DEF CreditInv, Shaped, ChainShaped, Blocks, SimulateDeposit
<1>2. ChainHolds'
  BY DEF CreditInv, ChainHolds, SimulateDeposit
<1>3. ChainMoves
  BY ChainIndices DEF CreditInv, Shaped, ChainMoves, SimulateDeposit
<1> QED BY <1>1, <1>2, <1>3, ChainStep DEF SimulateDeposit

\* What mine_block appends.
LEMMA MinedBlock ==
  ASSUME CreditInv, MineBlock
  PROVE  \E block \in Blocks' :
            /\ block.hash = hashes + 1 /\ block.txs \subseteq mempool
            /\ mempool' = mempool \ block.txs
            /\ chain' = Append(chain, block)
<1>1. PICK included \in {mempool, {}} :
         /\ \E k \in IF included = {} THEN {0} ELSE 0 .. MaxAhead :
               chain' = Append(chain, [hash |-> hashes + 1, ahead |-> k, txs |-> included])
         /\ mempool' = mempool \ included
  BY DEF MineBlock
<1>2. PICK k \in IF included = {} THEN {0} ELSE 0 .. MaxAhead :
         chain' = Append(chain, [hash |-> hashes + 1, ahead |-> k, txs |-> included])
  BY <1>1
<1>3. k \in 0 .. MaxAhead /\ included \subseteq mempool
  BY <1>1, <1>2, BoundsAssumption
<1>4. [hash |-> hashes + 1, ahead |-> k, txs |-> included] \in Blocks'
  BY <1>3, ChainIndices DEF CreditInv, Shaped, ChainShaped, Blocks, MineBlock
<1> QED BY <1>1, <1>2, <1>3, <1>4

LEMMA Appended ==
  ASSUME ChainShaped, NEW block, chain' = Append(chain, block)
  PROVE  /\ Len(chain') = Len(chain) + 1
         /\ DOMAIN chain' = 1 .. Len(chain) + 1
         /\ \A n \in DOMAIN chain : chain'[n] = chain[n]
         /\ chain'[Len(chain) + 1] = block
BY DEF ChainShaped

LEMMA MineBlockStep ==
  ASSUME CreditInv, MineBlock
  PROVE  CreditInv'
<1>1. PICK block \in Blocks' :
            /\ block.hash = hashes + 1 /\ block.txs \subseteq mempool
            /\ mempool' = mempool \ block.txs
            /\ chain' = Append(chain, block)
  BY MinedBlock
<1>2. /\ Len(chain') = Len(chain) + 1
      /\ DOMAIN chain' = 1 .. Len(chain) + 1
      /\ \A n \in DOMAIN chain : chain'[n] = chain[n]
      /\ chain'[Len(chain) + 1] = block
  BY <1>1, Appended DEF CreditInv, Shaped
<1>3. /\ DOMAIN chain = 1 .. Len(chain) /\ Len(chain) \in Nat /\ hashes \in Nat
      /\ \A n \in DOMAIN chain : chain[n] \in Blocks
  BY ChainIndices DEF CreditInv, Shaped
<1>4. hashes' = hashes + 1 /\ hashes < MaxHash /\ sent' = sent
  BY DEF MineBlock
<1>5. Blocks \subseteq Blocks'
  BY <1>3, <1>4 DEF Blocks
<1>6. ChainShaped'
  <2>1. chain \in Seq(Blocks')
    BY <1>5, <1>3 DEF CreditInv, Shaped, ChainShaped
  <2>2. chain' \in Seq(Blocks')
    BY <1>1, <2>1
  <2> QED BY <1>1, <1>2, <1>3, <1>4, <2>2, BoundsAssumption
          DEF CreditInv, Shaped, ChainShaped, MineBlock
<1>7. \A n \in DOMAIN chain' : n \in DOMAIN chain \/ n = Len(chain) + 1
  BY <1>2, <1>3
<1>8. \A n \in DOMAIN chain : chain[n].hash <= hashes /\ chain[n].hash \in Nat
  BY <1>3 DEF Blocks
<1>9. ChainHolds'
  <2>1. \A m, n \in DOMAIN chain' : chain'[m].hash = chain'[n].hash => m = n
    BY <1>1, <1>2, <1>3, <1>7, <1>8 DEF CreditInv, ChainHolds
  <2>2. \A m, n \in DOMAIN chain' : \A t \in chain'[m].txs : t \in chain'[n].txs => m = n
    BY <1>1, <1>2, <1>7 DEF CreditInv, ChainHolds
  <2>3. \A n \in DOMAIN chain' : chain'[n].txs \subseteq sent' \ mempool'
    BY <1>1, <1>2, <1>4, <1>7 DEF CreditInv, ChainHolds, Shaped, ChainShaped
  <2> QED BY <2>1, <2>2, <2>3 DEF ChainHolds
<1>10. ChainMoves
  BY <1>1, <1>2, <1>3, <1>4, <1>7 DEF ChainMoves
<1> QED BY <1>6, <1>9, <1>10, ChainStep DEF MineBlock

\* What reorg leaves of the chain.
LEMMA Kept ==
  ASSUME ChainShaped, NEW d \in 1 .. MaxDepth, NEW drop, Orphan(d, drop)
  PROVE  \E keep \in 1 .. Len(chain) - 1 :
            /\ Len(chain') = keep
            /\ chain' \in Seq(Blocks)
            /\ DOMAIN chain' = 1 .. keep
            /\ \A n \in 1 .. keep : n \in DOMAIN chain /\ chain'[n] = chain[n]
            /\ mempool' \subseteq mempool \cup
                                  UNION {chain[n].txs : n \in keep + 1 .. Len(chain)}
<1> DEFINE keep == Max({1, Len(chain) - d})
<1>0. DOMAIN chain = 1 .. Len(chain) /\ Len(chain) \in Nat
  BY ChainIndices
<1>1. keep \in Nat \ {0}
  BY <1>0, BoundsAssumption, MaxOfTwo
<1>2. /\ keep < Len(chain) /\ chain' = SubSeq(chain, 1, keep)
      /\ mempool' \subseteq mempool \cup UNION {chain[n].txs : n \in keep + 1 .. Len(chain)}
  BY DEF Orphan
<1> HIDE DEF keep
<1>3. keep \in 1 .. Len(chain) - 1
  BY <1>0, <1>1, <1>2
<1>4. /\ chain' \in Seq(Blocks) /\ Len(chain') = keep
      /\ \A n \in 1 .. keep : n \in DOMAIN chain /\ chain'[n] = chain[n]
  BY <1>0, <1>2, <1>3 DEF ChainShaped
<1>5. DOMAIN chain' = 1 .. keep
  BY <1>4
<1> QED BY <1>2, <1>3, <1>4, <1>5

LEMMA OrphanStep ==
  ASSUME CreditInv, NEW d \in 1 .. MaxDepth, NEW drop, Orphan(d, drop)
  PROVE  CreditInv'
<1>1. PICK keep \in 1 .. Len(chain) - 1 :
            /\ Len(chain') = keep
            /\ chain' \in Seq(Blocks)
            /\ DOMAIN chain' = 1 .. keep
            /\ \A n \in 1 .. keep : n \in DOMAIN chain /\ chain'[n] = chain[n]
            /\ mempool' \subseteq mempool \cup
                                  UNION {chain[n].txs : n \in keep + 1 .. Len(chain)}
  BY Kept DEF CreditInv, Shaped
<1>2. DOMAIN chain = 1 .. Len(chain) /\ Len(chain) \in Nat /\ hashes \in Nat
  BY ChainIndices DEF CreditInv, Shaped
<1>3. /\ hashes' = hashes /\ sent' = sent /\ faults' = faults /\ torn' \in BOOLEAN
      /\ reorgs' = reorgs + 1 /\ reorgs < MaxReorgs
      /\ UNCHANGED <<scanState, deposits, outbox, scan, watch>>
  BY DEF Orphan
<1>4. \A n \in keep + 1 .. Len(chain) : n \in DOMAIN chain /\ n \notin 1 .. keep
  BY <1>1, <1>2
<1>5. mempool' \subseteq sent
  BY <1>1, <1>4 DEF CreditInv, ChainHolds, Shaped, ChainShaped
<1>6. ChainShaped'
  BY <1>1, <1>2, <1>3, <1>5, BoundsAssumption DEF CreditInv, Shaped, ChainShaped, Blocks
<1>7. ChainHolds'
  <2>1. \A m, n \in DOMAIN chain' : chain'[m].hash = chain'[n].hash => m = n
    BY <1>1 DEF CreditInv, ChainHolds
  <2>2. \A m, n \in DOMAIN chain' : \A t \in chain'[m].txs : t \in chain'[n].txs => m = n
    BY <1>1 DEF CreditInv, ChainHolds
  <2>3. ASSUME NEW n \in DOMAIN chain', NEW t \in chain'[n].txs
        PROVE  t \in sent' \ mempool'
    <3>1. t \in chain[n].txs /\ n \in 1 .. keep /\ n \in DOMAIN chain
      BY <1>1, <2>3
    <3>2. t \in sent \ mempool
      BY <3>1 DEF CreditInv, ChainHolds
    <3>3. \A m \in keep + 1 .. Len(chain) : t \notin chain[m].txs
      BY <3>1, <1>4 DEF CreditInv, ChainHolds
    <3> QED BY <1>1, <1>3, <3>2, <3>3
  <2> QED BY <2>1, <2>2, <2>3 DEF ChainHolds
<1>8. ChainMoves
  BY <1>1, <1>2, <1>3 DEF ChainMoves
<1> QED BY <1>3, <1>6, <1>7, <1>8, ChainStep

-----------------------------------------------------------------------------
(* The scanner's pass.                                                     *)

dbVars == <<scanState, deposits, outbox>>

\* A step of a pass that reads, or is lost, leaves chain and tables alone.
LEMMA ReadStep ==
  ASSUME CreditInv, UNCHANGED <<chain, hashes, mempool, sent, reorgs, torn>>,
         UNCHANGED dbVars, faults' \in 0 .. MaxFaults,
         ScanShaped', WatchShaped', ReadingsGenuine', WatchHolds'
  PROVE  CreditInv'
<1>1. ChainShaped' /\ RowsShaped'
  BY DEF CreditInv, Shaped, ChainShaped, RowsShaped, Blocks, dbVars
<1>2. OutboxShaped'
  BY DEF CreditInv, Shaped, OutboxShaped, Events, Credits, Reversals, dbVars
<1>3. ChainHolds'
  BY DEF CreditInv, ChainHolds
<1>4. ToldOnce'
  BY DEF CreditInv, ToldOnce, Confirmed, Reorged, ReorgTold, ConfirmedIn, Gone, dbVars
<1>5. CreditsMatchRows'
  BY DEF CreditInv, CreditsMatchRows, NetCredit, dbVars
<1> QED BY <1>1, <1>2, <1>3, <1>4, <1>5 DEF CreditInv, Shaped

\* What the watcher has read stays as it is in a step that only reads.
LEMMA WatchUntouched ==
  ASSUME CreditInv, UNCHANGED <<chain, hashes>>, UNCHANGED dbVars, UNCHANGED watch
  PROVE  /\ WatchShaped' /\ WatchHolds'
         /\ \A i \in Identities : deposits'[i].status # "ABSENT" => Genuine(RowLog(i))'
         /\ watch'.phase = "commit" => \A l \in watch'.found : Genuine(l)' /\ l.id = watch'.row
<1>1. WatchShaped'
  BY DEF CreditInv, Shaped, WatchShaped, Logs
<1>2. WatchHolds'
  BY DEF CreditInv, WatchHolds, Gone, ConfirmedIn, Confirmed, Reorged, ReorgTold, dbVars
<1>3. \A i \in Identities : deposits'[i].status # "ABSENT" => Genuine(RowLog(i))'
  BY DEF CreditInv, ReadingsGenuine, Genuine, RowLog, dbVars
<1>4. watch'.phase = "commit" => \A l \in watch'.found : Genuine(l)' /\ l.id = watch'.row
  BY DEF CreditInv, ReadingsGenuine, Genuine
<1> QED BY <1>1, <1>2, <1>3, <1>4

LEMMA HashAtShaped ==
  ASSUME ChainShaped, NEW n
  PROVE  HashAt(n) \in 0 .. hashes
BY ChainIndices DEF HashAt, NoHash, Blocks

\* The cursor after the reorg guard is a block number.
LEMMA RewoundShaped ==
  ASSUME CreditInv
  PROVE  Rewound \in Nat
<1>1. scanState.number \in Nat
  BY ChainIndices DEF CreditInv, Shaped, RowsShaped
<1> QED BY <1>1, MaxOfTwo, DepthsAssumption DEF Rewound

LEMMA ScannerReads ==
  ASSUME CreditInv, ScanHead \/ ScanCheck \/ ScanLogs \/ ScanTip
  PROVE  CreditInv'
<1>0. /\ UNCHANGED <<chain, hashes, mempool, sent, reorgs, torn>> /\ UNCHANGED dbVars
      /\ faults' = faults /\ watch' = watch
  BY DEF ScanHead, ScanCheck, ScanLogs, ScanTip, chainVars, dbVars
<1>1. /\ WatchShaped' /\ WatchHolds'
      /\ \A i \in Identities : deposits'[i].status # "ABSENT" => Genuine(RowLog(i))'
      /\ watch'.phase = "commit" => \A l \in watch'.found : Genuine(l)' /\ l.id = watch'.row
  BY <1>0, WatchUntouched
<1>2. hashes \in Nat /\ Len(chain) \in 1 .. hashes
  BY ChainIndices DEF CreditInv, Shaped, ChainShaped
<1>3. faults' \in 0 .. MaxFaults
  BY <1>0 DEF CreditInv, Shaped, ChainShaped
<1> SUFFICES /\ ScanShaped'
             /\ scan'.phase \in {"tip", "commit"} => \A l \in scan'.logs : Genuine(l)
  <2> SUFFICES ReadingsGenuine' /\ ScanShaped'
    BY <1>0, <1>1, <1>3, ReadStep
  <2>1. \A l : Genuine(l)' <=> Genuine(l)
    BY <1>0 DEF Genuine
  <2> QED BY <1>1, <2>1 DEF ReadingsGenuine
<1>4. CASE ScanHead
  BY <1>0, <1>2, <1>4 DEF ScanHead, ScanShaped
<1>5. CASE ScanCheck
  <2> DEFINE from == Rewound + 1
             to == Min({scan.head, from + ScanBatch - 1})
  <2>1. from \in Nat \ {0}
    BY RewoundShaped
  <2>2. scan.phase = "check" /\ scan.head \in 1 .. hashes
    BY <1>5 DEF ScanCheck, CreditInv, Shaped, ScanShaped, NoScan
  <2>3. to = IF scan.head <= from + ScanBatch - 1 THEN scan.head ELSE from + ScanBatch - 1
    BY <1>2, <2>1, <2>2, MinOfTwo, DepthsAssumption
  <2>4. scan' = IF from > to THEN NoScan ELSE [phase |-> "logs", from |-> from, to |-> to]
    BY <1>5 DEF ScanCheck
  <2> HIDE DEF from, to
  <2>5. to \in 1 .. hashes
    BY <1>2, <2>1, <2>2, <2>3, DepthsAssumption
  <2> QED BY <1>0, <2>1, <2>4, <2>5 DEF ScanShaped, NoScan
<1>6. CASE ScanLogs
  <2>1. scan.phase = "logs" /\ scan.to \in 1 .. hashes
    BY <1>6 DEF ScanLogs, CreditInv, Shaped, ScanShaped, NoScan
  <2>2. \A l \in LogsIn(scan.from, scan.to) : l \in Logs /\ Genuine(l)
    BY Reading DEF CreditInv, Shaped
  <2>3. scan' = [phase |-> "tip", to |-> scan.to, logs |-> LogsIn(scan.from, scan.to)]
    BY <1>6 DEF ScanLogs
  <2>4. Logs' = Logs
    BY <1>0 DEF Logs
  <2> QED BY <1>0, <2>1, <2>2, <2>3, <2>4 DEF ScanShaped
<1>7. CASE ScanTip
  <2>1. /\ scan.phase = "tip" /\ scan.to \in 1 .. hashes /\ scan.logs \in SUBSET Logs
        /\ \A l \in scan.logs : Genuine(l)
    BY <1>7 DEF ScanTip, CreditInv, Shaped, ScanShaped, NoScan, ReadingsGenuine
  <2>2. HashAt(scan.to) \in 0 .. hashes
    BY HashAtShaped DEF CreditInv, Shaped
  <2>3. scan' = [phase |-> "commit", to |-> scan.to, logs |-> scan.logs,
                 tip |-> HashAt(scan.to)]
    BY <1>7 DEF ScanTip
  <2>4. Logs' = Logs
    BY <1>0 DEF Logs
  <2> QED BY <1>0, <2>1, <2>2, <2>3, <2>4 DEF ScanShaped
<1> QED BY <1>4, <1>5, <1>6, <1>7

\* What _upsert_deposit does to one row: it takes over a log of the scan, or the
\* row is left alone. A live row is always left alone.
LEMMA UpsertRow ==
  ASSUME CreditInv, ScanCommit, NEW i \in Identities
  PROVE  \/ deposits'[i] = deposits[i]
         \/ /\ deposits[i].status \notin Live
            /\ \E l \in scan.logs :
                  /\ l \in Logs /\ Genuine(l) /\ l.id = i
                  /\ deposits'[i] = [status |-> "DETECTED", number |-> l.number, hash |-> l.hash]
<1> DEFINE new == Upserted(scan.logs)
<1>1. /\ scan.logs \in SUBSET Logs /\ \A l \in scan.logs : Genuine(l)
  BY DEF ScanCommit, CreditInv, Shaped, ScanShaped, NoScan, ReadingsGenuine
<1>2. deposits'[i] = IF \E l \in new : l.id = i
                     THEN LET l == CHOOSE l \in new : l.id = i
                          IN [status |-> "DETECTED", number |-> l.number, hash |-> l.hash]
                     ELSE deposits[i]
  BY DEF ScanCommit
<1>3. \A l \in new : l \in scan.logs /\ deposits[l.id].status \notin Live
  BY DEF Upserted
<1> HIDE DEF new
<1>4. CASE \E l \in new : l.id = i
  <2> DEFINE l == CHOOSE l \in new : l.id = i
  <2>1. l \in new /\ l.id = i
    BY <1>4
  <2>2. deposits'[i] = [status |-> "DETECTED", number |-> l.number, hash |-> l.hash]
    BY <1>2, <1>4
  <2> HIDE DEF l
  <2> QED BY <1>1, <1>3, <2>1, <2>2
<1> QED BY <1>2, <1>4

LEMMA ScanCommitStep ==
  ASSUME CreditInv, ScanCommit
  PROVE  CreditInv'
<1> DEFINE new == Upserted(scan.logs)
<1>0. /\ UNCHANGED <<chain, hashes, mempool, sent, reorgs, torn, faults, watch>>
      /\ scan' = NoScan
  BY DEF ScanCommit, chainVars
<1>1. hashes \in Nat /\ Logs' = Logs /\ Events' = Events
  BY <1>0, ChainIndices DEF CreditInv, Shaped, Logs, Events
<1>2. /\ scan.to \in 1 .. hashes /\ scan.tip \in 0 .. hashes /\ scan.logs \in SUBSET Logs
  BY DEF ScanCommit, CreditInv, Shaped, ScanShaped, NoScan
<1>3. new \in SUBSET Logs
  BY <1>2 DEF Upserted
<1>4. outbox' = outbox \cup {Detected(l.id, l.hash) : l \in new}
  BY DEF ScanCommit
<1> HIDE DEF new
<1>5. ASSUME NEW i \in Identities
      PROVE  /\ deposits'[i] = deposits[i] \/ deposits[i].status \notin Live
             /\ deposits'[i] \in [status : Statuses, number : Nat, hash : 0 .. hashes]
             /\ deposits'[i].status # "ABSENT" =>
                   deposits'[i].hash # NoHash /\ Genuine(RowLog(i)')
             /\ deposits'[i] = deposits[i] \/ deposits'[i].status = "DETECTED"
  <2>1. CASE deposits'[i] = deposits[i]
    <3>1. RowLog(i)' = RowLog(i)
      BY <2>1 DEF RowLog
    <3> QED BY <2>1, <3>1 DEF CreditInv, Shaped, RowsShaped, ReadingsGenuine
  <2>2. ASSUME deposits[i].status \notin Live,
               NEW l \in scan.logs, l \in Logs, Genuine(l), l.id = i,
               deposits'[i] = [status |-> "DETECTED", number |-> l.number, hash |-> l.hash]
        PROVE  /\ deposits'[i] = deposits[i] \/ deposits[i].status \notin Live
               /\ deposits'[i] \in [status : Statuses, number : Nat, hash : 0 .. hashes]
               /\ deposits'[i].status # "ABSENT" =>
                     deposits'[i].hash # NoHash /\ Genuine(RowLog(i)')
               /\ deposits'[i] = deposits[i] \/ deposits'[i].status = "DETECTED"
    <3>1. RowLog(i)' = l
      BY <2>2 DEF RowLog, Logs
    <3>2. l.hash \in 1 .. hashes /\ l.number \in Nat
      BY <2>2 DEF Logs
    <3> QED BY <1>1, <2>2, <3>1, <3>2 DEF Statuses, NoHash
  <2> QED BY <2>1, <2>2, UpsertRow
<1>6. ChainShaped' /\ ChainHolds'
  BY <1>0 DEF CreditInv, Shaped, ChainShaped, ChainHolds, Blocks
<1>7. ScanShaped' /\ WatchShaped'
  BY <1>0, <1>1 DEF CreditInv, Shaped, ScanShaped, WatchShaped
<1>8. RowsShaped'
  <2>1. deposits' \in [Identities -> [status : Statuses, number : Nat, hash : 0 .. hashes]]
    <3>1. deposits' = [i \in Identities |-> deposits'[i]]
      BY DEF ScanCommit
    <3> QED BY <1>5, <3>1
  <2>2. scanState' \in [number : 0 .. hashes, hash : 0 .. hashes]
    BY <1>1, <1>2 DEF ScanCommit
  <2> QED BY <1>0, <1>5, <2>1, <2>2 DEF RowsShaped
<1>9. /\ outbox' \in SUBSET Events
      /\ \A i \in Identities : Credits(i)' = Credits(i) /\ Reversals(i)' = Reversals(i)
  BY <1>3, <1>4 DEF CreditInv, Shaped, OutboxShaped, Events, Logs, Detected, Credits, Reversals
<1>10. OutboxShaped'
  BY <1>1, <1>9 DEF CreditInv, Shaped, OutboxShaped
<1>11. \A i, h : /\ Confirmed(i, h) \in outbox' <=> Confirmed(i, h) \in outbox
                 /\ ReorgTold(i, h)' <=> ReorgTold(i, h)
  BY <1>4 DEF Detected, Confirmed, Reorged, ReorgTold
<1>12. \A i \in Identities : /\ deposits'[i].status = "CONFIRMED" <=> deposits[i].status = "CONFIRMED"
                             /\ \A h : ConfirmedIn(i, h)' <=> ConfirmedIn(i, h)
  BY <1>5 DEF Live, ConfirmedIn
<1>13. ReadingsGenuine'
  <2>1. \A l : Genuine(l)' <=> Genuine(l)
    BY <1>0 DEF Genuine
  <2>2. ASSUME NEW i \in Identities, deposits'[i].status # "ABSENT"
        PROVE  Genuine(RowLog(i))'
    <3>1. PICK l : l = RowLog(i)'
      OBVIOUS
    <3>2. Genuine(l)'
      BY <1>5, <2>1, <2>2, <3>1
    <3> QED BY <3>1, <3>2 DEF Genuine
  <2> QED BY <1>0, <2>1, <2>2 DEF ReadingsGenuine, CreditInv, NoScan
<1>14. ToldOnce'
  BY <1>0, <1>11, <1>12 DEF CreditInv, ToldOnce, Gone, Confirmed, Reorged, ReorgTold
<1>15. WatchHolds'
  <2>1. watch.phase \in {"receipt", "logs", "commit"} =>
          \A i \in watch.todo : i \in Identities /\ deposits'[i] = deposits[i]
    BY <1>5 DEF CreditInv, WatchHolds, Shaped, WatchShaped, NoWatch
  <2>2. watch.phase \in {"logs", "commit"} => watch.row \in Identities /\ watch.row \in watch.todo
    BY <2>1 DEF CreditInv, WatchHolds
  <2>3. \A h : Gone(h)' <=> Gone(h)
    BY <1>0 DEF Gone
  <2>4. watch.phase \in {"logs", "commit"} =>
           /\ deposits'[watch.row] = deposits[watch.row]
           /\ Gone(deposits[watch.row].hash)' <=> Gone(deposits[watch.row].hash)
    BY <1>0, <2>1, <2>2 DEF Gone
  <2> QED BY <1>0, <1>11, <2>1, <2>2, <2>4
          DEF CreditInv, WatchHolds, ConfirmedIn, Confirmed, Reorged, ReorgTold
<1>16. CreditsMatchRows'
  <2>1. \A i \in Identities : NetCredit(i)' = NetCredit(i)
    BY <1>9 DEF NetCredit, Credits, Reversals
  <2> QED BY <1>12, <2>1 DEF CreditInv, CreditsMatchRows
<1> QED BY <1>6, <1>7, <1>8, <1>10, <1>13, <1>14, <1>15, <1>16 DEF CreditInv, Shaped

-----------------------------------------------------------------------------
(* The watcher's pass.                                                     *)

LEMMA NextRowShaped ==
  ASSUME NEW head \in 1 .. hashes, NEW todo \in SUBSET Identities
  PROVE  /\ NextRow(head, todo) \in {NoWatch} \cup
               [phase : {"receipt"}, head : 1 .. hashes, todo : SUBSET Identities]
         /\ NextRow(head, todo) # NoWatch => NextRow(head, todo).todo = todo
BY DEF NextRow, NoWatch

\* What a step of the watcher that reads has to show.
LEMMA WatchReadStep ==
  ASSUME CreditInv, UNCHANGED <<chainVars, scanState, deposits, outbox, scan, faults>>,
         WatchShaped', WatchHolds',
         watch'.phase = "commit" => \A l \in watch'.found : Genuine(l) /\ l.id = watch'.row
  PROVE  CreditInv'
<1>0. /\ UNCHANGED <<chain, hashes, mempool, sent, reorgs, torn>> /\ UNCHANGED dbVars
      /\ faults' = faults /\ scan' = scan
  BY DEF chainVars, dbVars
<1>1. faults' \in 0 .. MaxFaults
  BY <1>0 DEF CreditInv, Shaped, ChainShaped
<1>2. ScanShaped'
  BY <1>0 DEF CreditInv, Shaped, ScanShaped, Logs
<1>3. ReadingsGenuine'
  <2>1. \A l : Genuine(l)' <=> Genuine(l)
    BY <1>0 DEF Genuine
  <2>2. \A i \in Identities : deposits'[i].status # "ABSENT" => Genuine(RowLog(i))'
    BY <1>0 DEF CreditInv, ReadingsGenuine, Genuine, RowLog, dbVars
  <2> QED BY <1>0, <2>1, <2>2 DEF ReadingsGenuine, CreditInv
<1> QED BY <1>0, <1>1, <1>2, <1>3, ReadStep

LEMMA WatchBegins ==
  ASSUME CreditInv, WatchHead \/ WatchList
  PROVE  CreditInv'
<1>0. UNCHANGED <<chainVars, scanState, deposits, outbox, scan, faults>>
  BY DEF WatchHead, WatchList
<1>1. Len(chain) \in 1 .. hashes /\ hashes' = hashes /\ deposits' = deposits
  BY <1>0 DEF CreditInv, Shaped, ChainShaped, chainVars
<1> SUFFICES WatchShaped' /\ WatchHolds' /\ watch'.phase # "commit"
  BY <1>0, WatchReadStep
<1>2. CASE WatchHead
  BY <1>1, <1>2 DEF WatchHead, WatchShaped, WatchHolds
<1>3. CASE WatchList
  <2>1. watch.head \in 1 .. hashes /\ watch' = NextRow(watch.head, Watchlist(watch.head))
    BY <1>3 DEF WatchList, CreditInv, Shaped, WatchShaped, NoWatch
  <2>2. /\ Watchlist(watch.head) \in SUBSET Identities
        /\ \A i \in Watchlist(watch.head) : deposits[i].status \in Live
    BY DEF Watchlist
  <2>3. /\ watch' \in {NoWatch} \cup
               [phase : {"receipt"}, head : 1 .. hashes, todo : SUBSET Identities]
        /\ watch' # NoWatch => watch'.todo = Watchlist(watch.head)
    BY <2>1, <2>2, NextRowShaped
  <2>4. watch'.phase \in {"idle", "receipt"} /\ (watch'.phase = "receipt" => watch' # NoWatch)
    BY <2>3 DEF NoWatch
  <2>5. WatchShaped'
    BY <1>1, <2>3 DEF WatchShaped
  <2>6. WatchHolds'
    BY <1>1, <2>2, <2>3, <2>4 DEF WatchHolds
  <2> QED BY <2>4, <2>5, <2>6
<1> QED BY <1>2, <1>3

\* A log read from the chain has not been told, unless the row stands by it.
LEMMA Untold ==
  ASSUME CreditInv, NEW i \in Identities, NEW l \in Logs, ~Gone(l.hash)
  PROVE  /\ Confirmed(i, l.hash) \in outbox => ConfirmedIn(i, l.hash)
         /\ ~ReorgTold(i, l.hash)
BY DEF CreditInv, ToldOnce, Logs

LEMMA WatchReceiptStep ==
  ASSUME CreditInv, NEW i \in Identities, WatchReceipt(i)
  PROVE  CreditInv'
<1> DEFINE found == Receipts(i[1])
<1>0. /\ UNCHANGED <<chainVars, scanState, deposits, outbox, scan, faults>>
      /\ hashes' = hashes /\ deposits' = deposits /\ outbox' = outbox /\ chain' = chain
  BY DEF WatchReceipt, chainVars
<1>1. /\ watch.phase = "receipt" /\ i \in watch.todo /\ watch.head \in 1 .. hashes
      /\ watch.todo \in SUBSET Identities
      /\ \A j \in watch.todo : deposits[j].status \in Live
  BY DEF WatchReceipt, CreditInv, Shaped, WatchShaped, NoWatch, WatchHolds
<1>2. \A l \in found : l \in Logs /\ Genuine(l) /\ ~Gone(l.hash) /\ l.number \in Nat
  <2>1. \A l \in found : l \in LogsIn(1, Len(chain))
    BY DEF Receipts
  <2> QED BY <2>1, Reading DEF CreditInv, Shaped, Logs
<1>3. \A l, m \in found : l = m
  BY OneReceipt DEF CreditInv, Shaped
<1>4. ~Gone(deposits[i].hash) => RowLog(i) \in found
  BY <1>1, RowHasReceipt DEF CreditInv, Live
<1>5. RowLog(i).hash = deposits[i].hash /\ RowLog(i).id = i
  BY DEF RowLog
<1>6. watch' = IF found # {} /\ \A l \in found : l.hash # deposits[i].hash
          THEN [phase |-> "logs", head |-> watch.head, todo |-> watch.todo, row |-> i,
                number |-> (CHOOSE l \in found : TRUE).number]
          ELSE [phase |-> "commit", head |-> watch.head, todo |-> watch.todo, row |-> i,
                found |-> found]
  BY DEF WatchReceipt
<1>7. Logs' = Logs
  BY <1>0 DEF Logs
<1> HIDE DEF found
<1> SUFFICES /\ WatchShaped' /\ WatchHolds'
             /\ watch'.phase = "commit" => \A l \in watch'.found : Genuine(l) /\ l.id = watch'.row
  BY <1>0, WatchReadStep
<1>8. CASE found # {} /\ \A l \in found : l.hash # deposits[i].hash
  <2>1. (CHOOSE l \in found : TRUE) \in found
    BY <1>8
  <2>2. watch' = [phase |-> "logs", head |-> watch.head, todo |-> watch.todo, row |-> i,
                  number |-> (CHOOSE l \in found : TRUE).number]
    BY <1>6, <1>8
  <2>3. (CHOOSE l \in found : TRUE).number \in Nat
    BY <1>2, <2>1
  <2>4. Gone(deposits[i].hash)
    BY <1>4, <1>5, <1>8
  <2>5. WatchShaped'
    BY <1>0, <1>1, <2>2, <2>3 DEF WatchShaped
  <2>6. WatchHolds'
    BY <1>0, <1>1, <2>2, <2>4 DEF WatchHolds, Gone
  <2> QED BY <2>2, <2>5, <2>6
<1>9. CASE ~(found # {} /\ \A l \in found : l.hash # deposits[i].hash)
  <2>1. watch' = [phase |-> "commit", head |-> watch.head, todo |-> watch.todo, row |-> i,
                  found |-> found]
    BY <1>6, <1>9
  <2>2. found = {} => Gone(deposits[i].hash)
    BY <1>4
  <2>3. ASSUME NEW l \in found
        PROVE  l.hash = deposits[i].hash /\ l.id = i
    <3>1. PICK m \in found : m.hash = deposits[i].hash
      BY <1>9, <2>3
    <3>2. l = m
      BY <1>3
    <3>3. ~Gone(deposits[i].hash)
      BY <1>2, <3>1
    <3>4. l = RowLog(i)
      BY <1>3, <1>4, <3>3
    <3> QED BY <1>5, <3>4
  <2>4. WatchShaped'
    BY <1>0, <1>1, <1>2, <1>7, <2>1 DEF WatchShaped
  <2>5. \A l \in found : /\ Confirmed(i, l.hash) \in outbox => ConfirmedIn(i, l.hash)
                         /\ ~ReorgTold(i, l.hash)
    BY <1>2, Untold
  <2>6. WatchHolds'
    BY <1>0, <1>1, <2>1, <2>2, <2>3, <2>5
       DEF WatchHolds, Gone, ConfirmedIn, Confirmed, Reorged, ReorgTold
  <2> QED BY <1>2, <2>1, <2>3, <2>4, <2>6
<1> QED BY <1>8, <1>9

LEMMA WatchLogsStep ==
  ASSUME CreditInv, WatchLogs
  PROVE  CreditInv'
<1> DEFINE found == {l \in LogsIn(watch.number, watch.number) : l.id = watch.row}
<1>0. /\ UNCHANGED <<chainVars, scanState, deposits, outbox, scan, faults>>
      /\ hashes' = hashes /\ deposits' = deposits /\ outbox' = outbox /\ chain' = chain
  BY DEF WatchLogs, chainVars
<1>1. /\ watch.phase = "logs" /\ watch.row \in watch.todo /\ watch.head \in 1 .. hashes
      /\ watch.todo \in SUBSET Identities /\ watch.row \in Identities
      /\ \A j \in watch.todo : deposits[j].status \in Live
      /\ Gone(deposits[watch.row].hash)
  BY DEF WatchLogs, CreditInv, Shaped, WatchShaped, NoWatch, WatchHolds
<1>2. \A l \in found : l \in Logs /\ Genuine(l) /\ ~Gone(l.hash) /\ l.id = watch.row
  BY Reading DEF CreditInv, Shaped
<1>3. watch' = [phase |-> "commit", head |-> watch.head, todo |-> watch.todo,
                row |-> watch.row, found |-> found]
  BY DEF WatchLogs
<1>4. Logs' = Logs
  BY <1>0 DEF Logs
<1> HIDE DEF found
<1>5. WatchShaped'
  BY <1>0, <1>1, <1>2, <1>3, <1>4 DEF WatchShaped
<1>6. \A l \in found : /\ Confirmed(watch.row, l.hash) \in outbox => ConfirmedIn(watch.row, l.hash)
                       /\ ~ReorgTold(watch.row, l.hash)
  BY <1>1, <1>2, Untold
<1>7. WatchHolds'
  BY <1>0, <1>1, <1>3, <1>6 DEF WatchHolds, Gone, ConfirmedIn, Confirmed, Reorged, ReorgTold
<1> QED BY <1>0, <1>2, <1>3, <1>5, <1>7, WatchReadStep

\* What a commit of the watcher has to show: it writes the row it has read, r is
\* the new row, and the events it adds tell of it.
LEMMA CommitStep ==
  ASSUME CreditInv, NEW i \in Identities, watch.phase = "commit", i = watch.row,
         UNCHANGED <<chainVars, scanState, scan, faults>>,
         watch' = NextRow(watch.head, watch.todo \ {watch.row}),
         NEW r \in [status : Statuses, number : Nat, hash : 1 .. hashes],
         deposits' = [deposits EXCEPT ![i] = r],
         Genuine([id |-> i, number |-> r.number, hash |-> r.hash]),
         OutboxShaped', ToldOnce', CreditsMatchRows'
  PROVE  CreditInv'
<1>0. /\ UNCHANGED <<chain, hashes, mempool, sent, reorgs, torn>>
      /\ faults' = faults /\ scan' = scan /\ scanState' = scanState
  BY DEF chainVars
<1>1. ChainShaped' /\ ChainHolds'
  BY <1>0 DEF CreditInv, Shaped, ChainShaped, ChainHolds, Blocks
<1>2. ScanShaped'
  BY <1>0 DEF CreditInv, Shaped, ScanShaped, Logs
<1>3. /\ watch.head \in 1 .. hashes /\ watch.todo \in SUBSET Identities
      /\ \A j \in watch.todo : deposits[j].status \in Live
  BY DEF CreditInv, Shaped, WatchShaped, NoWatch, WatchHolds
<1>4. /\ watch' \in {NoWatch} \cup
             [phase : {"receipt"}, head : 1 .. hashes, todo : SUBSET Identities]
      /\ watch' # NoWatch => watch'.todo = watch.todo \ {i}
  <2>1. watch.todo \ {watch.row} \in SUBSET Identities
    BY <1>3
  <2> QED BY <1>3, <2>1, NextRowShaped
<1>5. watch'.phase \in {"idle", "receipt"} /\ (watch'.phase = "receipt" => watch' # NoWatch)
  BY <1>4 DEF NoWatch
<1>6. WatchShaped'
  BY <1>0, <1>4 DEF WatchShaped
<1>7. /\ deposits'[i] = r
      /\ \A j \in Identities : j # i => deposits'[j] = deposits[j]
      /\ DOMAIN deposits' = Identities
  BY DEF CreditInv, Shaped, RowsShaped
<1>8. WatchHolds'
  BY <1>3, <1>4, <1>5, <1>7 DEF WatchHolds
<1>9. RowsShaped'
  <2>1. hashes \in Nat
    BY ChainIndices DEF CreditInv, Shaped
  <2>2. r \in [status : Statuses, number : Nat, hash : 0 .. hashes] /\ r.hash # NoHash
    BY <2>1 DEF NoHash
  <2> QED BY <1>0, <1>7, <2>2 DEF CreditInv, Shaped, RowsShaped
<1>10. ReadingsGenuine'
  <2>1. \A l : Genuine(l)' <=> Genuine(l)
    BY <1>0 DEF Genuine
  <2>2. ASSUME NEW j \in Identities, deposits'[j].status # "ABSENT"
        PROVE  Genuine(RowLog(j))'
    <3>1. PICK l : l = RowLog(j)'
      OBVIOUS
    <3>2. Genuine(l)
      <4>1. CASE j = i
        <5>1. l = [id |-> i, number |-> r.number, hash |-> r.hash]
          BY <1>7, <3>1, <4>1 DEF RowLog
        <5> QED BY <5>1
      <4>2. CASE j # i
        <5>1. l = RowLog(j) /\ deposits[j].status # "ABSENT"
          BY <1>7, <2>2, <3>1, <4>2 DEF RowLog
        <5> QED BY <5>1 DEF CreditInv, ReadingsGenuine
      <4> QED BY <4>1, <4>2
    <3> QED BY <2>1, <3>1, <3>2 DEF Genuine
  <2> QED BY <1>0, <1>5, <2>1, <2>2 DEF ReadingsGenuine, CreditInv
<1> QED BY <1>1, <1>2, <1>6, <1>8, <1>9, <1>10 DEF CreditInv, Shaped

\* The row of a commit, and what the pass knows of it.
LEMMA CommittedRow ==
  ASSUME CreditInv, WatchCommit
  PROVE  /\ watch.phase = "commit" /\ watch.row \in Identities
         /\ watch.found \in SUBSET Logs
         /\ deposits[watch.row] \in [status : Live, number : Nat, hash : 1 .. hashes]
         /\ Genuine(RowLog(watch.row))
<1>1. /\ watch.phase = "commit" /\ watch.row \in Identities
      /\ watch.found \in SUBSET Logs
      /\ deposits[watch.row].status \in Live
  BY DEF WatchCommit, CreditInv, Shaped, WatchShaped, NoWatch, WatchHolds
<1>2. hashes \in Nat
  BY ChainIndices DEF CreditInv, Shaped
<1>3. deposits[watch.row] \in [status : Live, number : Nat, hash : 1 .. hashes]
  BY <1>1, <1>2 DEF CreditInv, Shaped, RowsShaped, Live, NoHash
<1>4. Genuine(RowLog(watch.row))
  BY <1>1 DEF CreditInv, ReadingsGenuine, Live
<1> QED BY <1>1, <1>3, <1>4

LEMMA MarkReorgedStep ==
  ASSUME CreditInv, WatchCommit, watch.found = {}
  PROVE  CreditInv'
<1>0. PICK i \in Identities : i = watch.row
  BY CommittedRow
<1> DEFINE h0 == deposits[i].hash
           w == deposits[i].status = "CONFIRMED"
           r == [status |-> "REORGED", number |-> deposits[i].number, hash |-> h0]
<1>1. /\ watch.phase = "commit" /\ deposits[i].status \in Live
      /\ deposits[i] \in [status : Live, number : Nat, hash : 1 .. hashes]
      /\ Genuine(RowLog(i)) /\ Gone(h0)
  BY <1>0, CommittedRow DEF CreditInv, WatchHolds
<1>2. /\ UNCHANGED <<chainVars, scanState, scan, faults>>
      /\ watch' = NextRow(watch.head, watch.todo \ {watch.row})
      /\ chain' = chain /\ hashes' = hashes
  BY DEF WatchCommit, chainVars
<1>3. /\ deposits' = [deposits EXCEPT ![i].status = "REORGED"]
      /\ outbox' \in {outbox, outbox \cup {Reorged(i, h0, w)}}
      /\ w => outbox' = outbox \cup {Reorged(i, h0, w)}
  <2>1. /\ deposits' = [deposits EXCEPT ![i].status = "REORGED"]
        /\ outbox' = IF ReorgTold(i, h0) THEN outbox ELSE outbox \cup {Reorged(i, h0, w)}
    BY <1>0 DEF WatchCommit, MarkReorged
  <2>2. w => ~ReorgTold(i, h0)
    BY <1>1 DEF CreditInv, ToldOnce, ConfirmedIn
  <2> QED BY <2>1, <2>2
<1>4. r \in [status : Statuses, number : Nat, hash : 1 .. hashes]
  BY <1>1 DEF Statuses
<1>5. deposits' = [deposits EXCEPT ![i] = r]
  <2>1. [deposits[i] EXCEPT !.status = "REORGED"] = r
    BY <1>1
  <2> HIDE DEF r
  <2> QED BY <1>3, <2>1 DEF CreditInv, Shaped, RowsShaped
<1>6. Genuine([id |-> i, number |-> r.number, hash |-> r.hash])
  <2>1. RowLog(i) = [id |-> i, number |-> r.number, hash |-> r.hash]
    BY DEF RowLog
  <2> QED BY <1>1, <2>1
<1>7. /\ deposits'[i].status = "REORGED"
      /\ \A j \in Identities : j # i => deposits'[j] = deposits[j]
  BY <1>5 DEF CreditInv, Shaped, RowsShaped
<1>8. \A j, h : /\ Confirmed(j, h) \in outbox' <=> Confirmed(j, h) \in outbox
                /\ ReorgTold(j, h)' =>
                      ReorgTold(j, h) \/ (j = i /\ h = h0)
  BY <1>3 DEF Confirmed, Reorged, ReorgTold
<1>9. \A h : Gone(h)' <=> Gone(h)
  BY <1>2 DEF Gone
<1>10. ToldOnce'
  <2> SUFFICES ASSUME NEW j \in Identities, NEW h \in 1 .. hashes
               PROVE  /\ Confirmed(j, h) \in outbox' => ConfirmedIn(j, h)' \/ Gone(h)'
                      /\ ReorgTold(j, h)' => ~ConfirmedIn(j, h)' /\ Gone(h)'
    BY <1>2 DEF ToldOnce, Confirmed, Reorged, ReorgTold
  <2>1. /\ Confirmed(j, h) \in outbox => ConfirmedIn(j, h) \/ Gone(h)
        /\ ReorgTold(j, h) => ~ConfirmedIn(j, h) /\ Gone(h)
    BY DEF CreditInv, ToldOnce
  <2>2. CASE j = i
    BY <1>1, <1>7, <1>8, <1>9, <2>1, <2>2 DEF ConfirmedIn
  <2>3. CASE j # i
    BY <1>7, <1>8, <1>9, <2>1, <2>3 DEF ConfirmedIn
  <2> QED BY <2>2, <2>3
<1>11. Reorged(i, h0, w) \in Events
  BY <1>1 DEF Reorged, Events
<1>12. \A j \in Identities : Credits(j)' = Credits(j)
  BY <1>3 DEF Credits, Reorged
<1>13. \A j \in Identities : j # i => Reversals(j)' = Reversals(j)
  BY <1>3 DEF Reversals, Reorged
<1>14. CASE w
  <2>1. Reorged(i, h0, w) = Reorged(i, h0, TRUE)
    BY <1>14
  <2>2. Reversals(i)' = Reversals(i) \cup {Reorged(i, h0, TRUE)}
    <3>1. PICK e : e = Reorged(i, h0, TRUE)
      OBVIOUS
    <3>2. e.type = "deposit.reorged" /\ e.id = i /\ e.was_confirmed
      BY <3>1 DEF Reorged
    <3>3. outbox' = outbox \cup {e}
      BY <1>3, <1>14, <2>1, <3>1, Zenon
    <3> QED BY <3>1, <3>2, <3>3, Zenon DEF Reversals
  <2>3. Reorged(i, h0, TRUE) \notin Reversals(i)
    BY <1>1, <1>14 DEF CreditInv, ToldOnce, ConfirmedIn, ReorgTold, Reversals
  <2>4. IsFiniteSet(Reversals(i)) /\ IsFiniteSet(Credits(i))
    BY DEF CreditInv, Shaped, OutboxShaped
  <2>5. IsFiniteSet(Reversals(i)') /\ Cardinality(Reversals(i)') = Cardinality(Reversals(i)) + 1
    BY <2>2, <2>3, <2>4, FS_AddElement
  <2>6. Cardinality(Reversals(i)) \in Nat /\ Cardinality(Credits(i)) \in Nat
    BY <2>4, FS_CardinalityType
  <2>7. OutboxShaped'
    BY <1>2, <1>3, <1>11, <1>12, <1>13, <2>5 DEF CreditInv, Shaped, OutboxShaped, Events
  <2>8. CreditsMatchRows'
    <3>1. NetCredit(i)' = 0
      <4>1. NetCredit(i) = 1
        BY <1>14 DEF CreditInv, CreditsMatchRows
      <4>2. Cardinality(Credits(i)) - Cardinality(Reversals(i)) = 1
        BY <4>1 DEF NetCredit, Credits, Reversals
      <4>3. NetCredit(i)' = Cardinality(Credits(i)') - Cardinality(Reversals(i)')
        BY DEF NetCredit, Credits, Reversals
      <4> QED BY <1>12, <2>5, <2>6, <4>2, <4>3
    <3>2. \A j \in Identities : j # i => NetCredit(j)' = NetCredit(j)
      BY <1>12, <1>13 DEF NetCredit, Credits, Reversals
    <3> QED BY <1>7, <3>1, <3>2 DEF CreditInv, CreditsMatchRows
  <2> HIDE DEF r
  <2> QED BY <1>0, <1>1, <1>2, <1>4, <1>5, <1>6, <1>10, <2>7, <2>8, CommitStep
<1>15. CASE ~w
  <2>1. Reorged(i, h0, w) = Reorged(i, h0, FALSE)
    BY <1>15
  <2>2. Reversals(i)' = Reversals(i)
    BY <1>3, <2>1 DEF Reversals, Reorged
  <2>3. OutboxShaped'
    BY <1>2, <1>3, <1>11, <1>12, <1>13, <2>2 DEF CreditInv, Shaped, OutboxShaped, Events
  <2>4. CreditsMatchRows'
    <3>1. \A j \in Identities : NetCredit(j)' = NetCredit(j)
      BY <1>12, <1>13, <2>2 DEF NetCredit, Credits, Reversals
    <3> QED BY <1>7, <1>15, <3>1 DEF CreditInv, CreditsMatchRows
  <2> HIDE DEF r
  <2> QED BY <1>0, <1>1, <1>2, <1>4, <1>5, <1>6, <1>10, <2>3, <2>4, CommitStep
<1> QED BY <1>14, <1>15

LEMMA RepointStep ==
  ASSUME CreditInv, WatchCommit, NEW l \in watch.found, Repoint(watch.row, l)
  PROVE  CreditInv'
<1>0. PICK i \in Identities : i = watch.row
  BY CommittedRow
<1> DEFINE confirms == deposits[i].status = "DETECTED" /\ watch.head - l.number + 1 >= Required
           st == IF confirms THEN "CONFIRMED" ELSE deposits[i].status
           r == [status |-> st, number |-> l.number, hash |-> l.hash]
<1>1. /\ watch.phase = "commit" /\ deposits[i].status \in Live
      /\ l \in Logs /\ Genuine(l) /\ l.id = i
      /\ l.hash # deposits[i].hash => Gone(deposits[i].hash)
      /\ Confirmed(i, l.hash) \in outbox => ConfirmedIn(i, l.hash)
      /\ ~ReorgTold(i, l.hash)
  BY <1>0, CommittedRow DEF CreditInv, WatchHolds, ReadingsGenuine
<1>2. /\ UNCHANGED <<chainVars, scanState, scan, faults>>
      /\ watch' = NextRow(watch.head, watch.todo \ {watch.row})
      /\ chain' = chain /\ hashes' = hashes
  BY DEF WatchCommit, chainVars
<1>3. /\ deposits' = [deposits EXCEPT ![i] = r]
      /\ outbox' = IF confirms THEN outbox \cup {Confirmed(i, l.hash)} ELSE outbox
  <2>1. deposits' = [deposits EXCEPT ![i] =
                       [status |-> IF confirms THEN "CONFIRMED" ELSE @.status,
                        number |-> l.number, hash |-> l.hash]]
    BY <1>0 DEF Repoint
  <2> QED BY <1>0, <2>1 DEF Repoint
<1>4. st \in Live /\ (st = "CONFIRMED" <=> confirms \/ deposits[i].status = "CONFIRMED")
  BY <1>1 DEF Live
<1>5. r \in [status : Statuses, number : Nat, hash : 1 .. hashes]
  BY <1>1, <1>4 DEF Statuses, Logs, Live
<1>6. Genuine([id |-> i, number |-> r.number, hash |-> r.hash])
  <2>1. l = [id |-> i, number |-> r.number, hash |-> r.hash]
    BY <1>1 DEF Logs
  <2> QED BY <1>1, <2>1
<1>7. /\ deposits'[i].status = st /\ deposits'[i].hash = l.hash
      /\ \A j \in Identities : j # i => deposits'[j] = deposits[j]
  BY <1>3 DEF CreditInv, Shaped, RowsShaped
<1>8. \A h : Gone(h)' <=> Gone(h)
  BY <1>2 DEF Gone
<1>9. confirms => deposits[i].status = "DETECTED"
  OBVIOUS
<1> HIDE DEF confirms, st, r
<1>10. \A j, h : /\ Confirmed(j, h) \in outbox' =>
                      Confirmed(j, h) \in outbox \/ (confirms /\ j = i /\ h = l.hash)
                 /\ ReorgTold(j, h)' <=> ReorgTold(j, h)
  BY <1>3 DEF Confirmed, Reorged, ReorgTold
<1>11. ToldOnce'
  <2> SUFFICES ASSUME NEW j \in Identities, NEW h \in 1 .. hashes
               PROVE  /\ Confirmed(j, h) \in outbox' => ConfirmedIn(j, h)' \/ Gone(h)'
                      /\ ReorgTold(j, h)' => ~ConfirmedIn(j, h)' /\ Gone(h)'
    BY <1>2 DEF ToldOnce, Confirmed, Reorged, ReorgTold
  <2>1. /\ Confirmed(j, h) \in outbox => ConfirmedIn(j, h) \/ Gone(h)
        /\ ReorgTold(j, h) => ~ConfirmedIn(j, h) /\ Gone(h)
    BY DEF CreditInv, ToldOnce
  <2>2. CASE j = i
    <3>1. Confirmed(j, h) \in outbox' => ConfirmedIn(j, h)' \/ Gone(h)'
      BY <1>1, <1>4, <1>7, <1>8, <1>9, <1>10, <2>1, <2>2 DEF ConfirmedIn
    <3>2. ReorgTold(j, h)' => ~ConfirmedIn(j, h)' /\ Gone(h)'
      BY <1>1, <1>7, <1>8, <1>10, <2>1, <2>2 DEF ConfirmedIn
    <3> QED BY <3>1, <3>2
  <2>3. CASE j # i
    BY <1>7, <1>8, <1>10, <2>1, <2>3 DEF ConfirmedIn
  <2> QED BY <2>2, <2>3
<1>12. Confirmed(i, l.hash) \in Events
  BY <1>1 DEF Confirmed, Events, Logs
<1>13. CASE confirms
  <2>1. PICK e : e = Confirmed(i, l.hash)
    OBVIOUS
  <2>2. e.type = "deposit.confirmed" /\ e.id = i
    BY <2>1 DEF Confirmed
  <2>3. outbox' = outbox \cup {e}
    BY <1>3, <1>13, <2>1, Zenon
  <2>4. Credits(i)' = Credits(i) \cup {e}
    BY <2>2, <2>3, Zenon DEF Credits
  <2>5. e \notin Credits(i)
    BY <1>1, <1>9, <1>13, <2>1 DEF Credits, ConfirmedIn
  <2>6. /\ \A j \in Identities : Reversals(j)' = Reversals(j)
        /\ \A j \in Identities : j # i => Credits(j)' = Credits(j)
    BY <2>2, <2>3 DEF Credits, Reversals
  <2>7. IsFiniteSet(Reversals(i)) /\ IsFiniteSet(Credits(i))
    BY DEF CreditInv, Shaped, OutboxShaped
  <2>8. IsFiniteSet(Credits(i)') /\ Cardinality(Credits(i)') = Cardinality(Credits(i)) + 1
    BY <2>4, <2>5, <2>7, FS_AddElement
  <2>9. Cardinality(Reversals(i)) \in Nat /\ Cardinality(Credits(i)) \in Nat
    BY <2>7, FS_CardinalityType
  <2>10. OutboxShaped'
    BY <1>2, <1>12, <2>1, <2>3, <2>6, <2>8 DEF CreditInv, Shaped, OutboxShaped, Events
  <2>11. CreditsMatchRows'
    <3>1. NetCredit(i)' = 1
      <4>1. NetCredit(i) = 0
        BY <1>9, <1>13 DEF CreditInv, CreditsMatchRows
      <4>2. Cardinality(Credits(i)) - Cardinality(Reversals(i)) = 0
        BY <4>1 DEF NetCredit, Credits, Reversals
      <4>3. NetCredit(i)' = Cardinality(Credits(i)') - Cardinality(Reversals(i)')
        BY DEF NetCredit, Credits, Reversals
      <4> QED BY <2>6, <2>8, <2>9, <4>2, <4>3
    <3>2. \A j \in Identities : j # i => NetCredit(j)' = NetCredit(j)
      BY <2>6 DEF NetCredit, Credits, Reversals
    <3> QED BY <1>4, <1>7, <1>13, <3>1, <3>2 DEF CreditInv, CreditsMatchRows
  <2> QED BY <1>0, <1>1, <1>2, <1>3, <1>5, <1>6, <1>11, <2>10, <2>11, CommitStep
<1>14. CASE ~confirms
  <2>1. outbox' = outbox
    BY <1>3, <1>14
  <2>2. OutboxShaped'
    BY <1>2, <2>1 DEF CreditInv, Shaped, OutboxShaped, Events, Credits, Reversals
  <2>3. CreditsMatchRows'
    <3>1. \A j \in Identities : NetCredit(j)' = NetCredit(j)
      BY <2>1 DEF NetCredit
    <3> QED BY <1>4, <1>7, <1>14, <3>1 DEF CreditInv, CreditsMatchRows
  <2> QED BY <1>0, <1>1, <1>2, <1>3, <1>5, <1>6, <1>11, <2>2, <2>3, CommitStep
<1> QED BY <1>13, <1>14

LEMMA PassFailsStep ==
  ASSUME CreditInv, PassFails
  PROVE  CreditInv'
<1>0. /\ UNCHANGED <<chain, hashes, mempool, sent, reorgs, torn>> /\ UNCHANGED dbVars
      /\ faults' \in 0 .. MaxFaults
      /\ scan' = scan \/ scan' = NoScan
      /\ watch' = watch \/ watch' = NoWatch
  BY BoundsAssumption DEF PassFails, chainVars, dbVars, CreditInv, Shaped, ChainShaped
<1>1. ScanShaped' /\ WatchShaped'
  BY <1>0 DEF CreditInv, Shaped, ScanShaped, WatchShaped, Logs
<1>2. WatchHolds'
  <2>1. CASE watch' = watch
    BY <1>0, <2>1, Zenon
       DEF CreditInv, WatchHolds, Gone, ConfirmedIn, Confirmed, Reorged, ReorgTold, dbVars
  <2>2. CASE watch' = NoWatch
    <3>1. watch'.phase = "idle"
      BY <2>2 DEF NoWatch
    <3> QED BY <3>1 DEF WatchHolds
  <2> QED BY <1>0, <2>1, <2>2
<1>3. ReadingsGenuine'
  <2>1. \A l : Genuine(l)' <=> Genuine(l)
    BY <1>0 DEF Genuine
  <2>2. \A i \in Identities : deposits'[i].status # "ABSENT" => Genuine(RowLog(i))'
    BY <1>0 DEF CreditInv, ReadingsGenuine, Genuine, RowLog, dbVars
  <2> QED BY <1>0, <2>1, <2>2 DEF ReadingsGenuine, CreditInv, NoScan, NoWatch
<1> QED BY <1>0, <1>1, <1>2, <1>3, ReadStep

LEMMA InitCredit == Init => CreditInv
<1> SUFFICES ASSUME Init PROVE CreditInv
  OBVIOUS
<1>1. ChainShaped
  <2>1. hashes = 1 /\ chain = <<Genesis>>
    BY DEF Init
  <2>2. Genesis \in Blocks
    BY <2>1, BoundsAssumption DEF Blocks, Genesis
  <2>3. chain \in Seq(Blocks) /\ Len(chain) = 1
    BY <2>1, <2>2
  <2>4. /\ sent = {} /\ mempool = {} /\ faults = 0 /\ reorgs = 0 /\ torn = FALSE
    BY DEF Init
  <2>5. Len(chain) \in 1 .. hashes /\ hashes \in 1 .. MaxHash
    BY <2>1, <2>3, BoundsAssumption
  <2>6. faults \in 0 .. MaxFaults /\ reorgs \in 0 .. MaxReorgs
    BY <2>4, BoundsAssumption
  <2> QED BY <2>3, <2>4, <2>5, <2>6 DEF ChainShaped
<1>2. ScanShaped /\ WatchShaped
  BY DEF Init, ScanShaped, WatchShaped
<1>3. RowsShaped
  BY DEF Init, RowsShaped, NoDeposit, NoHash, Statuses
<1>4. OutboxShaped
  <2>1. \A i : Credits(i) = {} /\ Reversals(i) = {}
    BY DEF Init, Credits, Reversals
  <2> QED BY <2>1, FS_EmptySet DEF Init, OutboxShaped
<1>5. ChainHolds
  BY DEF Init, ChainHolds, Genesis
<1>6. ReadingsGenuine
  BY DEF Init, ReadingsGenuine, NoDeposit, NoScan, NoWatch
<1>7. ToldOnce
  BY DEF Init, ToldOnce, ReorgTold
<1>8. WatchHolds
  BY DEF Init, WatchHolds, NoWatch
<1>9. CreditsMatchRows
  <2>1. \A i : /\ {e \in outbox : e.type = "deposit.confirmed" /\ e.id = i} = {}
               /\ {e \in outbox : e.type = "deposit.reorged" /\ e.id = i
                                   /\ e.was_confirmed} = {}
    BY DEF Init
  <2>2. \A i : NetCredit(i) = 0
    BY <2>1, FS_EmptySet DEF NetCredit
  <2> QED BY <2>2 DEF Init, CreditsMatchRows, NoDeposit
<1> QED BY <1>1, <1>2, <1>3, <1>4, <1>5, <1>6, <1>7, <1>8, <1>9 DEF CreditInv, Shaped

LEMMA CreditInductive == CreditInv /\ [Next]_vars => CreditInv'
<1> SUFFICES ASSUME CreditInv, [Next]_vars PROVE CreditInv'
  OBVIOUS
<1>1. CASE \E t \in Txs : SimulateDeposit(t)
  BY <1>1, SimulateDepositStep
<1>2. CASE MineBlock
  BY <1>2, MineBlockStep
<1>3. CASE \E d \in 1 .. MaxDepth, drop \in SUBSET Txs : Orphan(d, drop)
  BY <1>3, OrphanStep
<1>4. CASE Scanner
  BY <1>4, ScannerReads, ScanCommitStep DEF Scanner
<1>5. CASE Watcher
  <2>1. CASE WatchCommit
    <3>1. CASE watch.found = {}
      BY <2>1, <3>1, MarkReorgedStep
    <3>2. CASE watch.found # {}
      <4>1. PICK l \in watch.found : Repoint(watch.row, l)
        BY <2>1, <3>2 DEF WatchCommit
      <4> QED BY <2>1, <4>1, RepointStep
    <3> QED BY <3>1, <3>2
  <2> QED BY <1>5, <2>1, WatchBegins, WatchLogsStep, WatchReceiptStep DEF Watcher
<1>6. CASE PassFails
  BY <1>6, PassFailsStep
<1>7. CASE UNCHANGED vars
  <2>1. /\ UNCHANGED <<chainVars, scanState, deposits, outbox, scan, faults>>
        /\ UNCHANGED <<chain, hashes>> /\ UNCHANGED dbVars /\ UNCHANGED watch
    BY <1>7 DEF vars, chainVars, dbVars
  <2>2. WatchShaped' /\ WatchHolds'
    BY <2>1, WatchUntouched
  <2> QED BY <2>1, <2>2, WatchReadStep DEF CreditInv, ReadingsGenuine
<1> QED BY <1>1, <1>2, <1>3, <1>4, <1>5, <1>6, <1>7 DEF Next

-----------------------------------------------------------------------------
(* Depth.                                                                  *)

\* Deepest keeps what a block has reached and adds what it has now.
LEMMA DeepestIs ==
  ASSUME DepthShaped, NEW c, NEW h \in 1 .. MaxHash, Len(c) \in Nat,
         \A n \in DOMAIN c : n \in Nat,
         \A m, n \in DOMAIN c : c[m].hash = c[n].hash => m = n
  PROVE  /\ Deepest(c)[h] \in Int /\ Deepest(c)[h] >= depth[h]
         /\ \A n \in DOMAIN c : c[n].hash = h => Deepest(c)[h] >= Len(c) - n + 1
<1> DEFINE S == {depth[h]} \cup {Len(c) - n + 1 : n \in {m \in DOMAIN c : c[m].hash = h}}
<1>1. Deepest(c)[h] = Max(S)
  BY DEF Deepest
<1>2. depth[h] \in Int
  BY DEF DepthShaped
<1>3. CASE \E n \in DOMAIN c : c[n].hash = h
  <2>1. PICK n \in DOMAIN c : c[n].hash = h
    BY <1>3
  <2>2. {m \in DOMAIN c : c[m].hash = h} = {n}
    BY <2>1
  <2>3. S = {depth[h], Len(c) - n + 1}
    BY <2>2
  <2>4. Len(c) - n + 1 \in Int
    BY <2>1
  <2> HIDE DEF S
  <2>5. Max(S) = IF depth[h] >= Len(c) - n + 1 THEN depth[h] ELSE Len(c) - n + 1
    BY <1>2, <2>3, <2>4, MaxOfTwo
  <2>6. \A m \in DOMAIN c : c[m].hash = h => m = n
    BY <2>1
  <2>7. Deepest(c)[h] \in Int /\ Deepest(c)[h] >= depth[h] /\ Deepest(c)[h] >= Len(c) - n + 1
    BY <1>1, <1>2, <2>4, <2>5
  <2> QED BY <2>6, <2>7
<1>4. CASE ~\E n \in DOMAIN c : c[n].hash = h
  <2>1. {m \in DOMAIN c : c[m].hash = h} = {}
    BY <1>4
  <2>2. S = {depth[h], depth[h]}
    BY <2>1
  <2> HIDE DEF S
  <2>3. Max(S) = depth[h]
    BY <1>2, <2>2, MaxOfTwo
  <2> QED BY <1>1, <1>2, <1>4, <2>3
<1> QED BY <1>3, <1>4

LEMMA MineBlockDepth ==
  ASSUME CreditInv, DepthInv, MineBlock
  PROVE  DepthInv'
<1>1. CreditInv'
  BY MineBlockStep
<1>2. PICK block \in Blocks' : chain' = Append(chain, block)
  BY MinedBlock
<1>3. /\ Len(chain') = Len(chain) + 1 /\ Len(chain) \in Nat
      /\ \A n \in DOMAIN chain : chain'[n] = chain[n]
      /\ DOMAIN chain \subseteq DOMAIN chain'
  BY <1>2, Appended, ChainIndices DEF CreditInv, Shaped
<1>4. /\ \A n \in DOMAIN chain' : n \in Nat /\ chain'[n].hash \in 1 .. MaxHash
      /\ \A m, n \in DOMAIN chain' : chain'[m].hash = chain'[n].hash => m = n
  <2>1. /\ chain' \in Seq(Blocks') /\ hashes' \in 1 .. MaxHash
        /\ \A m, n \in DOMAIN chain' : chain'[m].hash = chain'[n].hash => m = n
    BY <1>1 DEF CreditInv, Shaped, ChainShaped, ChainHolds
  <2>2. \A n \in DOMAIN chain' : n \in Nat /\ chain'[n] \in Blocks'
    BY <2>1
  <2>3. \A n \in DOMAIN chain' : chain'[n].hash \in 1 .. hashes'
    BY <2>2 DEF Blocks
  <2> QED BY <2>1, <2>2, <2>3, BoundsAssumption
<1>5. depth' = Deepest(chain')
  BY DEF MineBlock
<1>6. PICK c : c = chain'
  OBVIOUS
<1>7. \A h \in 1 .. MaxHash :
         /\ Deepest(c)[h] \in Int /\ Deepest(c)[h] >= depth[h]
         /\ \A n \in DOMAIN c : c[n].hash = h => Deepest(c)[h] >= Len(c) - n + 1
  <2>1. Len(c) \in Nat
    BY <1>3, <1>6
  <2> QED BY <1>4, <1>6, <2>1, DeepestIs DEF DepthInv
<1>8. DOMAIN depth' = 1 .. MaxHash /\ depth' = [h \in 1 .. MaxHash |-> depth'[h]]
  BY <1>5 DEF Deepest
<1>9. \A h \in 1 .. MaxHash :
         /\ depth'[h] \in Int /\ depth'[h] >= depth[h]
         /\ \A n \in DOMAIN chain' : chain'[n].hash = h => depth'[h] >= Len(chain') - n + 1
  BY <1>5, <1>6, <1>7
<1>10. DepthShaped'
  BY <1>8, <1>9 DEF DepthShaped
<1>11. UNCHANGED <<watch, outbox>> /\ (~torn' => ~torn)
  BY DEF MineBlock
<1>12. DepthHolds'
  <2>1. \A n \in DOMAIN chain' : depth'[chain'[n].hash] >= Len(chain') - n + 1
    BY <1>4, <1>9
  <2>2. ~torn' /\ watch' # NoWatch => watch'.head <= Len(chain')
    <3>1. watch # NoWatch => watch.head \in Int
      BY DEF CreditInv, Shaped, WatchShaped
    <3> QED BY <1>3, <1>11, <3>1 DEF DepthInv, DepthHolds
  <2>3. ~torn' /\ watch'.phase = "commit" =>
          \A l \in watch'.found : \E n \in DOMAIN chain' : chain'[n].hash = l.hash
    BY <1>3, <1>11 DEF DepthInv, DepthHolds
  <2> QED BY <2>1, <2>2, <2>3 DEF DepthHolds
<1>13. CalmCreditsAreDeep'
  <2> SUFFICES ASSUME NEW e \in outbox', e.type = "deposit.confirmed", ~torn'
               PROVE  depth'[e.hash] >= Required
    BY DEF CalmCreditsAreDeep, CreditedAtDepth
  <2>1. e \in outbox /\ depth[e.hash] >= Required
    BY <1>11 DEF DepthInv, CalmCreditsAreDeep, CreditedAtDepth
  <2>2. e.hash \in 1 .. MaxHash
    <3>1. e \in Events
      BY <2>1 DEF CreditInv, Shaped, OutboxShaped
    <3>2. e.hash \in 1 .. hashes
      BY <3>1 DEF Events
    <3> QED BY <3>2, BoundsAssumption DEF CreditInv, Shaped, ChainShaped
  <2>3. depth[e.hash] \in Int /\ depth'[e.hash] \in Int /\ depth'[e.hash] >= depth[e.hash]
    BY <1>9, <2>2 DEF DepthInv, DepthShaped
  <2> QED BY <2>1, <2>3, DepthsAssumption
<1> QED BY <1>10, <1>12, <1>13 DEF DepthInv

LEMMA OrphanDepth ==
  ASSUME CreditInv, DepthInv, NEW d \in 1 .. MaxDepth, NEW drop, Orphan(d, drop)
  PROVE  DepthInv'
<1>1. PICK keep \in 1 .. Len(chain) - 1 :
            /\ Len(chain') = keep
            /\ DOMAIN chain' = 1 .. keep
            /\ \A n \in 1 .. keep : n \in DOMAIN chain /\ chain'[n] = chain[n]
  BY Kept DEF CreditInv, Shaped
<1>2. UNCHANGED <<watch, outbox, depth>> /\ torn' = (torn \/ scan # NoScan \/ watch # NoWatch)
  BY DEF Orphan
<1>3. DepthHolds'
  <2>1. ASSUME NEW n \in DOMAIN chain', chain'[n].txs # {}
        PROVE  depth'[chain'[n].hash] >= Len(chain') - n + 1
    <3>1. n \in DOMAIN chain /\ chain'[n] = chain[n] /\ n \in Nat
      BY <1>1, <2>1
    <3>2. depth[chain[n].hash] >= Len(chain) - n + 1
      BY <2>1, <3>1 DEF DepthInv, DepthHolds
    <3>3. chain[n].hash \in 1 .. MaxHash
      BY <3>1, ChainIndices, BoundsAssumption DEF CreditInv, Shaped, ChainShaped, Blocks
    <3>4. depth[chain[n].hash] \in Int /\ Len(chain) \in Nat
      BY <3>3, ChainIndices DEF DepthInv, DepthShaped, CreditInv, Shaped
    <3>5. depth'[chain'[n].hash] = depth[chain[n].hash]
      BY <1>2, <3>1
    <3>6. Len(chain') \in Int /\ Len(chain') <= Len(chain)
      BY <1>1, <3>4
    <3>7. PICK x \in Int : x = depth[chain[n].hash]
      BY <3>4
    <3>8. PICK y \in Int : y = Len(chain')
      BY <3>6
    <3>9. x >= Len(chain) - n + 1 /\ y <= Len(chain)
      BY <3>2, <3>6, <3>7, <3>8
    <3>10. x >= y - n + 1
      BY <3>1, <3>4, <3>9
    <3> QED BY <3>5, <3>7, <3>8, <3>10
  <2>2. ~torn' => watch' = NoWatch
    BY <1>2
  <2> QED BY <2>1, <2>2 DEF DepthHolds, NoWatch
<1> QED BY <1>2, <1>3 DEF DepthInv, DepthShaped, CalmCreditsAreDeep, CreditedAtDepth

\* The other steps leave the chain, its depths and torn alone. They keep what is
\* known of the depths if an untorn pass of the watcher does, and if what they
\* confirm is deep enough.
LEMMA OtherDepth ==
  ASSUME DepthInv, UNCHANGED <<chain, torn, depth>>,
         ~torn /\ watch' # NoWatch => watch'.head <= Len(chain),
         ~torn /\ watch'.phase = "commit" =>
            \A l \in watch'.found : \E n \in DOMAIN chain : chain[n].hash = l.hash,
         \A e \in outbox' : e.type = "deposit.confirmed" /\ ~torn =>
            e \in outbox \/ depth[e.hash] >= Required
  PROVE  DepthInv'
<1>1. DepthShaped' /\ DepthHolds'
  BY DEF DepthInv, DepthShaped, DepthHolds
<1>2. CalmCreditsAreDeep'
  BY DEF DepthInv, CalmCreditsAreDeep, CreditedAtDepth
<1> QED BY <1>1, <1>2 DEF DepthInv

LEMMA ScannerDepth ==
  ASSUME CreditInv, DepthInv, Scanner
  PROVE  DepthInv'
<1>1. UNCHANGED <<chain, torn, depth, watch>>
  BY DEF Scanner, ScanHead, ScanCheck, ScanLogs, ScanTip, ScanCommit, chainVars
<1>2. \A e \in outbox' : e.type = "deposit.confirmed" => e \in outbox
  <2>1. outbox' = outbox \/ \E S : outbox' = outbox \cup {Detected(l.id, l.hash) : l \in S}
    BY DEF Scanner, ScanHead, ScanCheck, ScanLogs, ScanTip, ScanCommit
  <2> QED BY <2>1 DEF Detected
<1> QED BY <1>1, <1>2, OtherDepth DEF DepthInv, DepthHolds

\* A confirmation of an untorn pass counts blocks that are on the chain now.
LEMMA WatchCommitDepth ==
  ASSUME CreditInv, DepthInv, WatchCommit
  PROVE  DepthInv'
<1>1. /\ UNCHANGED <<chain, torn, depth>>
      /\ watch' = NextRow(watch.head, watch.todo \ {watch.row})
  BY DEF WatchCommit, chainVars
<1>2. watch.phase = "commit" /\ watch # NoWatch /\ watch.found \in SUBSET Logs
  BY CommittedRow DEF NoWatch
<1>3. ~torn => watch.head <= Len(chain)
  BY <1>2 DEF DepthInv, DepthHolds
<1>4. watch'.phase # "commit" /\ (watch' # NoWatch => watch'.head = watch.head)
  BY <1>1 DEF NextRow, NoWatch
<1>5. ASSUME NEW e \in outbox', e.type = "deposit.confirmed", ~torn
      PROVE  e \in outbox \/ depth[e.hash] >= Required
  <2>1. CASE watch.found = {}
    BY <2>1, <1>5 DEF WatchCommit, MarkReorged, Reorged
  <2>2. CASE watch.found # {}
    <3>1. PICK l \in watch.found : Repoint(watch.row, l)
      BY <2>2 DEF WatchCommit
    <3>2. CASE e \notin outbox
      <4>1. watch.head - l.number + 1 >= Required /\ e = Confirmed(watch.row, l.hash)
        BY <1>5, <3>1, <3>2 DEF Repoint
      <4>2. PICK n \in DOMAIN chain : chain[n].hash = l.hash
        BY <1>2, <1>5, <3>1 DEF DepthInv, DepthHolds
      <4>3. Genuine(l)
        BY <1>2, <3>1 DEF CreditInv, ReadingsGenuine
      <4>4. n = l.number /\ chain[n].txs # {}
        BY <4>2, <4>3 DEF Genuine
      <4>5. depth[chain[n].hash] >= Len(chain) - n + 1
        BY <4>2, <4>4 DEF DepthInv, DepthHolds
      <4>6. n \in Nat /\ Len(chain) \in Nat /\ chain[n].hash \in 1 .. hashes
        BY <4>2, ChainIndices DEF CreditInv, Shaped, Blocks
      <4>7. depth[chain[n].hash] \in Int
        BY <4>6, BoundsAssumption DEF CreditInv, Shaped, ChainShaped, DepthInv, DepthShaped
      <4>8. watch.head \in Int
        BY <1>2 DEF CreditInv, Shaped, WatchShaped
      <4>9. depth[l.hash] >= Required
        BY <1>3, <1>5, <4>1, <4>2, <4>4, <4>5, <4>6, <4>7, <4>8, DepthsAssumption
      <4>10. e.hash = l.hash
        BY <4>1 DEF Confirmed
      <4> QED BY <4>9, <4>10
    <3> QED BY <3>2
  <2> QED BY <2>1, <2>2
<1> QED BY <1>1, <1>3, <1>4, <1>5, OtherDepth

LEMMA WatcherDepth ==
  ASSUME CreditInv, DepthInv, Watcher
  PROVE  DepthInv'
<1>1. CASE WatchHead
  <2>1. UNCHANGED <<chain, torn, depth, outbox>> /\ watch' = [phase |-> "list", head |-> Len(chain)]
    BY <1>1 DEF WatchHead, chainVars
  <2>2. Len(chain) \in Nat
    BY ChainIndices DEF CreditInv, Shaped
  <2>3. watch'.head <= Len(chain) /\ watch'.phase = "list"
    BY <2>1, <2>2
  <2> QED BY <2>1, <2>3, OtherDepth
<1>2. CASE WatchList
  <2>1. /\ UNCHANGED <<chain, torn, depth, outbox>>
        /\ watch' = NextRow(watch.head, Watchlist(watch.head)) /\ watch.phase = "list"
    BY <1>2 DEF WatchList, chainVars
  <2>2. watch'.phase # "commit" /\ (watch' # NoWatch => watch'.head = watch.head)
    BY <2>1 DEF NextRow, NoWatch
  <2>3. ~torn => watch.head <= Len(chain)
    BY <2>1 DEF DepthInv, DepthHolds, NoWatch
  <2> QED BY <2>1, <2>2, <2>3, OtherDepth
<1>3. ASSUME NEW i \in Identities, WatchReceipt(i)
      PROVE  DepthInv'
  <2>1. /\ UNCHANGED <<chain, torn, depth, outbox>> /\ watch.phase = "receipt"
        /\ watch'.head = watch.head
        /\ watch'.phase = "commit" => watch'.found = Receipts(i[1])
    BY <1>3 DEF WatchReceipt, chainVars
  <2>2. ~torn => watch.head <= Len(chain)
    BY <2>1 DEF DepthInv, DepthHolds, NoWatch
  <2>3. \A l \in Receipts(i[1]) : \E n \in DOMAIN chain : chain[n].hash = l.hash
    BY Reading DEF Receipts, CreditInv, Shaped
  <2> QED BY <2>1, <2>2, <2>3, OtherDepth
<1>4. CASE WatchLogs
  <2>1. /\ UNCHANGED <<chain, torn, depth, outbox>> /\ watch.phase = "logs"
        /\ watch'.head = watch.head
        /\ watch'.found \subseteq LogsIn(watch.number, watch.number)
    BY <1>4 DEF WatchLogs, chainVars
  <2>2. ~torn => watch.head <= Len(chain)
    BY <2>1 DEF DepthInv, DepthHolds, NoWatch
  <2>3. \A l \in LogsIn(watch.number, watch.number) :
           \E n \in DOMAIN chain : chain[n].hash = l.hash
    BY Reading DEF CreditInv, Shaped
  <2> QED BY <2>1, <2>2, <2>3, OtherDepth
<1> QED BY <1>1, <1>2, <1>3, <1>4, WatchCommitDepth DEF Watcher

LEMMA InitDepth == Init => DepthInv
<1> SUFFICES ASSUME Init PROVE DepthInv
  OBVIOUS
<1>1. DepthShaped /\ CalmCreditsAreDeep
  BY DEF Init, DepthShaped, CalmCreditsAreDeep, CreditedAtDepth
<1>2. DepthHolds
  BY DEF Init, DepthHolds, Genesis, NoWatch
<1> QED BY <1>1, <1>2 DEF DepthInv

LEMMA DepthInductive == CreditInv /\ DepthInv /\ [Next]_vars => DepthInv'
<1> SUFFICES ASSUME CreditInv, DepthInv, [Next]_vars PROVE DepthInv'
  OBVIOUS
<1>1. CASE \E t \in Txs : SimulateDeposit(t)
  <2>1. UNCHANGED <<chain, torn, depth, watch, outbox>>
    BY <1>1 DEF SimulateDeposit
  <2> QED BY <2>1, OtherDepth DEF DepthInv, DepthHolds
<1>2. CASE MineBlock
  BY <1>2, MineBlockDepth
<1>3. CASE \E d \in 1 .. MaxDepth, drop \in SUBSET Txs : Orphan(d, drop)
  BY <1>3, OrphanDepth
<1>4. CASE Scanner
  BY <1>4, ScannerDepth
<1>5. CASE Watcher
  BY <1>5, WatcherDepth
<1>6. CASE PassFails
  <2>1. UNCHANGED <<chain, torn, depth, outbox>> /\ (watch' = watch \/ watch' = NoWatch)
    BY <1>6 DEF PassFails, chainVars
  <2> QED BY <2>1, OtherDepth DEF DepthInv, DepthHolds, NoWatch
<1>7. CASE UNCHANGED vars
  <2>1. UNCHANGED <<chain, torn, depth, watch, outbox>>
    BY <1>7 DEF vars
  <2> QED BY <2>1, OtherDepth DEF DepthInv, DepthHolds
<1> QED BY <1>1, <1>2, <1>3, <1>4, <1>5, <1>6, <1>7 DEF Next

-----------------------------------------------------------------------------
(* Theorems.                                                               *)

\* Rows and blocks have the columns of their tables through every scan, check and
\* reorganisation, and mine_block and reorg leave a transaction in one canonical
\* block at most.
THEOREM TypeCorrect == Spec => []TypeOK
<1>1. CreditInv => TypeOK
  <2> SUFFICES ASSUME CreditInv PROVE TypeOK
    OBVIOUS
  <2>1. \A n \in DOMAIN chain : chain[n].hash \in 1 .. hashes /\ chain[n].txs \subseteq sent
    BY ChainIndices DEF CreditInv, Shaped, ChainHolds, Blocks
  <2>2. ASSUME NEW t \in Txs PROVE Cardinality(Receipts(t)) <= 1
    <3>1. CASE Receipts(t) = {}
      BY <3>1, FS_EmptySet
    <3>2. CASE Receipts(t) # {}
      <4>1. PICK l : Receipts(t) = {l}
        BY <3>2, OneReceipt DEF CreditInv, Shaped
      <4> QED BY <4>1, FS_Singleton
    <3> QED BY <3>1, <3>2
  <2>3. scanState.number \in 0 .. MaxHash /\ scanState.hash \in 0 .. hashes
    BY BoundsAssumption DEF CreditInv, Shaped, RowsShaped, ChainShaped
  <2>4. \A i \in Identities :
          /\ deposits[i].status \in Live \cup {"ABSENT", "REORGED"}
          /\ deposits[i].status # "ABSENT" => deposits[i].hash \in 1 .. hashes
    BY ChainIndices DEF CreditInv, Shaped, RowsShaped, Statuses, Live, NoHash
  <2> QED BY <2>1, <2>2, <2>3, <2>4 DEF TypeOK, CreditInv, Shaped, ChainShaped
<1> QED BY <1>1, InitCredit, CreditInductive, PTL DEF Spec

\* What _reverify and _mark_reorged tell wallet-service adds up to one credit for a
\* CONFIRMED row and to none for any other, through any number of
\* reorganisations, revivals and lost passes, torn ones included.
THEOREM CreditsExact == Spec => []CreditsMatchRows
<1>1. CreditInv => CreditsMatchRows
  BY DEF CreditInv
<1> QED BY <1>1, InitCredit, CreditInductive, PTL DEF Spec

\* _reverify credits no deposit above its depth: as long as no reorganisation has
\* torn a pass, the block of every deposit.confirmed has been
\* confirmations_required deep.
THEOREM CreditsAreDeep == Spec => []CalmCreditsAreDeep
<1>1. IInv => CalmCreditsAreDeep
  BY DEF IInv, DepthInv
<1>2. Init => IInv
  BY InitCredit, InitDepth DEF IInv
<1>3. IInv /\ [Next]_vars => IInv'
  BY CreditInductive, DepthInductive DEF IInv
<1> QED BY <1>1, <1>2, <1>3, PTL DEF Spec

=============================================================================
