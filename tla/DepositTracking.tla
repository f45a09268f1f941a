-------------------------- MODULE DepositTracking ---------------------------
(***************************************************************************)
(* blockchain-service's view of inbound deposits: the simulated chain with  *)
(* its mempool and reorganisations, DepositScanner and                      *)
(* DepositConfirmationWatcher. A pass of either reads the chain several     *)
(* times, with an await in between, before its one database transaction;    *)
(* the chain may move between any two of these reads.                       *)
(***************************************************************************)
EXTENDS Integers, Sequences, FiniteSets
LOCAL INSTANCE FiniteSetsExt

CONSTANTS
    Txs,         \* deposits by external parties, in the order of created_at
    Required,    \* confirmations_required
    Finality,    \* finality_depth
    Safety,      \* reorg_safety_blocks
    ScanBatch,   \* scan_batch_blocks
    MaxAhead,    \* bound: logs of other parties' transfers ahead of ours in a block
    MaxHash,     \* bound: blocks ever mined, genesis included
    MaxReorgs,   \* bound: reorganisations
    MaxDepth,    \* bound: depth of a reorganisation
    MaxFaults    \* bound: passes that crash or lose the RPC node

ASSUME TxsAssumption == Txs \subseteq Nat /\ IsFiniteSet(Txs)
ASSUME DepthsAssumption ==
    /\ Required \in Nat \ {0} /\ Finality \in Nat /\ Safety \in Nat
    /\ ScanBatch \in Nat \ {0}
ASSUME BoundsAssumption ==
    /\ MaxHash \in Nat \ {0} /\ MaxAhead \in Nat
    /\ MaxReorgs \in Nat /\ MaxDepth \in Nat /\ MaxFaults \in Nat

NoHash == 0
Genesis == [hash |-> 1, ahead |-> 0, txs |-> {}]

\* uq_deposit_chain_identity: (tx_hash, log_index). The log index is the place
\* of the transaction among the logs of its block, other parties' included: mined
\* again in another block, it may be another one.
Identities == Txs \X (1 .. Cardinality(Txs) + MaxAhead)
NoDeposit == [status |-> "ABSENT", number |-> 0, hash |-> NoHash]
Live == {"DETECTED", "CONFIRMED"}

\* Mutant: the dedupe key of deposit.confirmed lacks the block hash.
ConfirmedOncePerLog(i, h) == [type |-> "deposit.confirmed", id |-> i, hash |-> NoHash]

\* Events by what their event id is made of, and was_confirmed besides.
Confirmed(i, h) == [type |-> "deposit.confirmed", id |-> i, hash |-> h]
Detected(i, h) == [type |-> "deposit.detected", id |-> i, hash |-> h]
Reorged(i, h, w) == [type |-> "deposit.reorged", id |-> i, hash |-> h, was_confirmed |-> w]

VARIABLES
    chain,      \* the canonical blocks by number
    hashes,     \* blocks mined so far: hashes are never used twice
    mempool,    \* pending transactions
    sent,       \* transactions ever submitted
    reorgs,     \* reorganisations so far
    scanState,  \* scan_state
    deposits,   \* deposits
    outbox,     \* events enqueued
    scan,       \* the scanner's pass: its phase and what it has read
    watch,      \* the watcher's pass: its phase and what it has read
    faults,     \* failed passes so far
    torn,       \* history: a pass was under way while blocks were orphaned or one
                \* of their transactions was mined again
    depth       \* history: the largest depth a block hash has had

vars == <<chain, hashes, mempool, sent, reorgs, scanState, deposits, outbox,
          scan, watch, faults, torn, depth>>
chainVars == <<chain, hashes, mempool, sent, reorgs, torn, depth>>

NoScan == [phase |-> "idle"]
NoWatch == [phase |-> "idle"]

Init ==
    /\ chain = <<Genesis>>
    /\ hashes = 1
    /\ mempool = {} /\ sent = {} /\ reorgs = 0
    /\ scanState = [number |-> 0, hash |-> NoHash]
    /\ deposits = [i \in Identities |-> NoDeposit]
    /\ outbox = {}
    /\ scan = NoScan /\ watch = NoWatch
    /\ faults = 0 /\ torn = FALSE
    /\ depth = [h \in 1 .. MaxHash |-> 0]

-----------------------------------------------------------------------------
(* chain/mock.py                                                           *)

\* get_block_hash: NoHash when no canonical block has the number.
HashAt(n) == IF n \in DOMAIN chain THEN chain[n].hash ELSE NoHash

\* mine_block numbers the logs of a block in the order of created_at.
Place(S, t) == Cardinality({u \in S : u <= t})

\* The log of transaction t in the block with number n.
LogOf(block, n, t) ==
    [id |-> <<t, block.ahead + Place(block.txs, t)>>, number |-> n, hash |-> block.hash]

\* get_transfer_logs
LogsIn(from, to) ==
    UNION {{LogOf(chain[n], n, t) : t \in chain[n].txs} : n \in (from .. to) \cap DOMAIN chain}

\* get_receipt: the log of a transaction that is canonical now, if any.
Receipts(t) == {l \in LogsIn(1, Len(chain)) : l.id[1] = t}

\* What every block of the chain has reached.
Deepest(c) ==
    [h \in 1 .. MaxHash |->
        Max({depth[h]} \cup {Len(c) - n + 1 : n \in {m \in DOMAIN c : c[m].hash = h}})]

SimulateDeposit(t) ==
    /\ t \notin sent
    /\ sent' = sent \cup {t}
    /\ mempool' = mempool \cup {t}
    /\ UNCHANGED <<chain, hashes, reorgs, torn, depth, scanState, deposits, outbox,
                   scan, watch, faults>>

\* Transactions the service has seen in a block before.
Known == {i[1] : i \in {j \in Identities : deposits[j].status # "ABSENT"}}

\* Mutant: a mined transaction stays in the mempool.
MineBlockKeepsPending ==
    /\ hashes < MaxHash
    /\ hashes' = hashes + 1
    /\ chain' = Append(chain, [hash |-> hashes + 1, ahead |-> 0, txs |-> mempool])
    /\ depth' = Deepest(chain')
    /\ UNCHANGED <<mempool, sent, reorgs, torn, scanState, deposits, outbox, scan, watch, faults>>

\* mine_block takes the pending transactions, or none under halt_mining.
MineBlock ==
    /\ hashes < MaxHash
    /\ hashes' = hashes + 1
    /\ \E included \in {mempool, {}} :
          /\ \E k \in IF included = {} THEN {0} ELSE 0 .. MaxAhead :
                chain' = Append(chain, [hash |-> hashes + 1, ahead |-> k, txs |-> included])
          /\ mempool' = mempool \ included
          /\ torn' = (torn \/ (watch # NoWatch /\ included \cap Known # {}))
    /\ depth' = Deepest(chain')
    /\ UNCHANGED <<sent, reorgs, scanState, deposits, outbox, scan, watch, faults>>

\* reorg: its first transaction takes the top blocks away. Their transactions
\* go back to the mempool or are dropped; the blocks of the competing fork come
\* from mine_block, each in a transaction of its own.
Orphan(d, drop) ==
    LET keep == Max({1, Len(chain) - d})
        reverted == UNION {chain[n].txs : n \in keep + 1 .. Len(chain)}
    IN /\ reorgs < MaxReorgs
       /\ keep < Len(chain) /\ drop \subseteq reverted
       /\ reorgs' = reorgs + 1
       /\ chain' = SubSeq(chain, 1, keep)
       /\ mempool' = mempool \cup (reverted \ drop)
       /\ torn' = (torn \/ scan # NoScan \/ watch # NoWatch)
       /\ UNCHANGED <<hashes, sent, depth, scanState, deposits, outbox, scan, watch, faults>>

-----------------------------------------------------------------------------
(* DepositScanner.run_once                                                 *)

ScanHead ==
    /\ scan = NoScan
    /\ scan' = [phase |-> "check", head |-> Len(chain)]
    /\ UNCHANGED <<chainVars, scanState, deposits, outbox, watch, faults>>

\* The cursor after the reorg guard.
Rewound ==
    IF scanState.hash # NoHash /\ HashAt(scanState.number) # scanState.hash
    THEN Max({0, scanState.number - Safety})
    ELSE scanState.number

ScanCheck ==
    LET from == Rewound + 1
        to == Min({scan.head, from + ScanBatch - 1})
    IN /\ scan.phase = "check"
       /\ scan' = IF from > to THEN NoScan
                  ELSE [phase |-> "logs", from |-> from, to |-> to]
       /\ UNCHANGED <<chainVars, scanState, deposits, outbox, watch, faults>>

ScanLogs ==
    /\ scan.phase = "logs"
    /\ scan' = [phase |-> "tip", to |-> scan.to, logs |-> LogsIn(scan.from, scan.to)]
    /\ UNCHANGED <<chainVars, scanState, deposits, outbox, watch, faults>>

ScanTip ==
    /\ scan.phase = "tip"
    /\ scan' = [phase |-> "commit", to |-> scan.to, logs |-> scan.logs,
                tip |-> HashAt(scan.to)]
    /\ UNCHANGED <<chainVars, scanState, deposits, outbox, watch, faults>>

\* Mutant: the upsert never revives a deposit.
UpsertedInsertOnly(logs) == {l \in logs : deposits[l.id].status = "ABSENT"}

\* _upsert_deposit: the logs that insert a row or revive a reorged one.
Upserted(logs) == {l \in logs : deposits[l.id].status \notin Live}

ScanCommit ==
    LET new == Upserted(scan.logs) IN
    /\ scan.phase = "commit"
    /\ deposits' = [i \in Identities |->
                      IF \E l \in new : l.id = i
                      THEN LET l == CHOOSE l \in new : l.id = i
                           IN [status |-> "DETECTED", number |-> l.number, hash |-> l.hash]
                      ELSE deposits[i]]
    /\ outbox' = outbox \cup {Detected(l.id, l.hash) : l \in new}
    /\ scanState' = [number |-> scan.to, hash |-> scan.tip]
    /\ scan' = NoScan
    /\ UNCHANGED <<chainVars, watch, faults>>

-----------------------------------------------------------------------------
(* DepositConfirmationWatcher.run_once                                     *)

\* The head, then the rows to check, which only this pass and the scanner's
\* commit change.
WatchHead ==
    /\ watch = NoWatch
    /\ watch' = [phase |-> "list", head |-> Len(chain)]
    /\ UNCHANGED <<chainVars, scanState, deposits, outbox, scan, faults>>

Watchlist(head) ==
    {i \in Identities : deposits[i].status \in Live /\ deposits[i].number > head - Finality}

NextRow(head, todo) ==
    IF todo = {} THEN NoWatch ELSE [phase |-> "receipt", head |-> head, todo |-> todo]

WatchList ==
    /\ watch.phase = "list"
    /\ watch' = NextRow(watch.head, Watchlist(watch.head))
    /\ UNCHANGED <<chainVars, scanState, deposits, outbox, scan, faults>>

\* _reverify reads the row and its receipt; a receipt in another block counts
\* when get_transfer_logs finds the very same log there.
WatchReceipt(i) ==
    LET found == Receipts(i[1]) IN
    /\ watch.phase = "receipt" /\ i \in watch.todo
    /\ watch' =
          IF found # {} /\ \A l \in found : l.hash # deposits[i].hash
          THEN [phase |-> "logs", head |-> watch.head, todo |-> watch.todo, row |-> i,
                number |-> (CHOOSE l \in found : TRUE).number]
          ELSE [phase |-> "commit", head |-> watch.head, todo |-> watch.todo, row |-> i,
                found |-> found]
    /\ UNCHANGED <<chainVars, scanState, deposits, outbox, scan, faults>>

WatchLogs ==
    /\ watch.phase = "logs"
    /\ watch' = [phase |-> "commit", head |-> watch.head, todo |-> watch.todo,
                 row |-> watch.row,
                 found |-> {l \in LogsIn(watch.number, watch.number) : l.id = watch.row}]
    /\ UNCHANGED <<chainVars, scanState, deposits, outbox, scan, faults>>

\* The event id of deposit.reorged is made without was_confirmed: enqueue_event
\* keeps the first one told about a block.
ReorgTold(i, h) == \E w \in BOOLEAN : Reorged(i, h, w) \in outbox

\* _mark_reorged
MarkReorged(i) ==
    LET h == deposits[i].hash IN
    /\ deposits' = [deposits EXCEPT ![i].status = "REORGED"]
    /\ outbox' = IF ReorgTold(i, h) THEN outbox
                 ELSE outbox \cup {Reorged(i, h, deposits[i].status = "CONFIRMED")}

\* Mutant: one confirmation is enough.
RepointEarly(i, l) ==
    LET confirms == deposits[i].status = "DETECTED" /\ watch.head >= l.number
    IN /\ deposits' = [deposits EXCEPT ![i] =
             [status |-> IF confirms THEN "CONFIRMED" ELSE @.status,
              number |-> l.number, hash |-> l.hash]]
       /\ outbox' = IF confirms THEN outbox \cup {Confirmed(i, l.hash)} ELSE outbox

\* The log is there: the row points at its block and is confirmed when deep
\* enough below the head this pass has seen.
Repoint(i, l) ==
    LET confirms == deposits[i].status = "DETECTED" /\ watch.head - l.number + 1 >= Required
    IN /\ deposits' = [deposits EXCEPT ![i] =
             [status |-> IF confirms THEN "CONFIRMED" ELSE @.status,
              number |-> l.number, hash |-> l.hash]]
       /\ outbox' = IF confirms THEN outbox \cup {Confirmed(i, l.hash)} ELSE outbox

WatchCommit ==
    /\ watch.phase = "commit"
    /\ IF watch.found = {} THEN MarkReorged(watch.row)
       ELSE \E l \in watch.found : Repoint(watch.row, l)
    /\ watch' = NextRow(watch.head, watch.todo \ {watch.row})
    /\ UNCHANGED <<chainVars, scanState, scan, faults>>

\* The process crashes or the RPC node is away: periodic tries again later.
PassFails ==
    /\ faults < MaxFaults /\ faults' = faults + 1
    /\ \/ scan # NoScan /\ scan' = NoScan /\ UNCHANGED watch
       \/ watch # NoWatch /\ watch' = NoWatch /\ UNCHANGED scan
    /\ UNCHANGED <<chainVars, scanState, deposits, outbox>>

-----------------------------------------------------------------------------
Scanner == ScanHead \/ ScanCheck \/ ScanLogs \/ ScanTip \/ ScanCommit
Watcher ==
    \/ WatchHead \/ WatchList \/ WatchLogs \/ WatchCommit
    \/ \E i \in Identities : WatchReceipt(i)

Next ==
    \/ \E t \in Txs : SimulateDeposit(t)
    \/ MineBlock
    \/ \E d \in 1 .. MaxDepth, drop \in SUBSET Txs : Orphan(d, drop)
    \/ Scanner
    \/ Watcher
    \/ PassFails

\* periodic runs both loops for as long as the worker lives.
Spec == Init /\ [][Next]_vars /\ WF_vars(Scanner) /\ WF_vars(Watcher)

-----------------------------------------------------------------------------
(* Properties.                                                             *)

\* Rows and blocks have the columns of their tables, and a transaction is in
\* one canonical block at most.
TypeOK ==
    /\ \A n \in DOMAIN chain : chain[n].hash \in 1 .. hashes /\ chain[n].txs \subseteq sent
    /\ \A t \in Txs : Cardinality(Receipts(t)) <= 1
    /\ mempool \subseteq sent /\ sent \subseteq Txs
    /\ hashes \in 1 .. MaxHash
    /\ scanState.number \in 0 .. MaxHash /\ scanState.hash \in 0 .. hashes
    /\ \A i \in Identities :
          /\ deposits[i].status \in Live \cup {"ABSENT", "REORGED"}
          /\ deposits[i].status # "ABSENT" => deposits[i].hash \in 1 .. hashes
    /\ faults \in 0 .. MaxFaults /\ reorgs \in 0 .. MaxReorgs

\* What the ledger of wallet-service adds up to. Its entries are keyed by block
\* hash, so a row is worth the confirmations with different keys less the
\* reversals with different keys, and that is one when the row is CONFIRMED and
\* nothing otherwise, through any number of reorganisations and revivals.
NetCredit(i) ==
    Cardinality({e \in outbox : e.type = "deposit.confirmed" /\ e.id = i})
      - Cardinality({e \in outbox : e.type = "deposit.reorged" /\ e.id = i
                                    /\ e.was_confirmed})
CreditsMatchRows ==
    \A i \in Identities :
        NetCredit(i) = IF deposits[i].status = "CONFIRMED" THEN 1 ELSE 0

\* "A deposit is credited only at this depth": the block whose deposit is told
\* confirmed has had that many blocks. Confirmations are counted from a head read
\* before the receipt, and a reorganisation in between makes the chain shorter.
CreditedAtDepth ==
    \A e \in outbox : e.type = "deposit.confirmed" => depth[e.hash] >= Required

\* The same as long as no reorganisation tears a pass: then the head a pass read
\* is one the block really had.
CalmCreditsAreDeep == torn \/ CreditedAtDepth

\* A transaction that is canonical and deep enough, and one the watcher still
\* looks at: neither its block nor one its rows point at is past finality.
Deep(t) == \E l \in Receipts(t) : Len(chain) - l.number + 1 >= Required
Settled(t) ==
    /\ Deep(t)
    /\ \A l \in Receipts(t) : Len(chain) - l.number < Finality
    /\ \A i \in Identities :
          i[1] = t /\ deposits[i].status \in Live => Len(chain) - deposits[i].number < Finality

\* The row of the log that is canonical is CONFIRMED and no other row of the
\* transaction is: a re-mined transaction may have another log_index.
Credited(t) ==
    \E l \in Receipts(t) :
        {i \in Identities : i[1] = t /\ deposits[i].status = "CONFIRMED"} = {l.id}

\* "Revived by the scanner and confirms again": what the chain settles on is
\* credited in the end, through every order of passes, blocks and revivals.
EverySettledDepositIsCredited ==
    \A t \in Txs : <>[]Settled(t) => <>[]Credited(t)

\* The same as long as no reorganisation tears a pass. Both speak of a chain
\* that stops growing before a block the watcher has to look at is past
\* finality, which is how far the workers may fall behind.
CalmDepositsAreCredited ==
    \A t \in Txs : <>[](Settled(t) /\ ~torn) => <>[]Credited(t)
=============================================================================
