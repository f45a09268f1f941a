------------------------------ MODULE Outgoing ------------------------------
(***************************************************************************)
(* blockchain-service's outgoing transactions: the request consumer,         *)
(* BroadcastWorker, OutgoingTransactionWatcher and the node they talk to. A  *)
(* broadcast is a claim, a network call and a second transaction; a check is *)
(* a read of the row, a network call and a transaction. The chain, the other *)
(* loop and a crash may come between any two of these.                       *)
(*                                                                           *)
(* Time is abstracted: a lease or a timeout may run out at any moment.       *)
(***************************************************************************)
EXTENDS Integers, FiniteSets
LOCAL INSTANCE FiniteSetsExt

CONSTANTS
    Transfers,     \* transfer ids of transfer.requested
    Custodied,     \* those whose sending address has an addresses row
    Broadcasters,  \* running copies of BroadcastWorker
    MaxAttempts,   \* broadcast_max_attempts
    Required,      \* confirmations_required
    Finality,      \* finality_depth
    Limit,         \* rows one claim takes
    MaxHead,       \* bound: height of the chain
    MaxReorgs,     \* bound: reorganisations
    MaxDepth,      \* bound: depth of a reorganisation
    MaxFaults      \* bound: passes that crash or lose the node

ASSUME CustodyAssumption == Custodied \subseteq Transfers
ASSUME SettingsAssumption ==
    /\ MaxAttempts \in Nat \ {0} /\ Required \in Nat \ {0} /\ Limit \in Nat \ {0}
    /\ Finality \in Nat
ASSUME BoundsAssumption ==
    MaxHead \in Nat \ {0} /\ MaxReorgs \in Nat /\ MaxDepth \in Nat /\ MaxFaults \in Nat

\* The hash of a block: its height and the reorganisations before it.
NoBlock == [number |-> 0, fork |-> 0]
Blocks == [number : 0 .. MaxHead, fork : 0 .. MaxReorgs]

TxStatus == {"CREATED", "PENDING", "BROADCASTED", "CONFIRMED", "FAILED", "REORGED"}
NoRecord == [status |-> "ABSENT", attempts |-> 0, hash |-> FALSE, block |-> NoBlock]

\* The transaction of a transfer as the node has it: client_ref fixes its hash.
NodeStatus == {"ABSENT", "PENDING", "DROPPED", "MINED", "FAILED"}
Unknown == [status |-> "ABSENT", block |-> NoBlock]

\* Events by their dedupe key; ON CONFLICT DO NOTHING keeps one of each.
Broadcasted(t) == [type |-> "tx.broadcasted", transfer |-> t]
Confirmed(t) == [type |-> "tx.confirmed", transfer |-> t]
Failed(t, c) == [type |-> "tx.failed", transfer |-> t, code |-> c, block |-> NoBlock]
FailedByReorg(t, b) ==
    [type |-> "tx.failed", transfer |-> t, code |-> "CHAIN_REORG", block |-> b]

VARIABLES
    outgoing,   \* outgoing_transactions
    node,       \* the transactions the node knows
    head,       \* height of the canonical chain
    forks,      \* reorganisations so far
    outbox,     \* events enqueued
    batch,      \* rows a broadcaster has claimed: <<transfer, attempts>>
    sent,       \* the network call a broadcaster has behind it, or NoCall
    watch,      \* the watcher's pass: its phase and what it has read
    faults      \* failed passes so far

vars == <<outgoing, node, head, forks, outbox, batch, sent, watch, faults>>
chainVars == <<node, head, forks>>
broadcaster == <<batch, sent>>

NoCall == [transfer |-> "none"]
NoWatch == [phase |-> "idle"]

Init ==
    /\ outgoing = [t \in Transfers |-> NoRecord]
    /\ node = [t \in Transfers |-> Unknown]
    /\ head = 1 /\ forks = 0
    /\ outbox = {}
    /\ batch = [b \in Broadcasters |-> {}]
    /\ sent = [b \in Broadcasters |-> NoCall]
    /\ watch = NoWatch
    /\ faults = 0

Set(t, s) == outgoing' = [outgoing EXCEPT ![t].status = s]
Emit(e) == outbox' = outbox \cup {e}

-----------------------------------------------------------------------------
(* The node: chain/mock.py, chain/evm.py.                                  *)

InMempool == {t \in Transfers : node[t].status = "PENDING"}
Canonical(t) == node[t].status \in {"MINED", "FAILED"}

\* mine_block takes the pending transactions, or none under halt_mining; some
\* of them revert.
MineBlock ==
    /\ head < MaxHead
    /\ head' = head + 1
    /\ \E included \in {InMempool, {}} : \E reverted \in SUBSET included :
          node' = [t \in Transfers |->
                     IF t \in included
                     THEN [status |-> IF t \in reverted THEN "FAILED" ELSE "MINED",
                           block |-> [number |-> head + 1, fork |-> forks]]
                     ELSE node[t]]
    /\ UNCHANGED <<forks, outgoing, outbox, broadcaster, watch, faults>>

\* Mutant: an orphaned transaction keeps its block.
OrphanKeepsBlock(d, drop) ==
    LET keep == Max({1, head - d})
        reverted == {t \in Transfers : Canonical(t) /\ node[t].block.number > keep}
    IN /\ forks < MaxReorgs
       /\ keep < head /\ drop \subseteq reverted
       /\ forks' = forks + 1
       /\ head' = keep
       /\ node' = [t \in Transfers |->
                     IF t \in reverted
                     THEN [node[t] EXCEPT !.status = IF t \in drop THEN "DROPPED" ELSE "PENDING"]
                     ELSE node[t]]
       /\ UNCHANGED <<outgoing, outbox, broadcaster, watch, faults>>

\* reorg, its first transaction; the competing fork comes from MineBlock.
Orphan(d, drop) ==
    LET keep == Max({1, head - d})
        reverted == {t \in Transfers : Canonical(t) /\ node[t].block.number > keep}
    IN /\ forks < MaxReorgs
       /\ keep < head /\ drop \subseteq reverted
       /\ forks' = forks + 1
       /\ head' = keep
       /\ node' = [t \in Transfers |->
                     IF t \in reverted
                     THEN [status |-> IF t \in drop THEN "DROPPED" ELSE "PENDING",
                           block |-> NoBlock]
                     ELSE node[t]]
       /\ UNCHANGED <<outgoing, outbox, broadcaster, watch, faults>>

\* send_transfer reaches the node: INSERT ... ON CONFLICT DO NOTHING, or
\* "already known" from a real one.
Submitted(t) ==
    IF node[t].status = "ABSENT"
    THEN [node EXCEPT ![t] = [status |-> "PENDING", block |-> NoBlock]]
    ELSE node

-----------------------------------------------------------------------------
(* consumers/dispatcher.py, accept_transfer_request                        *)

\* A duplicate finds the processed_events row or the transfer's row and
\* changes nothing.
AcceptTransferRequest(t) ==
    /\ outgoing[t].status = "ABSENT"
    /\ IF t \in Custodied
       THEN Set(t, "CREATED") /\ UNCHANGED outbox
       ELSE Set(t, "FAILED") /\ Emit(Failed(t, "UNKNOWN_SENDING_ADDRESS"))
    /\ UNCHANGED <<chainVars, broadcaster, watch, faults>>

-----------------------------------------------------------------------------
(* BroadcastWorker                                                         *)

Claimable == {t \in Transfers : outgoing[t].status \in {"CREATED", "PENDING"}}

\* _CLAIM_SQL: SKIP LOCKED may leave out rows another transaction holds.
Claim(b, S) ==
    /\ batch[b] = {} /\ sent[b] = NoCall
    /\ S # {} /\ Cardinality(S) <= Limit
    /\ outgoing' = [t \in Transfers |->
                      IF t \in S THEN [outgoing[t] EXCEPT !.status = "PENDING",
                                                          !.attempts = @ + 1]
                      ELSE outgoing[t]]
    /\ batch' = [batch EXCEPT ![b] = {<<t, outgoing[t].attempts + 1>> : t \in S}]
    /\ UNCHANGED <<chainVars, outbox, sent, watch, faults>>

\* The network call. A timeout leaves open whether the node has it.
Send(b, t, n) ==
    /\ sent[b] = NoCall /\ <<t, n>> \in batch[b]
    /\ batch' = [batch EXCEPT ![b] = @ \ {<<t, n>>}]
    /\ \E outcome \in {"ok", "rejected", "unavailable", "error"} :
          /\ sent' = [sent EXCEPT ![b] = [transfer |-> t, attempts |-> n, outcome |-> outcome]]
          /\ node' \in IF outcome = "ok" THEN {Submitted(t)}
                      ELSE IF outcome = "rejected" THEN {node}
                      ELSE {node, Submitted(t)}
    /\ UNCHANGED <<outgoing, head, forks, outbox, watch, faults>>

\* _record_failure: nothing for a confirmed record.
RecordFailure(t, code) ==
    IF outgoing[t].status = "CONFIRMED"
    THEN UNCHANGED <<outgoing, outbox>>
    ELSE Set(t, "FAILED") /\ Emit(Failed(t, code))

\* The except branch for anything that may be tried again.
Retry(t, n, code) ==
    IF n < MaxAttempts
    THEN Set(t, "PENDING") /\ UNCHANGED outbox
    ELSE RecordFailure(t, code)

RecordBroadcast(t) ==
    IF outgoing[t].status \in {"CONFIRMED", "FAILED"}
    THEN UNCHANGED <<outgoing, outbox>>
    ELSE /\ outgoing' = [outgoing EXCEPT ![t].status = "BROADCASTED", ![t].hash = TRUE]
         /\ Emit(Broadcasted(t))

\* Mutant: the except branches are in the wrong order.
RecordOutcomeRejects(b) ==
    LET call == sent[b] IN
    /\ call # NoCall
    /\ IF call.outcome = "ok" THEN RecordBroadcast(call.transfer)
       ELSE RecordFailure(call.transfer, "REJECTED_BY_NODE")
    /\ sent' = [sent EXCEPT ![b] = NoCall]
    /\ UNCHANGED <<chainVars, batch, watch, faults>>

\* _broadcast_one after the call.
RecordOutcome(b) ==
    LET call == sent[b] IN
    /\ call # NoCall
    /\ CASE call.outcome = "ok" -> RecordBroadcast(call.transfer)
         [] call.outcome = "rejected" -> RecordFailure(call.transfer, "REJECTED_BY_NODE")
         [] call.outcome = "unavailable" ->
               Retry(call.transfer, call.attempts, "RPC_UNAVAILABLE")
         [] call.outcome = "error" -> Retry(call.transfer, call.attempts, "BROADCAST_FAILED")
    /\ sent' = [sent EXCEPT ![b] = NoCall]
    /\ UNCHANGED <<chainVars, batch, watch, faults>>

-----------------------------------------------------------------------------
(* OutgoingTransactionWatcher                                              *)

WatchHead ==
    /\ watch = NoWatch
    /\ watch' = [phase |-> "list", head |-> head]
    /\ UNCHANGED <<outgoing, chainVars, outbox, broadcaster, faults>>

\* Mutant: a row without a block number is compared like any other.
CandidatesWithBlock(h) ==
    {t \in Transfers : /\ outgoing[t].status \in {"BROADCASTED", "CONFIRMED"}
                       /\ outgoing[t].block # NoBlock /\ outgoing[t].block.number > h - Finality}

Candidates(h) ==
    {t \in Transfers : /\ outgoing[t].status \in {"BROADCASTED", "CONFIRMED"}
                       /\ outgoing[t].block = NoBlock \/ outgoing[t].block.number > h - Finality}

NextRow(h, todo) ==
    IF todo = {} THEN NoWatch ELSE [phase |-> "receipt", head |-> h, todo |-> todo]

WatchList ==
    /\ watch.phase = "list"
    /\ watch' = NextRow(watch.head, Candidates(watch.head))
    /\ UNCHANGED <<outgoing, chainVars, outbox, broadcaster, faults>>

\* _check_one up to the receipt: what the row said, what the node says.
CheckReceipt(t) ==
    /\ watch.phase = "receipt" /\ t \in watch.todo
    /\ watch' = IF ~outgoing[t].hash
                THEN NextRow(watch.head, watch.todo \ {t})
                ELSE [phase |-> "commit", head |-> watch.head, todo |-> watch.todo \ {t},
                      row |-> t, status |-> outgoing[t].status,
                      attempts |-> outgoing[t].attempts, receipt |-> node[t]]
    /\ UNCHANGED <<outgoing, chainVars, outbox, broadcaster, faults>>

Committing == watch.phase = "commit"
HasReceipt == watch.receipt.status \in {"MINED", "FAILED"}
CommitDone ==
    /\ watch' = NextRow(watch.head, watch.todo)
    /\ UNCHANGED <<chainVars, broadcaster, faults>>

\* Mutant: any receipt is a success.
ApplyReceiptAnyStatus ==
    LET t == watch.row
        b == watch.receipt.block
        confirms == outgoing[t].status = "BROADCASTED" /\ watch.head - b.number + 1 >= Required
    IN /\ Committing /\ HasReceipt
       /\ outgoing' = [outgoing EXCEPT ![t].block = b,
                         ![t].status = IF confirms THEN "CONFIRMED" ELSE @]
       /\ IF confirms THEN Emit(Confirmed(t)) ELSE UNCHANGED outbox
       /\ CommitDone

\* _check_one with a receipt: reverted, deep enough, or noted.
ApplyReceipt ==
    LET t == watch.row
        b == watch.receipt.block
        status == IF watch.receipt.status = "FAILED" THEN "FAILED"
                  ELSE IF outgoing[t].status = "BROADCASTED" /\ watch.head - b.number + 1 >= Required
                  THEN "CONFIRMED" ELSE outgoing[t].status
    IN /\ Committing /\ HasReceipt
       /\ outgoing' = [outgoing EXCEPT ![t].block = b, ![t].status = status]
       /\ IF status = outgoing[t].status THEN UNCHANGED outbox
          ELSE Emit(IF status = "FAILED" THEN Failed(t, "REVERTED_ON_CHAIN") ELSE Confirmed(t))
       /\ CommitDone

\* _mark_reorged: a confirmed transaction has disappeared.
MarkReorged ==
    /\ Committing /\ ~HasReceipt /\ watch.status = "CONFIRMED"
    /\ Set(watch.row, "REORGED")
    /\ Emit(FailedByReorg(watch.row, outgoing[watch.row].block))
    /\ CommitDone

\* _handle_stuck before pending_timeout_seconds are over.
StillPending ==
    /\ Committing /\ ~HasReceipt /\ watch.status # "CONFIRMED"
    /\ UNCHANGED <<outgoing, outbox>>
    /\ CommitDone

\* Mutant: a transaction given up on is not reported.
HandleStuckSilently ==
    /\ Committing /\ ~HasReceipt /\ watch.status # "CONFIRMED"
    /\ Set(watch.row, IF watch.attempts < MaxAttempts THEN "PENDING" ELSE "FAILED")
    /\ UNCHANGED outbox
    /\ CommitDone

\* Mutant: a stuck transaction is queued again whatever its attempts.
HandleStuckForever ==
    /\ Committing /\ ~HasReceipt /\ watch.status # "CONFIRMED"
    /\ Set(watch.row, "PENDING") /\ UNCHANGED outbox
    /\ CommitDone

\* _handle_stuck after them: once more, or given up.
HandleStuck ==
    /\ Committing /\ ~HasReceipt /\ watch.status # "CONFIRMED"
    /\ IF watch.attempts < MaxAttempts
       THEN Set(watch.row, "PENDING") /\ UNCHANGED outbox
       ELSE Set(watch.row, "FAILED") /\ Emit(Failed(watch.row, "STUCK_PENDING"))
    /\ CommitDone

-----------------------------------------------------------------------------
\* The process crashes or the node is away: periodic starts over. A claimed
\* row keeps the attempt it was charged.
PassFails ==
    /\ faults < MaxFaults /\ faults' = faults + 1
    /\ \/ \E b \in Broadcasters :
             /\ batch[b] # {} \/ sent[b] # NoCall
             /\ batch' = [batch EXCEPT ![b] = {}]
             /\ sent' = [sent EXCEPT ![b] = NoCall]
             /\ UNCHANGED watch
       \/ watch # NoWatch /\ watch' = NoWatch /\ UNCHANGED broadcaster
    /\ UNCHANGED <<outgoing, chainVars, outbox>>

Broadcaster(b) ==
    \/ \E S \in SUBSET Claimable : Claim(b, S)
    \/ \E d \in batch[b] : Send(b, d[1], d[2])
    \/ RecordOutcome(b)

Watcher ==
    \/ WatchHead \/ WatchList \/ ApplyReceipt \/ MarkReorged \/ StillPending \/ HandleStuck
    \/ \E t \in Transfers : CheckReceipt(t)

\* The node and the worker's loops.
Loops ==
    \/ MineBlock
    \/ \E d \in 1 .. MaxDepth, drop \in SUBSET Transfers : Orphan(d, drop)
    \/ \E b \in Broadcasters : Broadcaster(b)
    \/ Watcher
    \/ PassFails

Next == Loops \/ \E t \in Transfers : AcceptTransferRequest(t)

\* periodic runs the loops and the miner for as long as the worker lives, and
\* the clock of _handle_stuck runs: it does not find every transaction young.
Fairness ==
    /\ WF_vars(MineBlock)
    /\ \A b \in Broadcasters : WF_vars(Broadcaster(b))
    /\ WF_vars(Watcher) /\ SF_vars(HandleStuck)

Spec == Init /\ [][Next]_vars /\ Fairness

-----------------------------------------------------------------------------
(* Properties.                                                             *)

\* Rows have the columns of their tables, and only a transaction in a canonical
\* block has a block.
TypeOK ==
    /\ \A t \in Transfers :
          /\ outgoing[t].status \in TxStatus \cup {"ABSENT"}
          /\ outgoing[t].attempts \in Nat /\ outgoing[t].block \in Blocks
          /\ node[t].status \in NodeStatus /\ node[t].block \in Blocks
          /\ Canonical(t) <=> node[t].block # NoBlock
          /\ node[t].block.number <= head
    /\ head \in 1 .. MaxHead /\ forks \in 0 .. MaxReorgs /\ faults \in 0 .. MaxFaults

FailedEvents(t) == {e \in outbox : e.type = "tx.failed" /\ e.transfer = t}

\* What wallet-service is told about a transfer is what the record says: a
\* tx.failed exactly when the record is FAILED or REORGED, a tx.confirmed for a
\* CONFIRMED one, neither while it is still on its way. A record that went on
\* after its tx.failed would move money on chain that the wallet has given back.
EventsMatchRecord ==
    \A t \in Transfers :
        LET s == outgoing[t].status IN
        /\ s \in {"FAILED", "REORGED"} <=> FailedEvents(t) # {}
        /\ s = "CONFIRMED" => Confirmed(t) \in outbox
        /\ s \in {"ABSENT", "CREATED", "PENDING"} => Confirmed(t) \notin outbox

\* "The retry budget is finite": a crash between the claim and the record of
\* its outcome costs one attempt more, nothing else does.
RetryBudgetIsFinite == \A t \in Transfers : outgoing[t].attempts <= MaxAttempts + faults

\* A transfer is settled for wallet-service.
Resolved(t) == outgoing[t].status \in {"CONFIRMED", "FAILED", "REORGED"}

\* The model's chain ends before the transaction is deep enough.
OutOfBlocks(t) == Canonical(t) /\ MaxHead - node[t].block.number + 1 < Required

\* The node's transaction is settled, but finality_depth blocks came between two
\* passes of the watcher and the row is on no watchlist any more.
Overlooked(t) ==
    /\ outgoing[t].status = "BROADCASTED" /\ outgoing[t].block # NoBlock
    /\ outgoing[t].block.number <= head - Finality

\* "When the node comes back the transfer proceeds with no operator action":
\* every accepted request ends in a tx.confirmed or a tx.failed, however long the
\* watcher has not seen the chain, unless the model's chain stops for good before
\* its transaction is deep enough.
EveryRequestEnds ==
    \A t \in Transfers :
        []<>~OutOfBlocks(t) => (outgoing[t].status # "ABSENT" ~> Resolved(t))
=============================================================================
