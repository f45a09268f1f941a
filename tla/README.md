# A TLA+ model of mini-crypto-wallet

mini-crypto-wallet is two Python services and a shared library. **wallet-service**
owns users, balances, a double-entry ledger and transfers. **blockchain-service**
owns custody addresses, watches a chain for deposits and broadcasts outgoing
transactions. They talk over Redis Streams through transactional outboxes;
**libs/common** (`mcw_common`) holds the outbox, the bus and the consumer runtime.
This directory models the parts of it that keep state and race with each other,
checks them with TLC on small instances and proves their safety properties with
TLAPS for instances of any size.

Paths below are relative to the repository root.

## 1. Inventory

| Component | State | Operations | Hard part |
|---|---|---|---|
| Ledger (`wallet_service/services/ledger.py`) | `balances.posted`, `balances.reserved`, `ledger_entries` | `post_entries`, `place_hold`, `release_hold`, `reconcile` | snapshot and entries must agree through replays; CHECK constraints; lock order |
| Transfers (`services/transfers.py`, `api/routes.py`) | `transfers`, `idempotency_keys` | `post_transfer`, `mark_broadcasted`, `settle_transfer`, `fail_transfer`, the progress worker | three event streams in any order, late and repeated events, failure after settlement |
| Wallet deposits (`services/deposits.py`) | ledger entries keyed by block hash | `credit_deposit`, `reverse_deposit` | confirmed and reorged facts in either order, address without a wallet row |
| Users, wallets, addresses (`services/users.py`, `chain_client.py`, `addresses.py`) | `users`, `wallets`, `addresses`, `key_material` | `create_user`; `create_wallet` in two halves over HTTP with retries; `get_or_create_address` | concurrent and repeated requests, a call that outlives its caller, a crash or a deposit between the halves |
| Wallet consumer (`consumers/dispatcher.py`) | `processed_events`, `dead_letters` | `dispatch`, `record_dead_letter` | effect and dedupe row in one transaction |
| Outbox (`mcw_common/outbox.py`) | `outbox` | `enqueue_event`, `OutboxRelay.run_once` | publish and mark are not atomic |
| Bus, consumer runtime (`mcw_common/bus.py`) | stream, consumer group, Pending Entries List, dead-letter stream | `publish`, `read_new`, `claim_stale`, `_handle`, `_reject` | crashes, slow consumers, redelivery counts, poison |
| Deposit tracking (`blockchain_service/services/deposits.py`) | `scan_state`, `deposits` | `DepositScanner.run_once`, `DepositConfirmationWatcher.run_once` | each pass reads the chain several times while it moves |
| Outgoing transactions (`services/transactions.py`) | `outgoing_transactions` | `accept_transfer_request`, `BroadcastWorker`, `OutgoingTransactionWatcher` | claim, network call and record are three steps; ambiguous sends; stuck and reorged transactions |
| Chain backends (`chain/mock.py`, `chain/evm.py`) | blocks, mempool, receipts | `mine_block`, `reorg`, `send_transfer`, `get_receipt`, ... | reorganisations, log indices that change |
| Nonces (`context.py`, `chain/evm.py`) | `outgoing_transactions.nonce` | `nonce_allocator`, signing, the node's answers | which transaction the node has after a lost answer |

Interaction: POST /transfers commits a hold, a transfer row and a
`transfer.requested` outbox row. The relay publishes it, blockchain-service
records and broadcasts it, and answers with `tx.broadcasted`, `tx.confirmed` or
`tx.failed`; deposits come as `deposit.detected`, `.confirmed` and `.reorged`.
Every consumer transaction starts with an INSERT into `processed_events`.

What makes it correct, in one line each: no balance is overdrawn and every
snapshot equals the sum of its entries; a hold lives exactly as long as its
transfer is open; the end state of a transfer does not depend on the order of
events; a request is answered the same way every time; a committed event takes
effect once or is reported; a deposit is credited exactly as often as it is
confirmed less reversed, at the required depth, and always in the end; an
outgoing request ends, wallet-service hears how, and both services and the chain
then agree; a user has one custody key and a wallet shows its address. The code
falls short of some of these; section 3 says where.

`PROJECT.json` lists the hazards behind these, each at its line.

## 2. Modules

| Module | Models | Checked by |
|---|---|---|
| `Wallet` | wallet-service: each database transaction one step | `MCWallet` |
| `WalletProofs`, `WalletSums` | theorems about `Wallet`; the second those about sums | tlapm |
| `BalanceLocks` | the row locks inside those transactions | `MCBalanceLocks` |
| `EventEffects` | abstract: what the bus promises a consumer | through `Delivery` |
| `Delivery` | outbox, relay, stream, group, consumers, dead letters | `MCDelivery` |
| `DepositTracking` | simulated chain, scanner, confirmation watcher | `MCDepositTracking` |
| `Outgoing` | request consumer, broadcaster, watcher, node | `MCOutgoing`, `MCSettlement` |
| `Settlement` | composition of `Outgoing` and `Wallet` over the bus | `MCSettlement` |
| `Provisioning` | sign-up, wallet requests, custody addresses and keys | `MCProvisioning` |
| `Nonces` | signing and nonces of the web3 backend | `MCNonces` |
| `BalanceLocksProofs`, `DeliveryProofs`, `DepositTrackingProofs`, `OutgoingProofs`, `SettlementProofs`, `ProvisioningProofs` | theorems about the module of the name | tlapm |

How they fit together: `Wallet` takes the bus as at-least-once and unordered,
which is what `Delivery` establishes (`EffectOnce`, `KeepsPromise`), and takes
each transaction as atomic, which is what `BalanceLocks` looks into
(`DecisionsStayValid`). The events `Wallet` accepts are those `DepositTracking`
and `Outgoing` emit, with the same dedupe keys; `Wallet` accepts more (any event
whose cause exists), so its invariants hold for what the producers really send.
`Settlement` puts the two services together: it extends `Outgoing`, instantiates
`Wallet`, and its bus hands over what the other side's outbox holds, any number of
times and in any order. `Nonces` looks into what `Outgoing` takes for granted, that
a transfer's hash is fixed.

### Wallet

One variable per table column that matters: `posted` and `reserved` (balances),
`ledger` (a set of entries: `uq_ledger_idempotency` makes it one), `status` and
`body` (transfers), `idem`, `outbox`, `processed`, `dead`; `issued` and `wallets`
are the two halves of `create_wallet`. `replies`, `ignored` and `raised` are
history. Actions: `IssueAddress`, `CreateWallet`, `PostTransfer`,
`RefuseTransfer`, `ReplayTransfer` (the API), `RelayPublish`, `AdvanceProgress`
(worker loops), `Dispatch`, `DispatchDuplicate`, `DispatchRaises` (the consumer;
`Handle` selects the handler). The handlers keep the order of the code: the hold
is released before the debit is posted, and a CHECK constraint that fails rolls
everything back (`Raises`). One asset, one network; users exist from the start.

### BalanceLocks

`job` is the transaction a worker runs, `plan` the rows its remaining statements
lock, `holder` who holds a row. `LoadForUpdate` reads the transfer row under its
lock and decides what follows; `LockBalance` is one statement on a balance row.
A transaction ends with `Commit` or is rolled back: `RejectTransfer` (the money is
not there), `RaiseOnCheck` (a reversal meets a CHECK constraint) or `Abort`,
PostgreSQL's deadlock victim. Balances are not counted here, so the first two may
happen whenever the code could raise. Locks on other tables are left out: no
transaction that holds a balance row waits for one of them.

### EventEffects and Delivery

A stream is numbered messages; `cursor` is the group's last delivered message,
`times` the delivery counts of the Pending Entries List, `hand` what a consumer
has read and `now` the delivery it handles with the phase it is in
(`handle -> ack`, or `reject -> record -> ack_dead`). Any pending entry may be
found idle, so a slow consumer competes with the one that took its message over;
the INSERT into `processed_events` makes the second wait (`NextPhase`). `Crash`,
`AckRaises`, `RelayLosesMark` and a handler raising for a passing reason are
faults. `Poison` events always raise. `MAXLEN` trims the stream whether or not a
message has been read; `cut` remembers the events that lost an unacknowledged
message to it. `Promise` maps Delivery to EventEffects: committed are the outbox
rows, reported the `dead_letters` table and the trimmed events, which nobody is in
fact told of.

### DepositTracking

`chain` is a sequence of blocks with unique hashes, `mempool` the pending
transactions. `Orphan` is the first transaction of `reorg`; the competing fork
comes from `MineBlock`, as in the code, where each block is a transaction of its
own. A block has the set of its transactions; a transaction's log
index is its place among them in the order of `created_at`, after `ahead` logs of
other parties' transfers (`Place`, `LogOf`), so a re-mined transaction may come with another index
and a second row. The scanner's pass is `ScanHead, ScanCheck, ScanLogs, ScanTip, ScanCommit`,
the watcher's `WatchHead, WatchList`, then per row `WatchReceipt`, `WatchLogs`
when the block differs, `WatchCommit`. `PassFails` is a crash or a lost node.
The id of a `deposit.reorged` event is made without `was_confirmed`, so the first
one told about a block stays (`ReorgTold`).
`torn` remembers that a reorganisation, or the re-mining of a known transaction
under a watcher's pass, came between two reads of one pass, and `depth` how deep
a block has ever been; both only serve properties.

### Outgoing

`outgoing` is the table, `node` what the node knows of a transfer's transaction,
`head` the height; a block hash is its height with the number of reorganisations
before it. `Claim`, `Send` and `RecordOutcome` are the three steps of a
broadcast, `Send` with every outcome of the adapters: accepted, rejected, and a
failure that leaves open whether the node has the transaction. `CheckReceipt` and
one of `ApplyReceipt`, `MarkReorged`, `StillPending`, `HandleStuck` are a check.
Time is abstracted: leases and the pending timeout may run out at any moment, so
the back-off of `_lease_seconds` does not appear. The transaction's hash is fixed
by the transfer, as on the simulated chain; see `Nonces` for the other backend.

### Settlement

The state is that of `Outgoing` and of `Wallet`, whose outbox is called `requests`
here. It starts where the users have wallets and the payer's deposit is credited.
`WalletSide` is the client's request, the relay and the progress worker,
`DeliverRequest` the consumer of `transfer.requested`, `ChainSide` the loops and
the node of `Outgoing`, `DeliverEvent` the wallet's dispatcher on an event of the
chain side's outbox; `Heard` translates the event, whose id is made of the dedupe
key.

### Provisioning

`request` is what a client's request does inside wallet-service (calling,
attaching, inserting), `calls` what POST /addresses does inside blockchain-service (`select`,
`insert`, then answered or failed). A call the client has given up on goes on. The
tables keep their unique constraints: `addresses.owner_ref`, `wallets.address` and
`uq_wallet_user_network_asset`, of which `attach_wallet` names only the last in its
conflict clause. PostgreSQL looks for a committed row with that key (`AttachWallet`)
before it inserts (`InsertWallet`), and the insertion meets the other constraint: a
row with the same address is an error, also when it came in between. `create_account` is random, so a key pair is named after the call
that makes it. `CallTimesOut`, `CallRefused` (a 4xx, which is not retried), `CallDies`
and `RequestDies` are the faults.

### Nonces

A signed transaction is the record of its transfer, nonce and gas price, and this
record is its hash. `NonceFor` is `nonce_allocator`; no action writes the nonce of
a row because no code does. `Answer` is the node: too low, known, underpriced, or
accepted; `Send` maps the answers as `send_transfer` does and may lose any of them.
`Record` and `Check` are the broadcaster's and the watcher's transactions without
confirmations and reorganisations, which `Outgoing` has.

## 3. Runs

| Run | Shows | Bounds |
|---|---|---|
| `wallet` | `TypeOK` (with no overdraft), `Reconciled`, `HoldsBackOpenTransfers`, `TransfersFollowEvents`, `PostingsFollowTransfers`, `DepositsFollowEvents`, `RepliesAreStable`, `OnlyReversalsRaise`, `StatusMovesForward` | 2 users, 2 transfers and one id that never exists, 2 keys, amounts 1 and 2, one deposit of 2 |
| `locks_replicas` | `TypeOK`, `DecisionsStayValid`, `OnlySettlementsDeadlock` | 3 replicas, 1 client, 3 users, 3 transfers in a ring |
| `delivery` | `TypeOK`, `EffectOnce`, `NothingDropped`, `TriesAreBounded`, `KeepsPromise` | 2 consumers, a good and a poisoned event, 4 messages of which the stream may keep only one, 1 fault, 2 deliveries |
| `deposit_tracking` | `TypeOK`, `CreditsMatchRows`, `CalmCreditsAreDeep`, `CalmDepositsAreCredited` | 1 deposit at 2 log indices, 5 blocks, 1 reorganisation of depth up to 2, 1 failed pass, 2 confirmations, finality 3 |
| `settlement` | `TypeOK`, `EventsMatchRecord`, `RetryBudgetIsFinite`, `ServicesAgree`, `RefusalsAreTrue`, `DebitsAreMined`, `WatchedHoldsAreReleased` | 2 users, 1 transfer from an address in custody or not, 2 attempts, height 4, 1 reorganisation, 1 fault |
| `provisioning` | `TypeOK`, `NoStrandedKeys`, `WalletsAreCustodied`, `AddressIsStable`, `EveryUserGetsAWallet` | 2 users with one mailbox, 2 networks, 3 clients, 2 attempts, 1 fault |
| `wallet_unknown` | violates `DepositsAreOurs` | 1 transfer, a deposit in two competing blocks |
| `locks_two` | violates `CannotDeadlock` | 2 replicas, 1 client, 2 opposite transfers |
| `delivery_limit` | violates `FailsWithinLimit` | 1 consumer, 1 poisoned event, 2 deliveries, no fault |
| `deposit_torn` | violates `EverySettledDepositIsCredited` | 5 blocks, 1 reorganisation |
| `outgoing_away` | violates `EveryRequestEnds` | 1 transfer, height 5, finality 3, no reorganisation, no fault |
| `nonces` | violates `RecordedHashesAreKnown` | 2 transfers of one address, 2 gas prices, 2 attempts |

Why the bounds are enough for what they claim. Two transfers with amounts 1 and 2
against a deposit of 2 give every case of the hold: both fit, one fits, a third
party's reversal meets spent money. Transfers interact only through the two
balance rows. Three replicas and a ring of transfers give cycles of two and of
three waits, with settlements, failures and reversals in them. Two consumers are what a stale claim needs; a poisoned event with
two deliveries reaches the dead letters directly and through a reclaim, and with
room for one message the trimming meets unread, pending and acknowledged ones. A
deposit through a reorganisation is confirmed, reversed, revived and confirmed
again, repointed, or replaced by a row with another log index. In `provisioning`
two clients want the same wallet and a third one on another network; the fault
gives a call that outlives its caller, a lost answer or a dead process. A deposit
mined in two competing blocks is covered for `DepositsFollowEvents` by the theorem
`DepositsExact`, which holds for any number of them. `settlement`
checks the properties of `Outgoing` too: its two transfer ids, one of which
blockchain-service has no key for, share one idempotency key and one deposit, so a
behaviour has one of them. Two
attempts separate a retry from an exhausted budget, and height 4 lets a
transaction be confirmed, orphaned and mined again, or overlooked. Symmetry is used where names
are only compared, and never with a liveness property.

`CHECK_DEADLOCK FALSE` is used in the modules with bounded clocks, messages or
blocks: when a bound is reached and everything is handled the loops poll for
nothing.

### What the violations show

1. `locks_two`: `settle_transfer` updates the sender's balance row
   (`release_hold`) before `post_entries` locks both rows in ascending order, so
   two replicas settling opposite transfers can deadlock, contrary to
   `ledger.py:13-14`. `OnlySettlementsDeadlock` says that this is the only place
   where the lock order is broken: a cycle always has such a settlement in it, and
   the victim PostgreSQL rolls back is an event that is redelivered, never a
   client's request.
2. `wallet_unknown`: a deposit confirmed between the two halves of
   `create_wallet` is marked processed without a credit.
3. `deposit_torn`: the scanner reads the logs of a range before the hash it stores
   as its cursor's; a reorganisation in between hides the re-mined deposit from
   the reorg guard.
4. `nonces`: every transfer of an address is signed with nonce 0 and with the gas
   price of the moment, and "nonce too low" counts as success. A second transfer,
   or a retry after a lost answer, is recorded as broadcast under a hash the node
   never took. With one transfer the run shows the second case: the transfer is
   mined, its row looks for another hash, and in the end it is refunded.
5. `delivery_limit`: `claim_stale` hands on the delivery count XPENDING saw before
   XCLAIM raised it, so a message fails `CONSUMER_MAX_DELIVERY + 1` times before it
   is dead-lettered, where `README.md:914` says `CONSUMER_MAX_DELIVERY`.
   `InMemoryBus` counts its own delivery, so the tests do not see it.
   `TriesAreBounded` shows that one try more is all it costs.
6. `outgoing_away`: the watcher notes the block of a transaction that is not deep
   enough yet; when `finality_depth` blocks are mined before its next pass, the
   filter at `transactions.py:293-294` drops the row for good. No event is sent
   and wallet-service keeps the hold for ever. `WatchedHoldsAreReleased` shows that
   this is the only way for a hold to stay: it has `[]~Overlooked(t)`, that the row
   is never dropped while BROADCASTED, as its hypothesis.

### Where properties have a hypothesis

The models do what the code does in these cases as well. The properties that pass
exclude them, each by a condition in its statement:

- `CalmCreditsAreDeep` (`~torn`): the watcher counts confirmations from a head it
  read before the receipt (`deposits.py:292`). After a reorganisation in between,
  the chain is shorter, and a deposit in its top block is credited at depth one,
  where `README.md:673` says "a deposit is credited only at this depth".
- `CalmDepositsAreCredited` (`~torn`, `Settled`): a deposit is credited exactly
  once if no reorganisation tears a pass and the workers stay within
  `finality_depth` of the chain. The watchlist excludes everything deeper
  (`deposits.py:240`), so a deposit that is that deep when first detected, after
  an outage or during a catch-up, stays DETECTED.
- `RefusalsAreTrue` (which codes): sends that get no answer use up the attempts,
  the transfer is failed and refunded (`transactions.py:179`), and a node that has
  the transaction mines it; `chain/evm.py:16-18` says that a send that times out
  never fails the transfer. `STUCK_PENDING`, and a rejection after a lost answer,
  can end the same way.
- `EveryUserGetsAWallet` (one wallet of the user, in the end): two requests for one
  wallet at once both find no row with the key of the conflict clause, and the
  second is refused by the unique address: a 500, where `users.py:53-54` says that
  concurrent calls collapse onto one row. The client's next request finds the
  wallet. The owner reference of an address names no network (`api/routes.py:129`),
  so a second network is given the address the first wallet already has, and every
  request for it is a 500, although wallets are unique per network
  (`README.md:274`).

### Fairness

- `Delivery`: weak fairness of the relay's poll and of each step of a running
  consumer; strong fairness that a pending message is found idle by some
  consumer, since `run_forever` asks for stale messages on every turn. None of
  `EnqueueEvent`, `Crash` and the other faults is fair.
- `BalanceLocks` has only safety properties and no fairness.
- `DepositTracking`, `Outgoing`: weak fairness of each loop (`periodic` survives
  failures and repeats) and, in `Outgoing`, of the miner; strong fairness of
  `HandleStuck`, because the clock passes `pending_timeout_seconds`. The outcome
  of a send is never assumed to be good.
- `Settlement`: the same, and weak fairness of the relay's successful publish and
  of the delivery in both directions, which `KeepsPromise` establishes for events
  that are not trimmed and whose handler does not raise for ever.
- `Provisioning`: weak fairness of each client's request, which it repeats until
  there is a wallet as the error text asks it to, and of each handler. No sign-up
  and no fault is fair.

## 4. Proofs

Every invariant and every action property of the passing runs is a theorem, for
every value of the constants that satisfies the assumptions of its module. The
assumptions say what the code or the deployment fixes: amounts are positive,
deposits have an owner and an amount, settings and bounds are natural numbers, a
worker replica and a request are different processes. The bounds of the runs are
constants like the others, so the theorems hold for any height, number of
reorganisations, messages and faults.

| Theorem | States | Module |
|---|---|---|
| `TypeCorrect` | `Spec => []TypeOK`, no overdraft included | `WalletProofs` |
| `TransfersConverge` | `Spec => []TransfersFollowEvents` | |
| `DoubleEntry` | `Spec => []PostingsFollowTransfers` | |
| `DepositsExact` | `Spec => []DepositsFollowEvents` | |
| `IdempotentRequests` | `Spec => []RepliesAreStable` | |
| `TransfersMoveForward` | `Spec => StatusMovesForward` | |
| `BooksReconcile` | `Spec => []Reconciled` | `WalletSums` |
| `HoldsExact` | `Spec => []HoldsBackOpenTransfers` | |
| `SettlementsNeverRaise` | `Spec => []OnlyReversalsRaise` | |
| `TypeCorrect`, `DecisionsHold`, `OtherLocksAscend` | `Spec => []TypeOK`, `[]DecisionsStayValid`, `[]OnlySettlementsDeadlock` | `BalanceLocksProofs` |
| `TypeCorrect`, `EffectsHappenOnce`, `EventsAreKept`, `TriesBounded` | `Spec => []TypeOK`, `[]EffectOnce`, `[]NothingDropped`, `[]TriesAreBounded` | `DeliveryProofs` |
| `RefinesEventEffects` | `Spec => PromiseSafety`: initial states and steps of `Delivery` are those of `EventEffects` | |
| `TypeCorrect`, `CreditsExact`, `CreditsAreDeep` | `Spec => []TypeOK`, `[]CreditsMatchRows`, `[]CalmCreditsAreDeep` | `DepositTrackingProofs` |
| `TypeCorrect` | `Spec => []TypeOK`, any number of broadcasters | `OutgoingProofs` |
| `EventsTold`, `BudgetFinite` | `Spec => []EventsMatchRecord`, `[]RetryBudgetIsFinite`, with one broadcaster | |
| `PaidIsMined` | `Spec => []DebitsAreMined`, any number of broadcasters | `SettlementProofs` |
| `StoriesAgree`, `RefundsAreTrue` | `Spec => []ServicesAgree`, `[]RefusalsAreTrue`, with one broadcaster | |
| `TypeCorrect`, `KeysNeverStranded`, `WalletsCustodied`, `AddressesStable` | `Spec => []TypeOK`, `[]NoStrandedKeys`, `[]WalletsAreCustodied`, `[]AddressIsStable` | `ProvisioningProofs` |

*One broadcaster* is the hypothesis `OneBroadcaster` of those theorems, not an
assumption of the module: the deployment starts one worker of
blockchain-service. With two the properties are false (section 5).

### The arguments

Each proof has an inductive invariant made of named parts, one lemma per part or
action, and a last step that combines them. What had to be added to the
properties, and why:

**Wallet.** One lemma per kind of event (`OnConfirmed`, `OnTxFailed`, ...) says
what its handler does; everything about `Dispatch` goes through these.
`TypeOK` is inductive as it stands; that no balance is overdrawn needs the CHECK
constraints, which every handler passes or raises (`HandleChecks`).
`TransfersFollowEvents` is not inductive: it says nothing of a transfer without a
row, so an event processed before the row existed would break it later.
`RequestFirst` excludes that: a row, its outbox row and the events about it come
in this order. `PostingsFollowTransfers` needs `RequestFirst` for the same reason
and that postings of different references never meet (`ReferencesDiffer`).
`DepositsFollowEvents` is inductive with `TypeOK`, from the uniqueness of event
ids. `RepliesAreStable` needs `KeysLinked`: replies, idempotency rows and
transfer rows tell one story.

**Sums of Wallet.** `Total` is a fold over a set. `WalletSums` first derives its
laws for finite sets: it unfolds one element at a time (`TotalUnfolds`), any
element may come first (`TotalTakes`), adding one adds its value (`TotalAdds`).
Induction over sets is done with a set of sets in place of a predicate
(`SetInduction`), from the well-foundedness of the strict-subset order. Then
`Reconciled` needs that the tables are finite (`RowsFinite`) and that a transfer
has two parties (`TwoParties`): `post_entries` moves each snapshot once, so two
postings for one user would lose one. `HoldsBackOpenTransfers` needs `RowsFinite`.
From it follows that an open transfer's amount is part of its sender's `reserved`
(`HoldCovers`), and from that `OnlyReversalsRaise`.

**BalanceLocks.** `DecisionsStayValid` is about a handler that has read a
transfer row and not yet locked the balances. `HandlerPlans` says it still holds
that row and that its plan is a suffix of what the row's status demands;
`RowsFirst` that no request makes the row of a transfer another one is about.
`OnlySettlementsDeadlock` is a statement about cycles of any length. A request
waits only while it holds nothing, so nobody waits for it. `LocksFollowPlans` says
that the balance rows a handler holds are those its plan has got past; since
`post_entries` sorts, a waiting handler that is no settlement with the larger
sender holds smaller rows than the one it waits for (`WaitsAscend`). In a cycle
without such a settlement, whoever waits for the smallest row holds a smaller one
that another member waits for.

**Delivery.** `EffectOnce` needs that one consumer at a time is inside the handler
of an event (`HandledAlone`) and what each phase knows of the tables (`PhasesOK`):
a stale copy of a message ends in `ack`, never in a second effect.
`TriesAreBounded` needs a counting argument, `TriesCounted`: failures so far,
consumers that may still raise and deliveries the group may still make never
exceed `MaxDelivery + 1`; it needs that a batch has a message once (`BatchesOK`).
The refinement needs `OnlyCommitted`: a message, a dead letter or a trimmed event
has an outbox row.

**DepositTracking.** `CreditsMatchRows` counts events, so it needs that a
confirmation or a reversal about to be told has not been told before. That rests on
block hashes: a log a pass has read is in the block of its hash for as long as that
block is canonical (`ReadingsGenuine`), a block with a told reversal is gone for
good, whatever its `was_confirmed` (`ToldOnce`), and what the watcher holds of its row has not been told
(`WatchHolds`). No hypothesis about torn passes is needed. `CalmCreditsAreDeep` needs
that an untorn watcher's head is not above the chain and that what it found is
canonical (`DepthHolds`).

**Outgoing.** A claimed row stays PENDING with the attempts its claim has charged
(`ClaimsHold`) and a row the watcher has read stays as it was (`WatchHolds`): the
broadcaster and the watcher write rows of different status. `ConfirmedOnce` keeps
a second `tx.confirmed` away; `BudgetLeft` says that a row nobody works on has an
attempt left or has lost it to a failed pass.

**Settlement.** A step of the composition is a step of `Outgoing` or leaves its
state alone, so `OutgoingProofs` carries over. On the wallet's side the rows
follow the applied events, and applied events were said (`AppliedWasSaid`). While
no block was orphaned, a `tx.confirmed` is about a transaction that is mined and
deep (`ConfirmedIsDeep`), `REVERTED_ON_CHAIN` about one that was mined and failed
(`RevertedIsTrue`); these need that what the watcher read is still so
(`WatchFresh`). Refusals are true because an address that is not ours is never sent
from (`OnlyCustodied`) and a rejected first send leaves the node ignorant
(`FirstSend`).

**Provisioning.** The tables alone are not inductive: a call that outlives its
caller inserts later. The additions follow an address from the call through the
answer to the request and the reply (`CallsCarryCustody`,
`RequestsCarryCustody`, `RepliesCarryCustody`).

### Only model-checked

Liveness, which is out of the prover's reach: `WatchedHoldsAreReleased`,
`EveryUserGetsAWallet`, `CalmDepositsAreCredited` and the
fair part of `KeepsPromise` (its safety part is `RefinesEventEffects`). Nothing is
proved about `Nonces`, whose one property is violated.

## 5. Not modelled

- Encryption of keys at rest and signing itself: cryptography without protocol
  state. Which keys are stored is in `Provisioning`.
- Amount parsing and formatting: pure, without state, and the pattern of the
  request's amount field admits only strings `parse_amount` reads exactly. The
  models count in smallest units.
- HTTP parsing, authentication, configuration, logging and metrics, migrations:
  no state the models' properties depend on; the migrations create the tables whose
  constraints are taken from `models.py`.
- `CircuitBreaker`: nothing but its tests uses it.
- Several assets, inactive users and wallets (nothing in the code makes one
  inactive).
- The scanner's filter of transfers between the platform's own addresses
  (`deposits.py:106-126`): the transactions of `DepositTracking` come from outside.
  The simulated chain's limit of 50 transactions per block, which no instance
  reaches.
- A real chain that returns to a fork it had left: the simulated one never makes an
  orphaned block canonical again, and `CreditsMatchRows` rests on that.
- Token balances of the simulated chain: which transactions revert is a choice.
- A second copy of blockchain-service's loops (the `/simulate/tick` endpoint or a
  second worker). `Outgoing` is parameterised by its broadcasters; with two of
  them a slow sender whose lease has run out overwrites the other's outcome and
  `EventsMatchRecord` does not hold.

## 6. Plan

Done, in this order: `Wallet` with its proofs, `BalanceLocks`, `Delivery` with
`EventEffects`, `DepositTracking`, `Outgoing`; then trimming in `Delivery`, log
indices in `DepositTracking`, `Provisioning`, `Settlement`, `Nonces`.

Then the proofs: all invariants and action properties of `Provisioning`,
`Delivery` with the safety part of its refinement, `BalanceLocks`, `Outgoing`,
`Settlement`, `DepositTracking`, and the sums of `Wallet`.

Left: that the composition `Settlement` implements `Wallet`'s specification step
by step, so that the theorems about `Wallet` carry over without its lemmas being
repeated; conservation over all users (the sum of `posted` is what was deposited
less what was taken back) as a further use of `WalletSums`; and a statement for
`Nonces` of what does hold with one transfer per address and one attempt.
