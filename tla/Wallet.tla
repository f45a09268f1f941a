------------------------------- MODULE Wallet -------------------------------
(***************************************************************************)
(* wallet-service: the double-entry ledger, the balance snapshots and their *)
(* holds, user-to-user transfers, idempotency keys, the outbox row of each  *)
(* transfer request, and the consumer that applies blockchain-service's     *)
(* events in a database transaction each.                                   *)
(*                                                                          *)
(* The bus is at-least-once and has one stream per event type, so events    *)
(* reach Dispatch in any relative order and any number of times: the model  *)
(* lets any event whose cause exists be delivered at any moment.            *)
(***************************************************************************)
EXTENDS Integers, FiniteSets, Functions

CONSTANTS
    Users,         \* users.id
    Nobody,        \* in the columns of a row that does not exist
    TransferIds,   \* transfers.id, uuid4
    ForeignIds,    \* ids named by events though no transfer has them
    Keys,          \* idempotency keys of POST /transfers
    Amounts,       \* transfer and deposit amounts, in the smallest unit
    Deposits,      \* Transfer logs paying one of our addresses
    Blocks,        \* hashes of blocks such a log can be mined in
    Owner,         \* Owner[d]: the user whose address log d pays
    MinedIn,       \* MinedIn[d]: the blocks log d is mined in, one per fork
    DepositAmount, \* DepositAmount[d]: the amount of log d
    FailureCodes   \* codes of tx.failed; each makes an event of its own

ASSUME UsersAssumption == Nobody \notin Users
ASSUME AmountsAssumption == Amounts \subseteq Nat \ {0}
ASSUME IdsAssumption == ForeignIds \subseteq TransferIds
ASSUME DepositsAssumption ==
    /\ Owner \in [Deposits -> Users]
    /\ MinedIn \in [Deposits -> SUBSET Blocks]
    /\ DepositAmount \in [Deposits -> Amounts]

-----------------------------------------------------------------------------
(* Requests, rows and events.                                              *)

\* The fields the request fingerprint covers (one asset, one network).
Requests == [from : Users, to : Users, amount : Amounts]

Open == {"CREATED", "PROCESSING", "BROADCASTED"}
Terminal == {"CONFIRMED", "FAILED"}
TransferStatus == Open \cup Terminal

TransferRef(t) == <<"TRANSFER", t>>
DepositRef(d, b) == <<"DEPOSIT", d, b>>
References == {TransferRef(t) : t \in TransferIds}
              \cup {DepositRef(d, b) : d \in Deposits, b \in Blocks}

EntryTypes == {"DEPOSIT", "TRANSFER_DEBIT", "TRANSFER_CREDIT", "REVERSAL"}
Posting(u, a, ty, r) == [user |-> u, amount |-> a, type |-> ty, ref |-> r]
LedgerEntries == [user : Users, amount : Int, type : EntryTypes, ref : References]

\* uq_ledger_idempotency
SameKey(p, q) == p.user = q.user /\ p.type = q.type /\ p.ref = q.ref

Detected(d, b) == [type |-> "deposit.detected", dep |-> d, block |-> b]
Confirmed(d, b) == [type |-> "deposit.confirmed", dep |-> d, block |-> b]
Reorged(d, b, w) ==
    [type |-> "deposit.reorged", dep |-> d, block |-> b, was_confirmed |-> w]
TxBroadcasted(t) == [type |-> "tx.broadcasted", transfer |-> t]
TxConfirmed(t) == [type |-> "tx.confirmed", transfer |-> t]
TxFailed(t, c) == [type |-> "tx.failed", transfer |-> t, code |-> c]

DepositEvents ==
    {e \in {Detected(d, b) : d \in Deposits, b \in Blocks}
           \cup {Confirmed(d, b) : d \in Deposits, b \in Blocks}
           \cup {Reorged(d, b, w) : d \in Deposits, b \in Blocks, w \in BOOLEAN} :
        e.block \in MinedIn[e.dep]}
TransferEvents == {TxBroadcasted(t) : t \in TransferIds}
                  \cup {TxConfirmed(t) : t \in TransferIds}
                  \cup {TxFailed(t, c) : t \in TransferIds, c \in FailureCodes}
Events == DepositEvents \cup TransferEvents

\* uuid5 of the event type and the dedupe key: was_confirmed is payload only.
SameEventId(e, f) ==
    \/ e = f
    \/ /\ e.type = "deposit.reorged" /\ f.type = "deposit.reorged"
       /\ e.dep = f.dep /\ e.block = f.block

VARIABLES
    issued,      \* users whose address blockchain-service has issued
    wallets,     \* users with a wallet row
    posted,      \* balances.posted
    reserved,    \* balances.reserved
    ledger,      \* ledger_entries
    status,      \* transfers.status, "ABSENT" when there is no row
    body,        \* the other columns of a transfer row
    idem,        \* idempotency_keys: the request and the resource it made
    replies,     \* history: every 202 answer of POST /transfers
    outbox,      \* the transfer.requested row: queued, sent (on the bus but
                 \* the relay's transaction was lost), published
    processed,   \* processed_events
    ignored,     \* history: the events whose address no wallet row had
    raised,      \* history: the events whose handler has raised
    dead         \* dead_letters

vars == <<issued, wallets, posted, reserved, ledger, status, body, idem, replies,
          outbox, processed, ignored, raised, dead>>
addresses == <<issued, wallets>>
money == <<posted, reserved, ledger>>
transferRows == <<status, body, idem, replies, outbox>>
consumerRows == <<processed, ignored, raised, dead>>

NoRow == [from |-> Nobody, to |-> Nobody, amount |-> 0, key |-> "none"]
NoClaim == [request |-> NoRow, transfer |-> "none"]
TransferRows == [from : Users, to : Users, amount : Amounts, key : Keys]

Init ==
    /\ issued = {}
    /\ wallets = {}
    /\ posted = [u \in Users |-> 0]
    /\ reserved = [u \in Users |-> 0]
    /\ ledger = {}
    /\ status = [t \in TransferIds |-> "ABSENT"]
    /\ body = [t \in TransferIds |-> NoRow]
    /\ idem = [k \in Keys |-> NoClaim]
    /\ replies = {}
    /\ outbox = [t \in TransferIds |-> "none"]
    /\ processed = {}
    /\ ignored = {}
    /\ raised = {}
    /\ dead = {}

-----------------------------------------------------------------------------
(* services/ledger.py                                                      *)

\* Mutant: only ck_balance_reserved_non_negative is left.
CheckRowsReserved(p, r) == \A u \in Users : r[u] >= 0

\* ck_balance_reserved_non_negative, ck_balance_available_non_negative:
\* every UPDATE of a balance row is checked at once.
CheckRows(p, r) == \A u \in Users : r[u] >= 0 /\ p[u] - r[u] >= 0

\* INSERT ... ON CONFLICT DO NOTHING: the postings that are really written.
Written(ps) == {p \in ps : \A l \in ledger : ~SameKey(p, l)}

\* posted after post_entries; no caller posts twice for one user.
\* Mutant (PostEntriesLastOnly): the UPDATE slips out of the loop, so only the
\* posting of the last user moves a snapshot.
PostEntriesLastOnly(ps) ==
    [u \in Users |->
        IF \E p \in Written(ps) : p.user = u /\ \A q \in Written(ps) : q.user <= u
        THEN posted[u] + (CHOOSE p \in Written(ps) : p.user = u).amount
        ELSE posted[u]]

PostEntries(ps) ==
    [u \in Users |->
        IF \E p \in Written(ps) : p.user = u
        THEN posted[u] + (CHOOSE p \in Written(ps) : p.user = u).amount
        ELSE posted[u]]

PlaceHold(u, a) == [reserved EXCEPT ![u] = @ + a]
\* Mutant: the hold is released from the recipient.
ReleaseHoldOfRecipient(t) == [reserved EXCEPT ![body[t].to] = @ - body[t].amount]
ReleaseHold(t) == [reserved EXCEPT ![body[t].from] = @ - body[t].amount]

-----------------------------------------------------------------------------
(* The HTTP API.                                                           *)

\* create_wallet, its first half: blockchain-service issues the address, and
\* watches it from then on.
IssueAddress(u) ==
    /\ u \notin wallets
    /\ issued' = issued \cup {u}
    /\ UNCHANGED <<wallets, money, transferRows, consumerRows>>

\* create_wallet, its second half: attach_wallet commits the wallet row. It
\* comes any time after the answer, and only with a retry when it was lost.
CreateWallet(u) ==
    /\ u \in issued
    /\ wallets' = wallets \cup {u}
    /\ UNCHANGED <<issued, money, transferRows, consumerRows>>

\* What create_transfer refuses: the transaction rolls back, the claim of the
\* idempotency key with it.
Refused(k, r) ==
    \/ r.from = r.to
    \/ r.from \notin wallets \/ r.to \notin wallets
    \/ posted[r.from] - reserved[r.from] < r.amount
    \/ \E t \in TransferIds : status[t] # "ABSENT" /\ body[t].key = k

\* post_transfer: claim, create_transfer, enqueue_event, complete, in one
\* transaction. The hold comes from place_hold.
PostTransfer(k, r, t) ==
    /\ idem[k] = NoClaim
    /\ ~Refused(k, r)
    /\ t \notin ForeignIds /\ status[t] = "ABSENT"
    /\ CheckRows(posted, PlaceHold(r.from, r.amount))
    /\ reserved' = PlaceHold(r.from, r.amount)
    /\ status' = [status EXCEPT ![t] = "CREATED"]
    /\ body' = [body EXCEPT ![t] =
                  [from |-> r.from, to |-> r.to, amount |-> r.amount, key |-> k]]
    /\ outbox' = [outbox EXCEPT ![t] = "queued"]
    /\ idem' = [idem EXCEPT ![k] = [request |-> r, transfer |-> t]]
    /\ replies' = replies \cup {[key |-> k, request |-> r, transfer |-> t]}
    /\ UNCHANGED <<addresses, posted, ledger, consumerRows>>

RefuseTransfer(k, r) ==
    /\ idem[k] = NoClaim
    /\ Refused(k, r)
    /\ UNCHANGED vars

\* Mutant: the fingerprint is not compared.
ReplayTransferUnchecked(k, r) ==
    /\ idem[k] # NoClaim
    /\ replies' = replies \cup {[key |-> k, request |-> r, transfer |-> idem[k].transfer]}
    /\ UNCHANGED <<addresses, money, status, body, idem, outbox, consumerRows>>

\* claim finds the row: the stored answer, or IdempotencyConflictError when
\* the fingerprint differs (nothing is recorded then).
ReplayTransfer(k, r) ==
    /\ idem[k] # NoClaim
    /\ replies' = IF idem[k].request = r
                  THEN replies \cup {[key |-> k, request |-> r,
                                      transfer |-> idem[k].transfer]}
                  ELSE replies
    /\ UNCHANGED <<addresses, money, status, body, idem, outbox, consumerRows>>

-----------------------------------------------------------------------------
(* The worker's loops.                                                     *)

\* OutboxRelay.run_once: publish, then mark in the same transaction; a crash
\* in between leaves the event on the bus and the row unpublished.
RelayPublish(t) ==
    /\ outbox[t] \in {"queued", "sent"}
    /\ outbox' \in {[outbox EXCEPT ![t] = "published"], [outbox EXCEPT ![t] = "sent"]}
    /\ UNCHANGED <<addresses, money, status, body, idem, replies, consumerRows>>

\* TransferProgressWorker.run_once: one UPDATE over every row.
AdvanceProgress ==
    /\ \E t \in TransferIds : status[t] = "CREATED" /\ outbox[t] = "published"
    /\ status' = [t \in TransferIds |->
                    IF status[t] = "CREATED" /\ outbox[t] = "published"
                    THEN "PROCESSING" ELSE status[t]]
    /\ UNCHANGED <<addresses, money, body, idem, replies, outbox, consumerRows>>

-----------------------------------------------------------------------------
(* The handlers, each run inside dispatch's transaction.                   *)

SettlementPostings(t) ==
    {Posting(body[t].from, -body[t].amount, "TRANSFER_DEBIT", TransferRef(t)),
     Posting(body[t].to, body[t].amount, "TRANSFER_CREDIT", TransferRef(t))}
ReversalPostings(t) ==
    {Posting(body[t].from, body[t].amount, "REVERSAL", TransferRef(t)),
     Posting(body[t].to, -body[t].amount, "REVERSAL", TransferRef(t))}
CreditPosting(d, b) ==
    Posting(Owner[d], DepositAmount[d], "DEPOSIT", DepositRef(d, b))
ClawbackPosting(d, b) ==
    Posting(Owner[d], -DepositAmount[d], "REVERSAL", DepositRef(d, b))

\* A handler that writes to the ledger: CHECK holds after each statement.
Post(ps, r) ==
    /\ CheckRows(PostEntries(ps), r)
    /\ posted' = PostEntries(ps)
    /\ ledger' = ledger \cup Written(ps)

CreditDeposit(e) ==
    IF Owner[e.dep] \notin wallets
    THEN UNCHANGED <<money, status>>
    ELSE /\ Post({CreditPosting(e.dep, e.block)}, reserved)
         /\ UNCHANGED <<reserved, status>>

\* Mutant: a deposit that was never confirmed is taken back all the same.
ReverseDepositAlways(e) ==
    IF Owner[e.dep] \notin wallets
    THEN UNCHANGED <<money, status>>
    ELSE /\ Post({ClawbackPosting(e.dep, e.block)}, reserved)
         /\ UNCHANGED <<reserved, status>>

ReverseDeposit(e) ==
    IF ~e.was_confirmed \/ Owner[e.dep] \notin wallets
    THEN UNCHANGED <<money, status>>
    ELSE /\ Post({ClawbackPosting(e.dep, e.block)}, reserved)
         /\ UNCHANGED <<reserved, status>>

\* Mutant: a late broadcast event is applied to a settled transfer.
MarkBroadcastedLate(e) ==
    /\ status' = IF status[e.transfer] = "ABSENT"
                 THEN status ELSE [status EXCEPT ![e.transfer] = "BROADCASTED"]
    /\ UNCHANGED money

MarkBroadcasted(e) ==
    /\ status' = IF status[e.transfer] \in Terminal \cup {"ABSENT"}
                 THEN status ELSE [status EXCEPT ![e.transfer] = "BROADCASTED"]
    /\ UNCHANGED money

\* Mutant: settle_transfer forgets the hold.
SettleTransferKeepsHold(e) ==
    LET t == e.transfer IN
    IF status[t] \in Terminal \cup {"ABSENT"}
    THEN UNCHANGED <<money, status>>
    ELSE /\ Post(SettlementPostings(t), ReleaseHold(t))
         /\ status' = [status EXCEPT ![t] = "CONFIRMED"]
         /\ UNCHANGED reserved

\* Mutant: a confirmation silently corrects a transfer that already failed.
SettleTransferAfterFailure(e) ==
    LET t == e.transfer IN
    IF status[t] \in {"CONFIRMED", "ABSENT"}
    THEN UNCHANGED <<money, status>>
    ELSE /\ reserved' = IF status[t] = "FAILED" THEN reserved ELSE ReleaseHold(t)
         /\ Post(SettlementPostings(t), reserved')
         /\ status' = [status EXCEPT ![t] = "CONFIRMED"]

\* The hold is released before the debit is posted: the other order would run
\* into ck_balance_available_non_negative.
SettleTransfer(e) ==
    LET t == e.transfer IN
    IF status[t] \in Terminal \cup {"ABSENT"}
    THEN UNCHANGED <<money, status>>
    ELSE /\ CheckRows(posted, ReleaseHold(t))
         /\ reserved' = ReleaseHold(t)
         /\ Post(SettlementPostings(t), ReleaseHold(t))
         /\ status' = [status EXCEPT ![t] = "CONFIRMED"]

\* Mutant: a settled transfer fails without its postings being reversed.
FailTransferNoReversal(e) ==
    LET t == e.transfer IN
    IF status[t] \in {"FAILED", "ABSENT"}
    THEN UNCHANGED <<money, status>>
    ELSE /\ reserved' = IF status[t] = "CONFIRMED" THEN reserved ELSE ReleaseHold(t)
         /\ status' = [status EXCEPT ![t] = "FAILED"]
         /\ UNCHANGED <<posted, ledger>>

FailTransfer(e) ==
    LET t == e.transfer IN
    CASE status[t] \in {"FAILED", "ABSENT"} -> UNCHANGED <<money, status>>
      [] status[t] = "CONFIRMED" ->
            /\ Post(ReversalPostings(t), reserved)
            /\ status' = [status EXCEPT ![t] = "FAILED"]
            /\ UNCHANGED reserved
      [] OTHER ->
            /\ CheckRows(posted, ReleaseHold(t))
            /\ reserved' = ReleaseHold(t)
            /\ status' = [status EXCEPT ![t] = "FAILED"]
            /\ UNCHANGED <<posted, ledger>>

Handle(e) ==
    CASE e.type = "deposit.detected" -> UNCHANGED <<money, status>>
      [] e.type = "deposit.confirmed" -> CreditDeposit(e)
      [] e.type = "deposit.reorged" -> ReverseDeposit(e)
      [] e.type = "tx.broadcasted" -> MarkBroadcasted(e)
      [] e.type = "tx.confirmed" -> SettleTransfer(e)
      [] e.type = "tx.failed" -> FailTransfer(e)

\* The handler runs into a CHECK constraint and its transaction rolls back.
Raises(e) ==
    CASE e.type = "deposit.confirmed" /\ Owner[e.dep] \in wallets ->
            ~CheckRows(PostEntries({CreditPosting(e.dep, e.block)}), reserved)
      [] e.type = "deposit.reorged" /\ e.was_confirmed /\ Owner[e.dep] \in wallets ->
            ~CheckRows(PostEntries({ClawbackPosting(e.dep, e.block)}), reserved)
      [] e.type = "tx.confirmed" /\ status[e.transfer] \in Open ->
            ~(/\ CheckRows(posted, ReleaseHold(e.transfer))
              /\ CheckRows(PostEntries(SettlementPostings(e.transfer)),
                           ReleaseHold(e.transfer)))
      [] e.type = "tx.failed" /\ status[e.transfer] = "CONFIRMED" ->
            ~CheckRows(PostEntries(ReversalPostings(e.transfer)), reserved)
      [] e.type = "tx.failed" /\ status[e.transfer] \in Open ->
            ~CheckRows(posted, ReleaseHold(e.transfer))
      [] OTHER -> FALSE

-----------------------------------------------------------------------------
(* consumers/dispatcher.py under the consumer runtime.                     *)

\* blockchain-service emits e: about a transfer only once its request is on
\* the bus, about a deposit only to an address it has issued. One outbox row
\* exists per event id, so an id never has two payloads.
Deliverable(e) ==
    /\ \A f \in processed \cup raised : SameEventId(e, f) => e = f
    /\ e \in TransferEvents =>
          outbox[e.transfer] \in {"sent", "published"} \/ e.transfer \in ForeignIds
    /\ e \in DepositEvents => Owner[e.dep] \in issued

\* wallet_by_address finds no row for the address of the deposit.
Ignores(e) ==
    /\ \/ e.type = "deposit.confirmed"
       \/ e.type = "deposit.reorged" /\ e.was_confirmed
    /\ Owner[e.dep] \notin wallets

\* dispatch: processed_events row and effects commit together.
Dispatch(e) ==
    /\ Deliverable(e)
    /\ e \notin processed
    /\ Handle(e)
    /\ processed' = processed \cup {e}
    /\ ignored' = IF Ignores(e) THEN ignored \cup {e} ELSE ignored
    /\ UNCHANGED <<addresses, body, idem, replies, outbox, raised, dead>>

\* The processed_events row is there already.
DispatchDuplicate(e) ==
    /\ Deliverable(e)
    /\ e \in processed
    /\ UNCHANGED vars

\* The handler raises and its transaction rolls back: the message is delivered
\* again later, or dead-lettered when its deliveries are used up. Another copy
\* of a dead-lettered event may still come.
DispatchRaises(e) ==
    /\ Deliverable(e)
    /\ e \notin processed
    /\ Raises(e)
    /\ raised' = raised \cup {e}
    /\ dead' \in {dead, dead \cup {e}}
    /\ UNCHANGED <<addresses, money, transferRows, processed, ignored>>

Next ==
    \/ \E u \in Users : IssueAddress(u) \/ CreateWallet(u)
    \/ \E k \in Keys, r \in Requests :
          \/ \E t \in TransferIds : PostTransfer(k, r, t)
          \/ RefuseTransfer(k, r)
          \/ ReplayTransfer(k, r)
    \/ \E t \in TransferIds : RelayPublish(t)
    \/ AdvanceProgress
    \/ \E e \in Events : Dispatch(e) \/ DispatchDuplicate(e) \/ DispatchRaises(e)

Spec == Init /\ [][Next]_vars

-----------------------------------------------------------------------------
(* Properties.                                                             *)

\* Every row has the columns of its table, and no balance is overdrawn.
TypeOK ==
    /\ wallets \subseteq issued /\ issued \subseteq Users
    /\ posted \in [Users -> Int]
    /\ reserved \in [Users -> Int]
    /\ \A u \in Users : reserved[u] >= 0 /\ posted[u] >= reserved[u]
    /\ ledger \subseteq LedgerEntries
    /\ status \in [TransferIds -> TransferStatus \cup {"ABSENT"}]
    /\ body \in [TransferIds -> TransferRows \cup {NoRow}]
    /\ \A t \in TransferIds : status[t] # "ABSENT" => body[t] \in TransferRows
    /\ idem \in [Keys -> [request : Requests, transfer : TransferIds] \cup {NoClaim}]
    /\ replies \subseteq [key : Keys, request : Requests, transfer : TransferIds]
    /\ outbox \in [TransferIds -> {"none", "queued", "sent", "published"}]
    /\ ignored \subseteq processed /\ processed \subseteq Events
    /\ dead \subseteq raised /\ raised \subseteq Events

\* SUM(f[x]) over the rows S.
Total(f, S) == SumFunctionOnSet(f, S)

\* reconcile() finds every row consistent: the snapshot post_entries keeps is
\* the sum of the user's ledger entries, whatever was replayed or reversed.
Reconciled ==
    \A u \in Users :
        posted[u] = Total([l \in ledger |-> l.amount], {l \in ledger : l.user = u})

\* balances.reserved is exactly what the user's open transfers hold: no order
\* of settle_transfer, fail_transfer and replays leaks a hold or releases one
\* twice.
HoldsBackOpenTransfers ==
    \A u \in Users :
        reserved[u] = Total([t \in TransferIds |-> body[t].amount],
                            {t \in TransferIds : status[t] \in Open /\ body[t].from = u})

\* The status of a transfer is a function of the set of events applied, not of
\* their order: FAILED once a tx.failed was applied, else CONFIRMED once
\* tx.confirmed was, else BROADCASTED once tx.broadcasted was.
TransfersFollowEvents ==
    \A t \in TransferIds :
        LET failed == \E c \in FailureCodes : TxFailed(t, c) \in processed
            confirmed == TxConfirmed(t) \in processed
            broadcasted == TxBroadcasted(t) \in processed
        IN status[t] # "ABSENT" =>
              /\ status[t] = "FAILED" <=> failed
              /\ status[t] = "CONFIRMED" <=> confirmed /\ ~failed
              /\ status[t] = "BROADCASTED" <=> broadcasted /\ ~confirmed /\ ~failed

\* Double entry: the postings of a transfer are none while it is open, debit
\* and credit once it is CONFIRMED, and for a FAILED one either none or the
\* pair with both its reversals. No interleaving leaves half of them.
PostingsFollowTransfers ==
    \A t \in TransferIds :
        LET entries == {l \in ledger : l.ref = TransferRef(t)}
        IN /\ status[t] \in Open \cup {"ABSENT"} => entries = {}
           /\ status[t] = "CONFIRMED" => entries = SettlementPostings(t)
           /\ status[t] = "FAILED" =>
                 entries \in {{}, SettlementPostings(t) \cup ReversalPostings(t)}

\* A deposit log is credited once per block hash it was confirmed in, and
\* taken back once per block hash it was reorged out of after confirmation, in
\* whichever order the two streams deliver the facts, unless its address had
\* no wallet row at that moment.
DepositsFollowEvents ==
    \A d \in Deposits, b \in Blocks :
        LET applied == processed \ ignored
            credit == IF Confirmed(d, b) \in applied THEN {CreditPosting(d, b)} ELSE {}
            clawback == IF Reorged(d, b, TRUE) \in applied
                        THEN {ClawbackPosting(d, b)} ELSE {}
        IN {l \in ledger : l.ref = DepositRef(d, b)} = credit \cup clawback

\* "Not ours: nothing to credit. Loud, because it should be impossible": every
\* address blockchain-service reports a deposit to has a wallet row.
DepositsAreOurs == ignored = {}

\* Two 202 answers under one idempotency key are answers to the same request
\* and name the same transfer, and no other transfer carries the key.
RepliesAreStable ==
    /\ \A p, q \in replies : p.key = q.key => p = q
    /\ \A p \in replies : \A t \in TransferIds :
          status[t] # "ABSENT" /\ body[t].key = p.key => t = p.transfer

\* Only taking money back can run into a CHECK constraint. Settling, failing an
\* open transfer and crediting never raise, so they never reach the dead
\* letters and leave a hold behind.
OnlyReversalsRaise ==
    \A e \in Events :
        Deliverable(e) /\ e \notin processed /\ Raises(e) =>
            \/ e.type = "deposit.reorged"
            \/ e.type = "tx.failed" /\ status[e.transfer] = "CONFIRMED"

Rank(s) == CASE s = "ABSENT" -> 0 [] s = "CREATED" -> 1 [] s = "PROCESSING" -> 2
             [] s = "BROADCASTED" -> 3 [] s = "CONFIRMED" -> 4 [] s = "FAILED" -> 5

\* A transfer never moves back: neither a late tx.broadcasted nor the progress
\* worker undoes what a later event has established.
StatusMovesForward ==
    [][\A t \in TransferIds : Rank(status'[t]) >= Rank(status[t])]_vars
=============================================================================
