----------------------------- MODULE Settlement -----------------------------
(***************************************************************************)
(* A transfer from POST /transfers to its end, through both services:       *)
(* wallet-service (Wallet) holds the money and asks, blockchain-service     *)
(* (Outgoing) sends, watches and reports, and the bus between them delivers *)
(* every committed event at least once and in any order (Delivery).         *)
(*                                                                          *)
(* It starts where every user has a wallet and one a confirmed deposit.     *)
(***************************************************************************)
EXTENDS Outgoing

CONSTANTS
    Users,     \* users.id
    Nobody,    \* in the columns of a row that does not exist
    Keys,      \* idempotency keys
    Payer,     \* the user whose deposit is confirmed at the start
    Amount     \* of the deposit and of each transfer

ASSUME PayerAssumption == Payer \in Users /\ Amount \in Nat \ {0}

VARIABLES
    issued, wallets, posted, reserved, ledger, status, body, idem, replies,
    requests,  \* wallet-service's outbox
    processed, ignored, raised, dead

Funding == "deposit"
FundingBlock == "block"

\* Code and, for a reorganisation, block: the part of the dedupe key of a
\* tx.failed after the transfer id.
FailureKeys ==
    ({"UNKNOWN_SENDING_ADDRESS", "REJECTED_BY_NODE", "RPC_UNAVAILABLE",
      "BROADCAST_FAILED", "STUCK_PENDING", "REVERTED_ON_CHAIN"} \X {NoBlock})
    \cup ({"CHAIN_REORG"} \X Blocks)

W == INSTANCE Wallet WITH
    TransferIds <- Transfers, ForeignIds <- {}, Amounts <- {Amount},
    Deposits <- {Funding}, Blocks <- {FundingBlock},
    Owner <- [d \in {Funding} |-> Payer],
    MinedIn <- [d \in {Funding} |-> {FundingBlock}],
    DepositAmount <- [d \in {Funding} |-> Amount],
    FailureCodes <- FailureKeys,
    outbox <- requests

walletVars == <<issued, wallets, posted, reserved, ledger, status, body, idem, replies,
                requests, processed, ignored, raised, dead>>
allVars == <<vars, walletVars>>

\* Every user has a wallet, and the deposit is credited.
InitFunded ==
    /\ Init
    /\ issued = Users /\ wallets = Users
    /\ posted = [u \in Users |-> IF u = Payer THEN Amount ELSE 0]
    /\ reserved = [u \in Users |-> 0]
    /\ ledger = {W!CreditPosting(Funding, FundingBlock)}
    /\ status = [t \in Transfers |-> "ABSENT"]
    /\ body = [t \in Transfers |-> W!NoRow]
    /\ idem = [k \in Keys |-> W!NoClaim] /\ replies = {}
    /\ requests = [t \in Transfers |-> "none"]
    /\ processed = {W!Confirmed(Funding, FundingBlock)} /\ ignored = {} /\ raised = {} /\ dead = {}

-----------------------------------------------------------------------------
(* What crosses the bus.                                                   *)

\* The event as wallet-service reads it: its id is made of the dedupe key.
Heard(e) ==
    CASE e.type = "tx.broadcasted" -> W!TxBroadcasted(e.transfer)
      [] e.type = "tx.confirmed" -> W!TxConfirmed(e.transfer)
      [] e.type = "tx.failed" -> W!TxFailed(e.transfer, <<e.code, e.block>>)

\* transfer.requested reaches blockchain-service once the relay has published it.
DeliverRequest(t) ==
    /\ requests[t] \in {"sent", "published"}
    /\ AcceptTransferRequest(t)
    /\ UNCHANGED walletVars

\* An event of blockchain-service's outbox reaches wallet-service.
DeliverEvent(e) ==
    /\ e \in outbox
    /\ W!Dispatch(Heard(e)) \/ W!DispatchRaises(Heard(e))
    /\ UNCHANGED vars

\* The client and wallet-service's own loops.
WalletSide ==
    /\ \/ \E k \in Keys, r \in W!Requests, t \in Transfers : W!PostTransfer(k, r, t)
       \/ \E t \in Transfers : W!RelayPublish(t)
       \/ W!AdvanceProgress
    /\ UNCHANGED vars

ChainSide == Loops /\ UNCHANGED walletVars

NextStep ==
    \/ WalletSide
    \/ \E t \in Transfers : DeliverRequest(t)
    \/ ChainSide
    \/ \E e \in outbox : DeliverEvent(e)

\* The loops are as fair as in Outgoing; the relay polls, and the bus delivers
\* what was committed (KeepsPromise of Delivery).
FairSettlement ==
    /\ WF_allVars(MineBlock /\ UNCHANGED walletVars)
    /\ \A b \in Broadcasters : WF_allVars(Broadcaster(b) /\ UNCHANGED walletVars)
    /\ WF_allVars(Watcher /\ UNCHANGED walletVars) /\ SF_allVars(HandleStuck /\ UNCHANGED walletVars)
    /\ \A t \in Transfers :
          /\ WF_allVars(W!RelayPublish(t) /\ requests'[t] = "published" /\ UNCHANGED vars)
          /\ WF_allVars(DeliverRequest(t))
    /\ WF_allVars(\E e \in outbox : W!Dispatch(Heard(e)) /\ UNCHANGED vars)

SettlementSpec == InitFunded /\ [][NextStep]_allVars /\ FairSettlement

-----------------------------------------------------------------------------
(* Properties.                                                             *)

\* Everything blockchain-service has reported has been applied.
CaughtUp(t) == \A e \in outbox : e.transfer = t => Heard(e) \in processed

\* Both services tell the same story once the bus is empty: a transfer is
\* CONFIRMED for the user exactly when its record is, FAILED exactly when the
\* record is FAILED or REORGED, and open while it is on its way, through retries,
\* crashes, reorganisations and every order of delivery.
ServicesAgree ==
    \A t \in Transfers :
        CaughtUp(t) /\ status[t] # "ABSENT" =>
            /\ status[t] = "CONFIRMED" <=> outgoing[t].status = "CONFIRMED"
            /\ status[t] = "FAILED" <=> outgoing[t].status \in {"FAILED", "REORGED"}

\* A refund that says the chain has refused the transfer is true: as long as no
\* block is orphaned, a transfer that failed with REVERTED_ON_CHAIN, or was
\* rejected on its first attempt, is not mined. The other codes make no such
\* claim: RPC_UNAVAILABLE, BROADCAST_FAILED and STUCK_PENDING refund a transfer
\* the node may still mine, and so does a rejection after a lost answer.
RefusalsAreTrue ==
    \A t \in Transfers :
        /\ forks = 0 /\ status[t] = "FAILED"
        /\ \E e \in FailedEvents(t) :
              \/ e.code \in {"REVERTED_ON_CHAIN", "UNKNOWN_SENDING_ADDRESS"}
              \/ e.code = "REJECTED_BY_NODE" /\ outgoing[t].attempts = 1
        => node[t].status # "MINED"

\* The user pays only for what the chain has done: as long as no block is
\* orphaned, a debited transfer is in a canonical block of the required depth.
DebitsAreMined ==
    \A t \in Transfers :
        forks = 0 /\ status[t] = "CONFIRMED" =>
            node[t].status = "MINED" /\ head - node[t].block.number + 1 >= Required

\* Every accepted transfer is settled or refunded in the end, whatever crashes,
\* times out, is lost or reorganised on the way, unless the watcher of
\* blockchain-service overlooks its transaction: that hold is kept for ever.
WatchedHoldsAreReleased ==
    \A t \in Transfers :
        []~Overlooked(t) /\ []<>~OutOfBlocks(t) =>
            (status[t] # "ABSENT" ~> status[t] \in W!Terminal)
=============================================================================
