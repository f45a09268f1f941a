------------------------------- MODULE Nonces -------------------------------
(***************************************************************************)
(* The web3 backend of blockchain-service: nonce_allocator, send_transfer    *)
(* of Web3ChainAdapter and a node that keeps one pending transaction per     *)
(* nonce, under the broadcaster and the watcher that drive them. All         *)
(* transfers leave one custody address. The hash of a transaction is its     *)
(* signed payload: what it pays, the nonce and the gas price of the moment.  *)
(***************************************************************************)
EXTENDS Integers, FiniteSets
LOCAL INSTANCE FiniteSetsExt

CONSTANTS
    Transfers,     \* transfers out of the address
    Prices,        \* gas prices the node may quote
    MaxAttempts    \* broadcast_max_attempts

VARIABLES
    outgoing,   \* outgoing_transactions
    pool,       \* signed transactions the node holds unmined
    mined,      \* signed transactions in canonical blocks
    accepted,   \* history: every signed transaction the node ever took
    call        \* the broadcaster's attempt: its phase and what it knows

vars == <<outgoing, pool, mined, accepted, call>>
nodeVars == <<pool, mined, accepted>>

NoNonce == -1
NoHash == [transfer |-> "none"]
NoCall == [phase |-> "idle"]

\* A signed transfer, which is also its hash.
Signed(t, n, p) == [transfer |-> t, nonce |-> n, price |-> p]

Init ==
    /\ outgoing = [t \in Transfers |->
                     [status |-> "CREATED", attempts |-> 0, nonce |-> NoNonce, hash |-> NoHash]]
    /\ pool = {} /\ mined = {} /\ accepted = {}
    /\ call = NoCall

-----------------------------------------------------------------------------
(* BroadcastWorker and send_transfer up to the network call                *)

\* nonce_allocator: the nonce of the row, or the one after the highest of the
\* address. No code writes the column.
NonceFor(t) ==
    LET used == {outgoing[u].nonce : u \in Transfers} \ {NoNonce}
    IN IF outgoing[t].nonce # NoNonce THEN outgoing[t].nonce
       ELSE IF used = {} THEN 0 ELSE Max(used) + 1

Claim(t) ==
    /\ call = NoCall /\ outgoing[t].status \in {"CREATED", "PENDING"}
    /\ outgoing' = [outgoing EXCEPT ![t].status = "PENDING", ![t].attempts = @ + 1]
    /\ call' = [phase |-> "sign", transfer |-> t]
    /\ UNCHANGED nodeVars

Sign ==
    /\ call.phase = "sign"
    /\ \E p \in Prices :
          call' = [phase |-> "send", transfer |-> call.transfer,
                   tx |-> Signed(call.transfer, NonceFor(call.transfer), p)]
    /\ UNCHANGED <<outgoing, nodeVars>>

-----------------------------------------------------------------------------
(* The node                                                                *)

Rivals(x) == {y \in pool : y.nonce = x.nonce}

\* eth_sendRawTransaction
Answer(x) ==
    IF x.nonce < Cardinality(mined) THEN "nonce too low"
    ELSE IF x \in pool THEN "already known"
    ELSE IF \E y \in Rivals(x) : y.price >= x.price THEN "replacement underpriced"
    ELSE "ok"

Returned(outcome) ==
    call' = [phase |-> "record", transfer |-> call.transfer, tx |-> call.tx,
             outcome |-> outcome]

\* send_transfer returns the hash of an accepted transaction and after the two
\* answers it takes for an acceptance; any other answer, or a lost one, is
\* RpcUnavailableError.
Send ==
    LET x == call.tx
        taken == Answer(x) \in {"ok", "already known", "nonce too low"}
    IN /\ call.phase = "send"
       /\ IF Answer(x) = "ok"
          THEN pool' = (pool \ Rivals(x)) \cup {x} /\ accepted' = accepted \cup {x}
          ELSE UNCHANGED <<pool, accepted>>
       /\ \/ taken /\ Returned("hash")
          \/ Returned("unavailable")
       /\ UNCHANGED <<outgoing, mined>>

\* The call does not reach the node, or the node refuses the transaction:
\* "insufficient" or "revert" is TransactionRejectedError.
SendFails ==
    /\ call.phase = "send"
    /\ Returned("unavailable") \/ Returned("rejected")
    /\ UNCHANGED <<outgoing, nodeVars>>

Mine ==
    /\ \E x \in pool :
          /\ x.nonce = Cardinality(mined)
          /\ mined' = mined \cup {x} /\ pool' = pool \ {x}
    /\ UNCHANGED <<outgoing, accepted, call>>

-----------------------------------------------------------------------------
(* _broadcast_one after the call, and the watcher                          *)

\* No other step touches the row of the attempt, which is PENDING until here.
Record ==
    LET t == call.transfer IN
    /\ call.phase = "record"
    /\ outgoing' =
          CASE call.outcome = "hash" ->
                 [outgoing EXCEPT ![t].status = "BROADCASTED", ![t].hash = call.tx]
            [] call.outcome = "unavailable" /\ outgoing[t].attempts < MaxAttempts ->
                 [outgoing EXCEPT ![t].status = "PENDING"]
            [] OTHER -> [outgoing EXCEPT ![t].status = "FAILED"]
    /\ call' = NoCall
    /\ UNCHANGED nodeVars

\* A BROADCASTED row is confirmed by the receipt of its hash; without one it is
\* queued again after pending_timeout_seconds, or given up.
Check(t) ==
    /\ outgoing[t].status = "BROADCASTED"
    /\ outgoing' = [outgoing EXCEPT ![t].status =
                      IF outgoing[t].hash \in mined THEN "CONFIRMED"
                      ELSE IF outgoing[t].attempts < MaxAttempts THEN "PENDING" ELSE "FAILED"]
    /\ UNCHANGED <<nodeVars, call>>

Next ==
    \/ \E t \in Transfers : Claim(t) \/ Check(t)
    \/ Sign \/ Send \/ SendFails \/ Record \/ Mine

Spec == Init /\ [][Next]_vars

-----------------------------------------------------------------------------
(* Properties.                                                             *)

\* "Previously broadcast; the deterministic hash is still correct": the hash a
\* BROADCASTED row looks its receipt up by is one the node has taken, whatever
\* the node answered and however often the transfer was signed.
RecordedHashesAreKnown ==
    \A t \in Transfers : outgoing[t].status = "BROADCASTED" => outgoing[t].hash \in accepted
=============================================================================
