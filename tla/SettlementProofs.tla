-------------------------- MODULE SettlementProofs --------------------------
(***************************************************************************)
(* Both services together, for every set of transfers, keys and users: the  *)
(* rows of wallet-service follow the events it has applied, those are events*)
(* of blockchain-service, and these follow its records (OutgoingProofs) and *)
(* what the node has done.                                                  *)
(***************************************************************************)
EXTENDS Settlement, OutgoingProofs

-----------------------------------------------------------------------------
(* Strengthenings. None is a goal of its own.                              *)

\* A tx.failed with code and block as its dedupe key has them.
FailedWith(t, k) == [type |-> "tx.failed", transfer |-> t, code |-> k[1], block |-> k[2]]

\* The outbox holds events of the three kinds only.
ReportsOK ==
    \A e \in outbox : \E t \in Transfers :
        \/ e = Broadcasted(t) \/ e = Confirmed(t)
        \/ \E k \in FailureKeys : e = FailedWith(t, k)

\* transfers and the outbox of wallet-service; nothing is applied to a transfer
\* that does not exist yet.
WalletRowsOK ==
    /\ status \in [Transfers -> {"ABSENT", "CREATED", "PROCESSING", "BROADCASTED",
                                 "CONFIRMED", "FAILED"}]
    /\ requests \in [Transfers -> {"none", "queued", "sent", "published"}]
    /\ \A t \in Transfers : status[t] = "ABSENT" <=> requests[t] = "none"
    /\ \A t \in Transfers : status[t] = "ABSENT" =>
          /\ W!TxBroadcasted(t) \notin processed /\ W!TxConfirmed(t) \notin processed
          /\ \A k \in FailureKeys : W!TxFailed(t, k) \notin processed

\* What wallet-service has applied, blockchain-service has said.
AppliedWasSaid ==
    \A t \in Transfers :
        /\ W!TxConfirmed(t) \in processed => Confirmed(t) \in outbox
        /\ \A k \in FailureKeys : W!TxFailed(t, k) \in processed => FailedWith(t, k) \in outbox

\* The watcher's head is one the chain has had, and while no block was ever
\* orphaned a receipt it holds is still the node's.
WatchHeadOK == watch.phase \in {"list", "receipt", "commit"} => watch.head \in Int
WatchFresh ==
    forks = 0 =>
        /\ watch.phase \in {"list", "receipt", "commit"} => watch.head <= head
        /\ Committing /\ HasReceipt => watch.receipt = node[watch.row]

\* While no block was ever orphaned: a tx.confirmed is about a transaction that is
\* mined and deep, REVERTED_ON_CHAIN about one that was mined and failed.
ConfirmedIsDeep ==
    forks = 0 => \A t \in Transfers : Confirmed(t) \in outbox =>
        node[t].status = "MINED" /\ head - node[t].block.number + 1 >= Required
RevertedIsTrue ==
    forks = 0 => \A t \in Transfers : Failed(t, "REVERTED_ON_CHAIN") \in outbox =>
        node[t].status = "FAILED"

\* A transfer from an address that is not ours is refused and never sent.
OnlyCustodied ==
    /\ \A t \in Transfers \ Custodied :
          outgoing[t].status \in {"ABSENT", "FAILED"} /\ node[t].status = "ABSENT"
    /\ \A b \in Broadcasters : /\ \A d \in batch[b] : d[1] \in Custodied
                               /\ sent[b] # NoCall => sent[b].transfer \in Custodied
    /\ watch.phase \in {"receipt", "commit"} => watch.todo \subseteq Custodied
    /\ watch.phase = "commit" => watch.row \in Custodied
    /\ \A t \in Transfers :
          Failed(t, "UNKNOWN_SENDING_ADDRESS") \in outbox => t \notin Custodied

\* Before its first send the node has not heard of a transfer, and a rejected
\* first send leaves it so.
FirstSend ==
    /\ \A t \in Transfers : outgoing[t].attempts = 0 => node[t].status = "ABSENT"
    /\ \A b \in Broadcasters :
          /\ \A d \in batch[b] : d[2] > 0 /\ (d[2] = 1 => node[d[1]].status = "ABSENT")
          /\ sent[b] # NoCall /\ sent[b].outcome = "rejected" /\ sent[b].attempts = 1 =>
                node[sent[b].transfer].status = "ABSENT"
    /\ \A t \in Transfers :
          Failed(t, "REJECTED_BY_NODE") \in outbox /\ outgoing[t].attempts = 1 =>
              node[t].status = "ABSENT"

NodeInv == ReportsOK /\ WatchHeadOK /\ WatchFresh /\ ConfirmedIsDeep /\ RevertedIsTrue
           /\ OnlyCustodied
WalletInv == WalletRowsOK /\ AppliedWasSaid /\ W!TransfersFollowEvents

-----------------------------------------------------------------------------
(* What a step of blockchain-service and of the node may do.               *)

LEMMA FailedKeys ==
  /\ \A t, c : Failed(t, c) = FailedWith(t, <<c, NoBlock>>)
  /\ \A t, b : FailedByReorg(t, b) = FailedWith(t, <<"CHAIN_REORG", b>>)
BY DEF Failed, FailedByReorg, FailedWith

\* The three kinds of events differ, and so do those of different transfers.
LEMMA ReportsDiffer ==
  /\ \A t, u : Confirmed(t) = Confirmed(u) => t = u
  /\ \A t, u : Confirmed(t) # Broadcasted(u)
  /\ \A t, u, k : FailedWith(u, k) # Confirmed(t) /\ FailedWith(u, k) # Broadcasted(t)
  /\ \A t, u, k, l : FailedWith(t, k) = FailedWith(u, l) => t = u /\ k[1] = l[1] /\ k[2] = l[2]
<1>1. \A t : Confirmed(t).type = "tx.confirmed" /\ Confirmed(t).transfer = t
  BY DEF Confirmed
<1>2. \A t : Broadcasted(t).type = "tx.broadcasted"
  BY DEF Broadcasted
<1>3. \A t, k : LET f == FailedWith(t, k) IN
         f.type = "tx.failed" /\ f.transfer = t /\ f.code = k[1] /\ f.block = k[2]
  BY DEF FailedWith
<1> QED BY <1>1, <1>2, <1>3

\* What a new event says is what the step that wrote it had in hand.
Says(e) ==
    \E t \in Transfers :
        \/ e = Broadcasted(t)
        \/ /\ e = Confirmed(t)
           /\ ApplyReceipt /\ t = watch.row /\ watch.receipt.status = "MINED"
           /\ watch.head - watch.receipt.block.number + 1 >= Required
        \/ \E k \in FailureKeys :
              /\ e = FailedWith(t, k)
              /\ k[1] = "REVERTED_ON_CHAIN" =>
                    ApplyReceipt /\ t = watch.row /\ watch.receipt.status = "FAILED"
              /\ k[1] = "UNKNOWN_SENDING_ADDRESS" =>
                    AcceptTransferRequest(t) /\ t \notin Custodied
              /\ k[1] = "REJECTED_BY_NODE" =>
                    \E b \in Broadcasters : /\ RecordOutcome(b) /\ t = sent[b].transfer
                                            /\ sent[b].outcome = "rejected"

LEMMA FailureKeysHave ==
  /\ \A c \in {"UNKNOWN_SENDING_ADDRESS", "REJECTED_BY_NODE", "RPC_UNAVAILABLE",
               "BROADCAST_FAILED", "STUCK_PENDING", "REVERTED_ON_CHAIN"} :
        <<c, NoBlock>> \in FailureKeys
  /\ \A b \in Blocks : <<"CHAIN_REORG", b>> \in FailureKeys
BY DEF FailureKeys

LEMMA AcceptSays ==
  ASSUME NEW t \in Transfers, AcceptTransferRequest(t)
  PROVE  UNCHANGED outbox \/ \E e : Emit(e) /\ Says(e)
<1>1. CASE t \in Custodied
  BY <1>1 DEF AcceptTransferRequest
<1>2. CASE t \notin Custodied
  <2> DEFINE k == <<"UNKNOWN_SENDING_ADDRESS", NoBlock>>
  <2>1. Emit(FailedWith(t, k)) /\ k \in FailureKeys /\ k[1] = "UNKNOWN_SENDING_ADDRESS"
    BY <1>2, FailedKeys, FailureKeysHave DEF AcceptTransferRequest
  <2> HIDE DEF k
  <2>2. Says(FailedWith(t, k))
    BY <1>2, <2>1 DEF Says
  <2> QED BY <2>1, <2>2
<1> QED BY <1>1, <1>2

LEMMA OutcomeSays ==
  ASSUME TypeInv, NEW b \in Broadcasters, RecordOutcome(b)
  PROVE  UNCHANGED outbox \/ \E e : Emit(e) /\ Says(e)
<1> DEFINE t == sent[b].transfer
<1>1. t \in Transfers /\ sent[b].outcome \in {"ok", "rejected", "unavailable", "error"}
  BY DEF RecordOutcome, TypeInv, PassesShaped
<1>2. ASSUME NEW c \in {"REJECTED_BY_NODE", "RPC_UNAVAILABLE", "BROADCAST_FAILED"},
             Emit(Failed(t, c)), c = "REJECTED_BY_NODE" => sent[b].outcome = "rejected"
      PROVE  \E e : Emit(e) /\ Says(e)
  <2> DEFINE k == <<c, NoBlock>>
  <2>1. Emit(FailedWith(t, k)) /\ k \in FailureKeys /\ k[1] = c
    BY <1>2, FailedKeys, FailureKeysHave
  <2> HIDE DEF k
  <2>2. Says(FailedWith(t, k))
    BY <1>1, <1>2, <2>1 DEF Says
  <2> QED BY <2>1, <2>2
<1>3. CASE sent[b].outcome = "ok"
  <2>1. RecordBroadcast(t)
    BY <1>3 DEF RecordOutcome
  <2>2. UNCHANGED outbox \/ Emit(Broadcasted(t))
    BY <2>1 DEF RecordBroadcast
  <2> QED BY <1>1, <2>2 DEF Says
<1>4. CASE sent[b].outcome = "rejected"
  <2>1. RecordFailure(t, "REJECTED_BY_NODE")
    BY <1>4 DEF RecordOutcome
  <2>2. UNCHANGED outbox \/ Emit(Failed(t, "REJECTED_BY_NODE"))
    BY <2>1 DEF RecordFailure
  <2> QED BY <1>2, <1>4, <2>2
<1>5. CASE sent[b].outcome = "unavailable"
  <2>1. Retry(t, sent[b].attempts, "RPC_UNAVAILABLE")
    BY <1>5 DEF RecordOutcome
  <2>2. UNCHANGED outbox \/ Emit(Failed(t, "RPC_UNAVAILABLE"))
    BY <2>1 DEF Retry, RecordFailure
  <2> QED BY <1>2, <2>2
<1>6. CASE sent[b].outcome = "error"
  <2>1. Retry(t, sent[b].attempts, "BROADCAST_FAILED")
    BY <1>6 DEF RecordOutcome
  <2>2. UNCHANGED outbox \/ Emit(Failed(t, "BROADCAST_FAILED"))
    BY <2>1 DEF Retry, RecordFailure
  <2> QED BY <1>2, <2>2
<1> QED BY <1>1, <1>3, <1>4, <1>5, <1>6

LEMMA CommitSays ==
  ASSUME TypeInv, ApplyReceipt \/ MarkReorged \/ HandleStuck
  PROVE  UNCHANGED outbox \/ \E e : Emit(e) /\ Says(e)
<1> DEFINE t == watch.row
<1>1. t \in Transfers /\ outgoing[t].block \in Blocks
  BY DEF ApplyReceipt, MarkReorged, HandleStuck, Committing, TypeInv, WatchShaped,
         RowsShaped, Records
<1>2. CASE ApplyReceipt
  <2> DEFINE deep == outgoing[t].status = "BROADCASTED"
                        /\ watch.head - watch.receipt.block.number + 1 >= Required
             st == IF watch.receipt.status = "FAILED" THEN "FAILED"
                   ELSE IF deep THEN "CONFIRMED" ELSE outgoing[t].status
  <2>1. /\ IF st = outgoing[t].status THEN UNCHANGED outbox
           ELSE Emit(IF st = "FAILED" THEN Failed(t, "REVERTED_ON_CHAIN") ELSE Confirmed(t))
        /\ watch.receipt.status \in {"MINED", "FAILED"}
    BY <1>2 DEF ApplyReceipt, HasReceipt
  <2>2. CASE watch.receipt.status = "FAILED" /\ st # outgoing[t].status
    <3> DEFINE k == <<"REVERTED_ON_CHAIN", NoBlock>>
    <3>1. Emit(FailedWith(t, k)) /\ k \in FailureKeys /\ k[1] = "REVERTED_ON_CHAIN"
      BY <2>1, <2>2, FailedKeys, FailureKeysHave
    <3> HIDE DEF k
    <3>2. Says(FailedWith(t, k))
      BY <1>1, <1>2, <2>2, <3>1 DEF Says
    <3> QED BY <3>1, <3>2
  <2>3. CASE watch.receipt.status = "MINED" /\ st # outgoing[t].status
    <3>1. deep /\ st = "CONFIRMED"
      BY <2>3
    <3>2. Emit(Confirmed(t))
      BY <2>1, <2>3, <3>1
    <3>3. Says(Confirmed(t))
      BY <1>1, <1>2, <2>3, <3>1 DEF Says
    <3> QED BY <3>2, <3>3
  <2> QED BY <2>1, <2>2, <2>3
<1>3. CASE MarkReorged
  <2> DEFINE k == <<"CHAIN_REORG", outgoing[t].block>>
  <2>1. Emit(FailedWith(t, k)) /\ k \in FailureKeys /\ k[1] = "CHAIN_REORG"
    BY <1>1, <1>3, FailedKeys, FailureKeysHave DEF MarkReorged
  <2> HIDE DEF k
  <2>2. Says(FailedWith(t, k))
    BY <1>1, <2>1 DEF Says
  <2> QED BY <2>1, <2>2
<1>4. CASE HandleStuck
  <2> DEFINE k == <<"STUCK_PENDING", NoBlock>>
  <2>1. UNCHANGED outbox \/ Emit(FailedWith(t, k))
    BY <1>4, FailedKeys DEF HandleStuck
  <2>2. k \in FailureKeys /\ k[1] = "STUCK_PENDING"
    BY FailureKeysHave
  <2> HIDE DEF k
  <2>3. Says(FailedWith(t, k))
    BY <1>1, <2>2 DEF Says
  <2> QED BY <2>1, <2>3
<1> QED BY <1>2, <1>3, <1>4

\* The outbox of blockchain-service only grows, by events that say what happened.
LEMMA OutboxGrows ==
  ASSUME TypeInv, [Next]_vars
  PROVE  UNCHANGED outbox \/ \E e : Emit(e) /\ Says(e)
<1>1. CASE \E t \in Transfers : AcceptTransferRequest(t)
  BY <1>1, AcceptSays
<1>2. CASE \E b \in Broadcasters : RecordOutcome(b)
  BY <1>2, OutcomeSays
<1>3. CASE ApplyReceipt \/ MarkReorged \/ HandleStuck
  BY <1>3, CommitSays
<1>4. CASE \/ UNCHANGED vars \/ MineBlock \/ PassFails \/ WatchHead \/ WatchList \/ StillPending
           \/ \E d \in 1 .. MaxDepth, drop \in SUBSET Transfers : Orphan(d, drop)
           \/ \E t \in Transfers : CheckReceipt(t)
           \/ \E b \in Broadcasters : \/ \E S \in SUBSET Claimable : Claim(b, S)
                                      \/ \E d \in batch[b] : Send(b, d[1], d[2])
  BY <1>4 DEF vars, MineBlock, PassFails, WatchHead, WatchList, StillPending, Orphan,
              CheckReceipt, Claim, Send
<1> QED BY <1>1, <1>2, <1>3, <1>4 DEF Next, Loops, Broadcaster, Watcher

\* The node: a transaction it has mined stays as it is while nothing is orphaned,
\* and only a send makes one known.
LEMMA NodeMoves ==
  ASSUME TypeInv, [Next]_vars
  PROVE  /\ forks' = 0 => /\ forks = 0 /\ head <= head'
                          /\ \A t \in Transfers : Canonical(t) => node'[t] = node[t]
         /\ \A t \in Transfers :
               node[t].status = "ABSENT" =>
                   \/ node'[t].status = "ABSENT"
                   \/ \E b \in Broadcasters : \E d \in batch[b] : Send(b, d[1], d[2]) /\ d[1] = t
<1>0. node \in [Transfers -> NodeRecords] /\ Counters
  BY TypeInvParts DEF TypeInv, RowsShaped
<1>1. CASE MineBlock
  <2>1. forks' = forks /\ head' = head + 1 /\ head \in Int
    BY <1>0, <1>1 DEF MineBlock, Counters
  <2>2. \A t \in Transfers : node[t].status # "PENDING" => node'[t] = node[t]
    BY <1>1 DEF MineBlock, InMempool
  <2> QED BY <2>1, <2>2 DEF Canonical
<1>2. CASE \E d \in 1 .. MaxDepth, drop \in SUBSET Transfers : Orphan(d, drop)
  <2>1. forks' = forks + 1
    BY <1>2 DEF Orphan
  <2>2. forks' # 0
    BY <1>0, <2>1 DEF Counters
  <2>3. \A t \in Transfers : ~Canonical(t) => node'[t] = node[t]
    BY <1>2 DEF Orphan
  <2> QED BY <2>2, <2>3 DEF Canonical
<1>3. CASE \E b \in Broadcasters : \E d \in batch[b] : Send(b, d[1], d[2])
  <2>0. PICK b \in Broadcasters : \E d \in batch[b] : Send(b, d[1], d[2])
    BY <1>3
  <2>1. PICK d \in batch[b] : Send(b, d[1], d[2])
    BY <2>0
  <2>2. node' \in {node, Submitted(d[1])} /\ head' = head /\ forks' = forks
    BY <2>1 DEF Send
  <2>3. \A t \in Transfers : /\ t # d[1] => node'[t] = node[t]
                             /\ node[t].status # "ABSENT" => node'[t] = node[t]
    BY <1>0, <2>2 DEF Submitted
  <2> QED BY <1>0, <2>1, <2>2, <2>3 DEF Canonical, Counters
<1>4. CASE UNCHANGED <<node, head, forks>>
  BY <1>0, <1>4 DEF Canonical, Counters
<1>5. ASSUME [Next]_vars
      PROVE  \/ MineBlock
             \/ \E d \in 1 .. MaxDepth, drop \in SUBSET Transfers : Orphan(d, drop)
             \/ \E b \in Broadcasters : \E d \in batch[b] : Send(b, d[1], d[2])
             \/ UNCHANGED <<node, head, forks>>
  BY <1>5 DEF Next, Loops, Broadcaster, Watcher, vars, chainVars, PassFails, WatchHead, WatchList,
              CheckReceipt, CommitDone, ApplyReceipt, MarkReorged, StillPending, HandleStuck,
              Claim, RecordOutcome, AcceptTransferRequest
<1> QED BY <1>1, <1>2, <1>3, <1>4, <1>5

-----------------------------------------------------------------------------
(* The node invariant, one part at a time.                                 *)

LEMMA ReportsStep ==
  ASSUME TypeInv, ReportsOK, [Next]_vars
  PROVE  ReportsOK'
<1>1. CASE UNCHANGED outbox
  BY <1>1 DEF ReportsOK, Broadcasted, Confirmed, FailedWith, FailureKeys
<1>2. CASE \E e : Emit(e) /\ Says(e)
  <2>1. PICK e : Emit(e) /\ Says(e)
    BY <1>2
  <2>2. \E t \in Transfers : \/ e = Broadcasted(t) \/ e = Confirmed(t)
                             \/ \E k \in FailureKeys : e = FailedWith(t, k)
    BY <2>1 DEF Says
  <2>3. outbox' = outbox \cup {e}
    BY <2>1 DEF Emit
  <2>4. \A f \in outbox' : \E t \in Transfers :
           \/ f = Broadcasted(t) \/ f = Confirmed(t)
           \/ \E k \in FailureKeys : f = FailedWith(t, k)
    BY <2>2, <2>3 DEF ReportsOK
  <2> QED BY <2>4 DEF ReportsOK, Broadcasted, Confirmed, FailedWith, FailureKeys
<1> QED BY <1>1, <1>2, OutboxGrows

\* Where the watcher's pass comes from.
LEMMA WatchMoves ==
  ASSUME TypeInv, [Next]_vars
  PROVE  \/ UNCHANGED watch
         \/ watch'.phase = "idle"
         \/ watch'.phase = "list" /\ watch'.head = head /\ UNCHANGED head
         \/ /\ watch.phase = "list" /\ watch'.phase = "receipt" /\ watch'.head = watch.head
            /\ watch'.todo = Candidates(watch.head)
            /\ UNCHANGED <<head, node, outgoing>>
         \/ /\ watch.phase = "receipt" /\ watch'.phase = "receipt"
            /\ watch'.head = watch.head /\ watch'.todo \subseteq watch.todo
            /\ UNCHANGED <<head, node, outgoing>>
         \/ /\ watch.phase = "receipt" /\ watch'.phase = "commit"
            /\ watch'.head = watch.head /\ watch'.todo \subseteq watch.todo
            /\ watch'.row \in watch.todo /\ watch'.receipt = node[watch'.row]
            /\ UNCHANGED <<head, node, outgoing>>
         \/ /\ watch.phase = "commit" /\ watch'.phase = "receipt"
            /\ watch'.head = watch.head /\ watch'.todo = watch.todo
            /\ UNCHANGED <<head, node>>
<1>1. CASE WatchHead
  BY <1>1 DEF WatchHead, chainVars
<1>2. CASE WatchList
  <2>1. watch' = NextRow(watch.head, Candidates(watch.head)) /\ watch.phase = "list"
        /\ UNCHANGED <<head, node, outgoing>>
    BY <1>2 DEF WatchList, chainVars
  <2> QED BY <2>1 DEF NextRow, NoWatch
<1>3. CASE \E t \in Transfers : CheckReceipt(t)
  <2>1. PICK t \in Transfers : CheckReceipt(t)
    BY <1>3
  <2>2. /\ watch.phase = "receipt" /\ t \in watch.todo
        /\ UNCHANGED <<head, node, outgoing>>
    BY <2>1 DEF CheckReceipt, chainVars
  <2>3. CASE ~outgoing[t].hash
    <3>1. watch' = NextRow(watch.head, watch.todo \ {t})
      BY <2>1, <2>3 DEF CheckReceipt
    <3> QED BY <2>2, <3>1 DEF NextRow, NoWatch
  <2>4. CASE outgoing[t].hash
    <3>1. watch' = [phase |-> "commit", head |-> watch.head, todo |-> watch.todo \ {t},
                    row |-> t, status |-> outgoing[t].status,
                    attempts |-> outgoing[t].attempts, receipt |-> node[t]]
      BY <2>1, <2>4 DEF CheckReceipt
    <3>2. /\ watch'.phase = "commit" /\ watch'.head = watch.head
          /\ watch'.todo = watch.todo \ {t} /\ watch'.row = t /\ watch'.receipt = node[t]
      BY <3>1
    <3> QED BY <2>2, <3>2
  <2> QED BY <2>3, <2>4
<1>4. CASE Committing /\ CommitDone
  <2>1. /\ watch.phase = "commit" /\ watch' = NextRow(watch.head, watch.todo)
        /\ UNCHANGED <<head, node>>
    BY <1>4 DEF Committing, CommitDone, chainVars
  <2> QED BY <2>1 DEF NextRow, NoWatch
<1>5. CASE PassFails
  BY <1>5 DEF PassFails, NoWatch
<1>6. \/ UNCHANGED watch \/ PassFails \/ WatchHead \/ WatchList \/ (Committing /\ CommitDone)
      \/ \E t \in Transfers : CheckReceipt(t)
  BY DEF Next, Loops, Broadcaster, Watcher, vars, ApplyReceipt, MarkReorged, StillPending,
         HandleStuck, Claim, Send, RecordOutcome, AcceptTransferRequest, MineBlock, Orphan
<1> QED BY <1>1, <1>2, <1>3, <1>4, <1>5, <1>6

LEMMA WatchStep ==
  ASSUME TypeInv, WatchHeadOK, WatchFresh, [Next]_vars
  PROVE  WatchHeadOK' /\ WatchFresh'
<1>0. head \in Int /\ Counters /\ head' \in Int
  <2>1. TypeInv'
    BY TypeStep
  <2>2. head' \in Int
    BY <2>1 DEF TypeInv, TypeOK
  <2> QED BY <2>2, TypeInvParts DEF Counters
<1>1. WatchHeadOK'
  BY <1>0, WatchMoves DEF WatchHeadOK
<1>2. ASSUME forks' = 0
      PROVE  /\ watch'.phase \in {"list", "receipt", "commit"} => watch'.head <= head'
             /\ watch'.phase = "commit" /\ watch'.receipt.status \in {"MINED", "FAILED"} =>
                   watch'.receipt = node'[watch'.row]
  <2>1. /\ forks = 0 /\ head <= head'
        /\ \A t \in Transfers : Canonical(t) => node'[t] = node[t]
    BY <1>2, NodeMoves
  <2>2. /\ watch.phase \in {"list", "receipt", "commit"} => watch.head <= head
        /\ watch.phase = "commit" /\ watch.receipt.status \in {"MINED", "FAILED"} =>
              watch.receipt = node[watch.row]
    BY <2>1 DEF WatchFresh, Committing, HasReceipt
  <2>3. watch.phase = "commit" => watch.row \in Transfers
    BY DEF TypeInv, WatchShaped
  <2>4. CASE UNCHANGED watch
    <3>1. watch.phase \in {"list", "receipt", "commit"} => watch.head <= head'
      BY <1>0, <2>1, <2>2 DEF WatchHeadOK
    <3>2. watch.phase = "commit" /\ watch.receipt.status \in {"MINED", "FAILED"} =>
             Canonical(watch.row)
      BY <2>2 DEF Canonical
    <3> QED BY <2>1, <2>2, <2>3, <2>4, <3>1, <3>2
  <2>5. CASE watch'.phase = "idle"
    BY <2>5
  <2>6. CASE watch'.phase = "list" /\ watch'.head = head /\ UNCHANGED head
    BY <1>0, <2>6
  <2>7. CASE /\ watch.phase \in {"list", "receipt", "commit"} /\ watch'.phase = "receipt"
             /\ watch'.head = watch.head /\ UNCHANGED <<head, node>>
    BY <2>2, <2>7
  <2>8. CASE /\ watch.phase = "receipt" /\ watch'.phase = "commit"
             /\ watch'.head = watch.head /\ watch'.receipt = node[watch'.row]
             /\ UNCHANGED <<head, node>>
    BY <2>2, <2>8
  <2> QED BY <2>4, <2>5, <2>6, <2>7, <2>8, WatchMoves
<1>3. WatchFresh'
  BY <1>2 DEF WatchFresh, Committing, HasReceipt
<1> QED BY <1>1, <1>3

LEMMA ConfirmedStep ==
  ASSUME TypeInv, WatchHeadOK, WatchFresh, ConfirmedIsDeep, [Next]_vars
  PROVE  ConfirmedIsDeep'
<1> SUFFICES ASSUME forks' = 0, NEW t \in Transfers, Confirmed(t) \in outbox'
             PROVE  node'[t].status = "MINED" /\ head' - node'[t].block.number + 1 >= Required
  BY DEF ConfirmedIsDeep, Confirmed
<1>0. /\ forks = 0 /\ head <= head' /\ (Canonical(t) => node'[t] = node[t])
      /\ head \in Int /\ head' \in Int /\ node[t].block.number \in Int /\ Required \in Int
  <2>1. TypeInv'
    BY TypeStep
  <2>2. head' \in Int
    BY <2>1 DEF TypeInv, TypeOK
  <2>3. head \in Int /\ node[t].block.number \in Int
    BY DEF TypeInv, TypeOK, Blocks
  <2> QED BY <2>2, <2>3, NodeMoves, SettingsAssumption
<1>1. CASE Confirmed(t) \in outbox
  <2>1. node[t].status = "MINED" /\ head - node[t].block.number + 1 >= Required
    BY <1>0, <1>1 DEF ConfirmedIsDeep
  <2>2. node'[t] = node[t]
    BY <1>0, <2>1 DEF Canonical
  <2> QED BY <1>0, <2>1, <2>2
<1>2. CASE Confirmed(t) \notin outbox
  <2>1. PICK e : Emit(e) /\ Says(e)
    BY <1>2, OutboxGrows
  <2>2. e = Confirmed(t)
    BY <1>2, <2>1 DEF Emit
  <2>3. /\ ApplyReceipt /\ t = watch.row /\ watch.receipt.status = "MINED"
        /\ watch.head - watch.receipt.block.number + 1 >= Required
    BY <2>1, <2>2, ReportsDiffer DEF Says
  <2>4. watch.receipt = node[t] /\ watch.head <= head /\ watch.head \in Int
    BY <1>0, <2>3 DEF ApplyReceipt, WatchFresh, WatchHeadOK, Committing, HasReceipt
  <2>5. node'[t] = node[t] /\ head' = head
    BY <2>3 DEF ApplyReceipt, CommitDone, chainVars
  <2> QED BY <1>0, <2>3, <2>4, <2>5
<1> QED BY <1>1, <1>2

LEMMA RevertedStep ==
  ASSUME TypeInv, WatchFresh, RevertedIsTrue, [Next]_vars
  PROVE  RevertedIsTrue'
<1> SUFFICES ASSUME forks' = 0, NEW t \in Transfers, Failed(t, "REVERTED_ON_CHAIN") \in outbox'
             PROVE  node'[t].status = "FAILED"
  BY DEF RevertedIsTrue, Failed
<1> DEFINE f == Failed(t, "REVERTED_ON_CHAIN")
<1>0. forks = 0 /\ (Canonical(t) => node'[t] = node[t])
  BY NodeMoves
<1>1. CASE f \in outbox
  BY <1>0, <1>1 DEF RevertedIsTrue, Canonical
<1>2. CASE f \notin outbox
  <2>1. PICK e : Emit(e) /\ Says(e)
    BY <1>2, OutboxGrows
  <2>2. e = FailedWith(t, <<"REVERTED_ON_CHAIN", NoBlock>>)
    BY <1>2, <2>1, FailedKeys DEF Emit
  <2>3. ApplyReceipt /\ t = watch.row /\ watch.receipt.status = "FAILED"
    BY <2>1, <2>2, ReportsDiffer DEF Says
  <2>4. watch.receipt = node[t]
    BY <1>0, <2>3 DEF ApplyReceipt, WatchFresh, Committing, HasReceipt
  <2> QED BY <1>0, <2>3, <2>4 DEF Canonical
<1> QED BY <1>1, <1>2

\* Who writes a row, and who charges an attempt.
LEMMA RowMoves ==
  ASSUME TypeInv, [Next]_vars, NEW t \in Transfers, outgoing'[t] # outgoing[t]
  PROVE  \/ /\ AcceptTransferRequest(t) /\ outgoing'[t].attempts = outgoing[t].attempts
            /\ t \notin Custodied => outgoing'[t].status = "FAILED"
         \/ /\ t \in Claimable /\ UNCHANGED node
            /\ outgoing'[t].attempts = outgoing[t].attempts + 1
         \/ /\ outgoing'[t].attempts = outgoing[t].attempts
            /\ \E b \in Broadcasters : RecordOutcome(b) /\ t = sent[b].transfer
         \/ outgoing'[t].attempts = outgoing[t].attempts /\ Committing /\ t = watch.row
<1>0. RowsShaped /\ outgoing \in [Transfers -> Records]
  BY DEF TypeInv, RowsShaped
<1>1. CASE \E u \in Transfers : AcceptTransferRequest(u)
  <2>1. PICK u \in Transfers : AcceptTransferRequest(u)
    BY <1>1
  <2>2. RowWritten(u, IF u \in Custodied THEN "CREATED" ELSE "FAILED")
    BY <1>0, <2>1, SetWrites DEF AcceptTransferRequest, TxStatus
  <2> QED BY <2>1, <2>2 DEF RowWritten
<1>2. CASE \E b \in Broadcasters, S \in SUBSET Claimable : Claim(b, S)
  <2>1. PICK b \in Broadcasters, S \in SUBSET Claimable : Claim(b, S)
    BY <1>2
  <2>2. t \in S /\ outgoing'[t] = [outgoing[t] EXCEPT !.status = "PENDING", !.attempts = @ + 1]
    BY <2>1 DEF Claim
  <2>3. outgoing[t] \in Records
    BY <1>0
  <2>4. outgoing'[t].attempts = outgoing[t].attempts + 1
    BY <2>2, <2>3 DEF Records
  <2> QED BY <2>1, <2>2, <2>4 DEF Claim, chainVars
<1>3. CASE \E b \in Broadcasters : RecordOutcome(b)
  <2>1. PICK b \in Broadcasters : RecordOutcome(b)
    BY <1>3
  <2>2. UNCHANGED outgoing \/ \E s : RowWritten(sent[b].transfer, s)
    BY <2>1, OutcomeDoes
  <2> QED BY <2>1, <2>2 DEF RowWritten
<1>4. CASE ApplyReceipt \/ MarkReorged \/ HandleStuck
  <2>1. Committing /\ watch.row \in Transfers
    BY <1>4 DEF ApplyReceipt, MarkReorged, HandleStuck, Committing, TypeInv, WatchShaped
  <2>2. \E s : RowWritten(watch.row, s)
    <3>1. CASE ApplyReceipt
      BY <3>1, ReceiptDoes
    <3>2. CASE MarkReorged
      BY <1>0, <2>1, <3>2, SetWrites DEF MarkReorged, TxStatus
    <3>3. CASE HandleStuck
      BY <1>0, <2>1, <3>3, SetWrites DEF HandleStuck, TxStatus
    <3> QED BY <1>4, <3>1, <3>2, <3>3
  <2> QED BY <2>1, <2>2 DEF RowWritten
<1>5. \/ UNCHANGED outgoing \/ ApplyReceipt \/ MarkReorged \/ HandleStuck
      \/ \E u \in Transfers : AcceptTransferRequest(u)
      \/ \E b \in Broadcasters, S \in SUBSET Claimable : Claim(b, S)
      \/ \E b \in Broadcasters : RecordOutcome(b)
  BY DEF Next, Loops, Broadcaster, Watcher, vars, PassFails, WatchHead, WatchList, CheckReceipt,
         StillPending, Send, MineBlock, Orphan
<1> QED BY <1>1, <1>2, <1>3, <1>4, <1>5

\* Where claims and calls come from.
LEMMA PassMoves ==
  ASSUME TypeInv, [Next]_vars, NEW b \in Broadcasters
  PROVE  /\ \/ batch'[b] \subseteq batch[b]
            \/ \E S \in SUBSET Claimable :
                  /\ batch'[b] = {<<t, outgoing[t].attempts + 1>> : t \in S}
                  /\ UNCHANGED node
         /\ \/ sent'[b] = sent[b] \/ sent'[b] = NoCall
            \/ \E d \in batch[b] :
                  /\ sent'[b].transfer = d[1] /\ sent'[b].attempts = d[2]
                  /\ sent'[b].outcome = "rejected" => UNCHANGED node
         /\ \A d \in batch[b] : Send(b, d[1], d[2]) => sent[b] = NoCall /\ d \notin batch'[b]
<1>0. DOMAIN batch = Broadcasters /\ DOMAIN sent = Broadcasters
      /\ batch[b] \subseteq Transfers \X Nat
  BY DEF TypeInv, PassesShaped
<1>1. ASSUME NEW d \in batch[b], Send(b, d[1], d[2])
      PROVE  sent[b] = NoCall /\ d \notin batch'[b]
  <2>1. d = <<d[1], d[2]>>
    BY <1>0
  <2>2. batch'[b] = batch[b] \ {<<d[1], d[2]>>} /\ sent[b] = NoCall
    BY <1>0, <1>1 DEF Send
  <2> QED BY <2>1, <2>2
<1>2. CASE \E a \in Broadcasters, S \in SUBSET Claimable : Claim(a, S)
  <2>1. PICK a \in Broadcasters, S \in SUBSET Claimable : Claim(a, S)
    BY <1>2
  <2>2. /\ batch' = [batch EXCEPT ![a] = {<<t, outgoing[t].attempts + 1>> : t \in S}]
        /\ UNCHANGED <<sent, node>>
    BY <2>1 DEF Claim, chainVars
  <2>3. CASE a = b
    BY <1>0, <1>1, <2>2, <2>3
  <2>4. CASE a # b
    BY <1>0, <1>1, <2>2, <2>4
  <2> QED BY <2>3, <2>4
<1>3. CASE \E a \in Broadcasters : \E d \in batch[a] : Send(a, d[1], d[2])
  <2>0. PICK a \in Broadcasters : \E d \in batch[a] : Send(a, d[1], d[2])
    BY <1>3
  <2>1. PICK d \in batch[a] : Send(a, d[1], d[2])
    BY <2>0
  <2>2. PICK outcome \in {"ok", "rejected", "unavailable", "error"} :
           /\ sent' = [sent EXCEPT ![a] =
                          [transfer |-> d[1], attempts |-> d[2], outcome |-> outcome]]
           /\ outcome = "rejected" => node' = node
    BY <2>1 DEF Send
  <2>3. batch' = [batch EXCEPT ![a] = @ \ {<<d[1], d[2]>>}]
    BY <2>1 DEF Send
  <2>4. batch'[b] \subseteq batch[b]
    BY <1>0, <2>3
  <2>5. CASE a = b
    <3>1. sent'[b] = [transfer |-> d[1], attempts |-> d[2], outcome |-> outcome]
      BY <1>0, <2>2, <2>5
    <3> QED BY <1>1, <2>2, <2>4, <2>5, <3>1
  <2>6. CASE a # b
    BY <1>0, <1>1, <2>2, <2>4, <2>6
  <2> QED BY <2>5, <2>6
<1>4. CASE (\E a \in Broadcasters : RecordOutcome(a)) \/ PassFails
  <2>1. batch'[b] \subseteq batch[b] /\ (sent'[b] = sent[b] \/ sent'[b] = NoCall)
    BY <1>0, <1>4 DEF RecordOutcome, PassFails, broadcaster
  <2> QED BY <1>1, <2>1
<1>5. CASE UNCHANGED broadcaster
  BY <1>1, <1>5 DEF broadcaster
<1>6. \/ UNCHANGED broadcaster \/ PassFails
      \/ \E a \in Broadcasters, S \in SUBSET Claimable : Claim(a, S)
      \/ \E a \in Broadcasters : \E d \in batch[a] : Send(a, d[1], d[2])
      \/ \E a \in Broadcasters : RecordOutcome(a)
  BY DEF Next, Loops, Broadcaster, Watcher, vars, WatchHead, WatchList, CheckReceipt, broadcaster,
         StillPending, MineBlock, Orphan, ApplyReceipt, MarkReorged, HandleStuck, CommitDone,
         AcceptTransferRequest
<1> QED BY <1>2, <1>3, <1>4, <1>5, <1>6

LEMMA CustodyStep ==
  ASSUME TypeInv, OnlyCustodied, [Next]_vars
  PROVE  OnlyCustodied'
<1>1. ASSUME NEW t \in Transfers \ Custodied
      PROVE  outgoing'[t].status \in {"ABSENT", "FAILED"} /\ node'[t].status = "ABSENT"
  <2>0. outgoing[t].status \in {"ABSENT", "FAILED"} /\ node[t].status = "ABSENT"
    BY <1>1 DEF OnlyCustodied
  <2>1. t \notin Claimable
    BY <2>0 DEF Claimable
  <2>2. ~(Committing /\ t = watch.row)
    BY <1>1 DEF OnlyCustodied, Committing
  <2>3. \A b \in Broadcasters : RecordOutcome(b) => t # sent[b].transfer
    BY <1>1 DEF OnlyCustodied, RecordOutcome
  <2>4. outgoing'[t].status \in {"ABSENT", "FAILED"}
    BY <1>1, <2>0, <2>1, <2>2, <2>3, RowMoves
  <2>5. node'[t].status = "ABSENT"
    BY <1>1, <2>0, NodeMoves DEF OnlyCustodied
  <2> QED BY <2>4, <2>5
<1>2. Claimable \subseteq Custodied /\ \A h : Candidates(h) \subseteq Custodied
  BY DEF OnlyCustodied, Claimable, Candidates
<1>3. ASSUME NEW b \in Broadcasters
      PROVE  /\ \A d \in batch'[b] : d[1] \in Custodied
             /\ sent'[b] # NoCall => sent'[b].transfer \in Custodied
  <2>1. \A d \in batch[b] : d[1] \in Custodied
    BY DEF OnlyCustodied
  <2>2. \A d \in batch'[b] : d[1] \in Custodied
    BY <1>2, <2>1, PassMoves
  <2>3. sent'[b] # NoCall => sent'[b].transfer \in Custodied
    BY <2>1, PassMoves DEF OnlyCustodied
  <2> QED BY <2>2, <2>3
<1>4. /\ watch'.phase \in {"receipt", "commit"} => watch'.todo \subseteq Custodied
      /\ watch'.phase = "commit" => watch'.row \in Custodied
  <2>1. /\ watch.phase \in {"receipt", "commit"} => watch.todo \subseteq Custodied
        /\ watch.phase = "commit" => watch.row \in Custodied
    BY DEF OnlyCustodied
  <2> QED BY <1>2, <2>1, WatchMoves
<1>5. ASSUME NEW t \in Transfers, Failed(t, "UNKNOWN_SENDING_ADDRESS") \in outbox'
      PROVE  t \notin Custodied
  <2>1. CASE Failed(t, "UNKNOWN_SENDING_ADDRESS") \in outbox
    BY <2>1 DEF OnlyCustodied
  <2>2. CASE Failed(t, "UNKNOWN_SENDING_ADDRESS") \notin outbox
    <3>1. PICK e : Emit(e) /\ Says(e)
      BY <1>5, <2>2, OutboxGrows
    <3>2. e = FailedWith(t, <<"UNKNOWN_SENDING_ADDRESS", NoBlock>>)
      BY <1>5, <2>2, <3>1, FailedKeys DEF Emit
    <3> QED BY <3>1, <3>2, ReportsDiffer DEF Says
  <2> QED BY <2>1, <2>2
<1> QED BY <1>1, <1>3, <1>4, <1>5 DEF OnlyCustodied, Failed

LEMMA FirstSendStep ==
  ASSUME IInv, FirstSend, [Next]_vars
  PROVE  FirstSend'
<1>0. /\ TypeInv /\ (\A a, b \in Broadcasters : a = b)
      /\ \A t \in Transfers : outgoing[t].attempts \in Nat
  BY DEF IInv, OneBroadcaster, TypeInv, TypeOK
<1>1. ASSUME NEW t \in Transfers, outgoing'[t].attempts = 0 PROVE node'[t].status = "ABSENT"
  <2>1. outgoing[t].attempts = 0
    BY <1>0, <1>1, RowMoves
  <2>2. node[t].status = "ABSENT"
    BY <2>1 DEF FirstSend
  <2>3. \A b \in Broadcasters : \A d \in batch[b] : d[1] # t
    BY <2>1 DEF FirstSend, IInv, Bookkeeping, ClaimsHold
  <2> QED BY <1>0, <2>2, <2>3, NodeMoves
<1>2. ASSUME NEW b \in Broadcasters, NEW d \in batch'[b]
      PROVE  d[2] > 0 /\ (d[2] = 1 => node'[d[1]].status = "ABSENT")
  <2>1. CASE d \in batch[b]
    <3>1. /\ d[1] \in Transfers /\ d[2] > 0 /\ (d[2] = 1 => node[d[1]].status = "ABSENT")
      BY <1>0, <2>1 DEF FirstSend, TypeInv, PassesShaped
    <3>2. ~ \E a \in Broadcasters : \E e \in batch[a] : Send(a, e[1], e[2]) /\ e[1] = d[1]
      <4>1. SUFFICES ASSUME NEW a \in Broadcasters, NEW e \in batch[a], Send(a, e[1], e[2]),
                            e[1] = d[1]
                     PROVE  FALSE
        OBVIOUS
      <4>2. a = b
        BY <1>0
      <4>3. e = d
        BY <2>1, <4>1, <4>2 DEF IInv, Bookkeeping, ClaimsHold
      <4> QED BY <1>0, <1>2, <4>1, <4>2, <4>3, PassMoves
    <3> QED BY <1>0, <3>1, <3>2, NodeMoves
  <2>2. CASE d \notin batch[b]
    <3>1. PICK S \in SUBSET Claimable :
             /\ batch'[b] = {<<t, outgoing[t].attempts + 1>> : t \in S} /\ UNCHANGED node
      BY <1>0, <1>2, <2>2, PassMoves
    <3>2. PICK t \in S : d = <<t, outgoing[t].attempts + 1>>
      BY <1>2, <3>1
    <3>3. t \in Transfers /\ d[1] = t /\ d[2] = outgoing[t].attempts + 1
      BY <3>2 DEF Claimable
    <3>4. d[2] > 0 /\ (d[2] = 1 => outgoing[t].attempts = 0)
      BY <1>0, <3>3
    <3> QED BY <3>1, <3>3, <3>4 DEF FirstSend
  <2> QED BY <2>1, <2>2
<1>3. ASSUME NEW b \in Broadcasters, sent'[b] # NoCall, sent'[b].outcome = "rejected",
             sent'[b].attempts = 1
      PROVE  node'[sent'[b].transfer].status = "ABSENT"
  <2>1. CASE sent'[b] = sent[b]
    <3>1. node[sent[b].transfer].status = "ABSENT" /\ sent[b].transfer \in Transfers
      BY <1>0, <1>3, <2>1 DEF FirstSend, TypeInv, PassesShaped
    <3>2. ~ \E a \in Broadcasters : \E e \in batch[a] : Send(a, e[1], e[2])
      BY <1>0, <1>3, <2>1, PassMoves
    <3> QED BY <1>0, <2>1, <3>1, <3>2, NodeMoves
  <2>2. CASE sent'[b] # sent[b]
    <3>1. PICK d \in batch[b] : /\ sent'[b].transfer = d[1] /\ sent'[b].attempts = d[2]
                                /\ UNCHANGED node
      BY <1>0, <1>3, <2>2, PassMoves
    <3> QED BY <1>3, <3>1 DEF FirstSend
  <2> QED BY <2>1, <2>2
<1>4. ASSUME NEW t \in Transfers, Failed(t, "REJECTED_BY_NODE") \in outbox',
             outgoing'[t].attempts = 1
      PROVE  node'[t].status = "ABSENT"
  <2>1. CASE Failed(t, "REJECTED_BY_NODE") \in outbox
    <3>1. outgoing[t].status \in {"FAILED", "REORGED"}
      <4>1. Failed(t, "REJECTED_BY_NODE") \in FailedEvents(t)
        BY <2>1 DEF FailedEvents, Failed
      <4> QED BY <4>1 DEF IInv, Bookkeeping, EventsMatchRecord
    <3>2. t \notin Claimable
      BY <3>1 DEF Claimable
    <3>3. outgoing[t].attempts = 1
      BY <1>0, <1>4, <3>2, RowMoves
    <3>4. node[t].status = "ABSENT"
      BY <2>1, <3>3 DEF FirstSend
    <3>5. \A b \in Broadcasters : \A d \in batch[b] : d[1] # t
      BY <3>1 DEF IInv, Bookkeeping, ClaimsHold
    <3> QED BY <1>0, <3>4, <3>5, NodeMoves
  <2>2. CASE Failed(t, "REJECTED_BY_NODE") \notin outbox
    <3>1. PICK e : Emit(e) /\ Says(e)
      BY <1>0, <1>4, <2>2, OutboxGrows
    <3>2. e = FailedWith(t, <<"REJECTED_BY_NODE", NoBlock>>)
      BY <1>4, <2>2, <3>1, FailedKeys DEF Emit
    <3>3. PICK b \in Broadcasters : /\ RecordOutcome(b) /\ t = sent[b].transfer
                                    /\ sent[b].outcome = "rejected"
      BY <3>1, <3>2, ReportsDiffer DEF Says
    <3>4. sent[b] # NoCall /\ UNCHANGED node
      BY <3>3 DEF RecordOutcome, chainVars
    <3>5. outgoing[t].status = "PENDING" /\ outgoing[t].attempts = sent[b].attempts
      BY <3>3, <3>4 DEF IInv, Bookkeeping, ClaimsHold
    <3>6. outgoing'[t].attempts = outgoing[t].attempts
      <4>1. \/ UNCHANGED outgoing \/ \E s : RowWritten(t, s)
        BY <1>0, <3>3, OutcomeDoes
      <4> QED BY <4>1 DEF RowWritten
    <3> QED BY <1>4, <3>3, <3>4, <3>5, <3>6 DEF FirstSend
  <2> QED BY <2>1, <2>2
<1>5. /\ \A t \in Transfers : outgoing'[t].attempts = 0 => node'[t].status = "ABSENT"
      /\ \A b \in Broadcasters :
          /\ \A d \in batch'[b] : d[2] > 0 /\ (d[2] = 1 => node'[d[1]].status = "ABSENT")
          /\ sent'[b] # NoCall /\ sent'[b].outcome = "rejected" /\ sent'[b].attempts = 1 =>
                node'[sent'[b].transfer].status = "ABSENT"
  BY <1>1, <1>2, <1>3
<1> QED BY <1>4, <1>5 DEF FirstSend, Failed, NoCall

-----------------------------------------------------------------------------
(* wallet-service.                                                         *)

LEMMA HeardIs ==
  /\ \A t : Heard(Broadcasted(t)) = W!TxBroadcasted(t)
  /\ \A t : Heard(Confirmed(t)) = W!TxConfirmed(t)
  /\ \A t, k : k \in FailureKeys => Heard(FailedWith(t, k)) = W!TxFailed(t, k)
<1>1. \A t : Heard(Broadcasted(t)) = W!TxBroadcasted(t)
  BY DEF Heard, Broadcasted
<1>2. \A t : Heard(Confirmed(t)) = W!TxConfirmed(t)
  BY DEF Heard, Confirmed
<1>3. \A k \in FailureKeys : k = <<k[1], k[2]>>
  BY DEF FailureKeys
<1>4. ASSUME NEW t, NEW k \in FailureKeys
      PROVE  Heard(FailedWith(t, k)) = W!TxFailed(t, k)
  <2>1. Heard(FailedWith(t, k)) = W!TxFailed(t, <<k[1], k[2]>>)
    BY DEF Heard, FailedWith
  <2> QED BY <1>3, <2>1
<1> QED BY <1>1, <1>2, <1>4

LEMMA HeardDiffer ==
  /\ \A t, v : /\ W!TxBroadcasted(t) = W!TxBroadcasted(v) => t = v
               /\ W!TxConfirmed(t) = W!TxConfirmed(v) => t = v
               /\ W!TxBroadcasted(t) # W!TxConfirmed(v)
  /\ \A t, v, k, l : /\ W!TxFailed(t, k) = W!TxFailed(v, l) => t = v /\ k = l
                     /\ W!TxFailed(t, k) # W!TxBroadcasted(v)
                     /\ W!TxFailed(t, k) # W!TxConfirmed(v)
BY DEF W!TxBroadcasted, W!TxConfirmed, W!TxFailed

\* A step of wallet-service's own: a transfer is created, its request relayed or
\* its row moved to PROCESSING.
LEMMA WalletSideDoes ==
  ASSUME WalletRowsOK, WalletSide
  PROVE  /\ UNCHANGED <<vars, processed>>
         /\ requests' \in [Transfers -> {"none", "queued", "sent", "published"}]
         /\ \A t \in Transfers :
               \/ /\ status'[t] = status[t]
                  /\ requests'[t] = "none" <=> requests[t] = "none"
               \/ status[t] = "ABSENT" /\ status'[t] = "CREATED" /\ requests'[t] = "queued"
               \/ status[t] = "CREATED" /\ status'[t] = "PROCESSING" /\ requests'[t] = requests[t]
         /\ status' \in [Transfers -> {"ABSENT", "CREATED", "PROCESSING", "BROADCASTED",
                                       "CONFIRMED", "FAILED"}]
<1>0. /\ status \in [Transfers -> {"ABSENT", "CREATED", "PROCESSING", "BROADCASTED",
                                   "CONFIRMED", "FAILED"}]
      /\ requests \in [Transfers -> {"none", "queued", "sent", "published"}]
  BY DEF WalletRowsOK
<1>1. CASE \E k \in Keys, r \in W!Requests, t \in Transfers : W!PostTransfer(k, r, t)
  <2>1. PICK k \in Keys, r \in W!Requests, t \in Transfers : W!PostTransfer(k, r, t)
    BY <1>1
  <2>2. /\ status[t] = "ABSENT" /\ status' = [status EXCEPT ![t] = "CREATED"]
        /\ requests' = [requests EXCEPT ![t] = "queued"] /\ UNCHANGED processed
    BY <2>1 DEF W!PostTransfer, W!consumerRows
  <2> QED BY <1>0, <2>2 DEF WalletSide
<1>2. CASE \E t \in Transfers : W!RelayPublish(t)
  <2>1. PICK t \in Transfers : W!RelayPublish(t)
    BY <1>2
  <2>2. /\ requests[t] # "none" /\ UNCHANGED <<status, processed>>
        /\ requests' \in {[requests EXCEPT ![t] = "published"], [requests EXCEPT ![t] = "sent"]}
    BY <2>1 DEF W!RelayPublish, W!consumerRows
  <2> QED BY <1>0, <2>2 DEF WalletSide
<1>3. CASE W!AdvanceProgress
  <2>1. /\ UNCHANGED <<requests, processed>>
        /\ status' = [t \in Transfers |->
                        IF status[t] = "CREATED" /\ requests[t] = "published"
                        THEN "PROCESSING" ELSE status[t]]
    BY <1>3 DEF W!AdvanceProgress, W!consumerRows
  <2> QED BY <1>0, <2>1 DEF WalletSide
<1> QED BY <1>1, <1>2, <1>3 DEF WalletSide

\* dispatch of an event about t, by the kind of the event.
LEMMA DispatchIsOfRequested ==
  ASSUME NEW t \in Transfers, NEW x, W!Dispatch(x), x.transfer = t, x \in W!TransferEvents
  PROVE  /\ requests[t] \in {"sent", "published"}
         /\ processed' = processed \cup {x} /\ UNCHANGED requests /\ W!Handle(x)
BY DEF W!Dispatch, W!Deliverable

LEMMA OnTxBroadcasted ==
  ASSUME WalletRowsOK, NEW t \in Transfers, W!Dispatch(W!TxBroadcasted(t))
  PROVE  /\ status[t] # "ABSENT" /\ UNCHANGED requests
         /\ processed' = processed \cup {W!TxBroadcasted(t)}
         /\ \/ status[t] \in {"CONFIRMED", "FAILED"} /\ UNCHANGED status
            \/ /\ status[t] \notin {"CONFIRMED", "FAILED"}
               /\ status' = [status EXCEPT ![t] = "BROADCASTED"]
<1> DEFINE x == W!TxBroadcasted(t)
<1>1. x.transfer = t /\ x.type = "tx.broadcasted" /\ x \in W!TransferEvents
  BY DEF W!TxBroadcasted, W!TransferEvents
<1>2. /\ requests[t] \in {"sent", "published"}
      /\ processed' = processed \cup {x} /\ UNCHANGED requests /\ W!Handle(x)
  BY <1>1, DispatchIsOfRequested
<1>3. W!MarkBroadcasted(x)
  BY <1>1, <1>2 DEF W!Handle
<1>4. status[t] # "ABSENT"
  BY <1>2 DEF WalletRowsOK
<1> HIDE DEF x
<1> QED BY <1>1, <1>2, <1>3, <1>4 DEF W!MarkBroadcasted, W!Terminal, x

LEMMA OnTxConfirmed ==
  ASSUME WalletRowsOK, NEW t \in Transfers, W!Dispatch(W!TxConfirmed(t))
  PROVE  /\ status[t] # "ABSENT" /\ UNCHANGED requests
         /\ processed' = processed \cup {W!TxConfirmed(t)}
         /\ \/ status[t] \in {"CONFIRMED", "FAILED"} /\ UNCHANGED status
            \/ /\ status[t] \notin {"CONFIRMED", "FAILED"}
               /\ status' = [status EXCEPT ![t] = "CONFIRMED"]
<1> DEFINE x == W!TxConfirmed(t)
<1>1. x.transfer = t /\ x.type = "tx.confirmed" /\ x \in W!TransferEvents
  BY DEF W!TxConfirmed, W!TransferEvents
<1>2. /\ requests[t] \in {"sent", "published"}
      /\ processed' = processed \cup {x} /\ UNCHANGED requests /\ W!Handle(x)
  BY <1>1, DispatchIsOfRequested
<1>3. W!SettleTransfer(x)
  BY <1>1, <1>2 DEF W!Handle
<1>4. status[t] # "ABSENT"
  BY <1>2 DEF WalletRowsOK
<1> HIDE DEF x
<1> QED BY <1>1, <1>2, <1>3, <1>4 DEF W!SettleTransfer, W!Terminal, x

LEMMA OnTxFailed ==
  ASSUME WalletRowsOK, NEW t \in Transfers, NEW k \in FailureKeys, W!Dispatch(W!TxFailed(t, k))
  PROVE  /\ status[t] # "ABSENT" /\ UNCHANGED requests
         /\ processed' = processed \cup {W!TxFailed(t, k)}
         /\ \/ status[t] = "FAILED" /\ UNCHANGED status
            \/ status[t] # "FAILED" /\ status' = [status EXCEPT ![t] = "FAILED"]
<1> DEFINE x == W!TxFailed(t, k)
<1>1. x.transfer = t /\ x.type = "tx.failed" /\ x \in W!TransferEvents
  BY DEF W!TxFailed, W!TransferEvents
<1>2. /\ requests[t] \in {"sent", "published"}
      /\ processed' = processed \cup {x} /\ UNCHANGED requests /\ W!Handle(x)
  BY <1>1, DispatchIsOfRequested
<1>3. W!FailTransfer(x)
  BY <1>1, <1>2 DEF W!Handle
<1>4. status[t] # "ABSENT"
  BY <1>2 DEF WalletRowsOK
<1> HIDE DEF x
<1>5. \/ status[t] = "FAILED" /\ UNCHANGED status
      \/ status[t] # "FAILED" /\ status' = [status EXCEPT ![t] = "FAILED"]
  BY <1>1, <1>3, <1>4 DEF W!FailTransfer
<1> QED BY <1>2, <1>4, <1>5 DEF x

\* One row of TransfersFollowEvents.
Follows(t) ==
    LET failed == \E k \in FailureKeys : W!TxFailed(t, k) \in processed
        confirmed == W!TxConfirmed(t) \in processed
        broadcasted == W!TxBroadcasted(t) \in processed
    IN status[t] # "ABSENT" =>
          /\ status[t] = "FAILED" <=> failed
          /\ status[t] = "CONFIRMED" <=> confirmed /\ ~failed
          /\ status[t] = "BROADCASTED" <=> broadcasted /\ ~confirmed /\ ~failed

LEMMA FollowsIs == W!TransfersFollowEvents <=> \A t \in Transfers : Follows(t)
BY DEF W!TransfersFollowEvents, Follows

\* A step of the blockchain side leaves wallet-service alone and forgets no event.
LEMMA ChainSideWallet ==
  ASSUME TypeInv, WalletInv, [Next]_vars, UNCHANGED walletVars
  PROVE  WalletInv'
<1>1. UNCHANGED <<status, requests, processed>>
  BY DEF walletVars
<1>2. outbox \subseteq outbox'
  BY OutboxGrows DEF Emit
<1>3. WalletRowsOK'
  BY <1>1 DEF WalletInv, WalletRowsOK, FailureKeys, W!TxBroadcasted, W!TxConfirmed, W!TxFailed
<1>4. AppliedWasSaid'
  <2>1. \A t \in Transfers :
          /\ W!TxConfirmed(t) \in processed' => Confirmed(t) \in outbox'
          /\ \A k \in FailureKeys : W!TxFailed(t, k) \in processed' => FailedWith(t, k) \in outbox'
    BY <1>1, <1>2 DEF WalletInv, AppliedWasSaid
  <2> QED BY <2>1 DEF AppliedWasSaid
<1>5. W!TransfersFollowEvents'
  BY <1>1 DEF WalletInv, W!TransfersFollowEvents
<1> QED BY <1>3, <1>4, <1>5 DEF WalletInv

LEMMA WalletSideWallet ==
  ASSUME WalletInv, WalletSide
  PROVE  WalletInv'
<1>0. WalletRowsOK
  BY DEF WalletInv
<1>1. /\ UNCHANGED <<outbox, processed>>
      /\ requests' \in [Transfers -> {"none", "queued", "sent", "published"}]
      /\ \A t \in Transfers :
            \/ /\ status'[t] = status[t]
               /\ requests'[t] = "none" <=> requests[t] = "none"
            \/ status[t] = "ABSENT" /\ status'[t] = "CREATED" /\ requests'[t] = "queued"
            \/ status[t] = "CREATED" /\ status'[t] = "PROCESSING" /\ requests'[t] = requests[t]
  BY <1>0, WalletSideDoes DEF vars
<1>2. status' \in [Transfers -> {"ABSENT", "CREATED", "PROCESSING", "BROADCASTED",
                                 "CONFIRMED", "FAILED"}]
  BY <1>0, WalletSideDoes
<1>3. WalletRowsOK'
  <2>1. \A t \in Transfers : status'[t] = "ABSENT" <=> requests'[t] = "none"
    BY <1>0, <1>1 DEF WalletRowsOK
  <2>2. \A t \in Transfers : status'[t] = "ABSENT" =>
          /\ W!TxBroadcasted(t) \notin processed' /\ W!TxConfirmed(t) \notin processed'
          /\ \A k \in FailureKeys : W!TxFailed(t, k) \notin processed'
    BY <1>0, <1>1 DEF WalletRowsOK
  <2> QED BY <1>1, <1>2, <2>1, <2>2 DEF WalletRowsOK
<1>4. AppliedWasSaid'
  BY <1>1 DEF WalletInv, AppliedWasSaid
<1>5. ASSUME NEW t \in Transfers PROVE Follows(t)'
  <2>1. Follows(t)
    BY FollowsIs DEF WalletInv
  <2>2. CASE status'[t] = status[t]
    BY <1>1, <2>1, <2>2 DEF Follows
  <2>3. CASE status[t] = "ABSENT" /\ status'[t] = "CREATED"
    BY <1>0, <1>1, <2>3 DEF Follows, WalletRowsOK
  <2>4. CASE status[t] = "CREATED" /\ status'[t] = "PROCESSING"
    BY <1>1, <2>1, <2>4 DEF Follows
  <2> QED BY <1>1, <2>2, <2>3, <2>4
<1>6. W!TransfersFollowEvents'
  BY <1>5 DEF W!TransfersFollowEvents, Follows
<1> QED BY <1>3, <1>4, <1>6 DEF WalletInv

\* dispatch commits an event of the outbox together with its effect.
LEMMA DeliverEventWallet ==
  ASSUME ReportsOK, WalletInv, NEW e \in outbox, DeliverEvent(e)
  PROVE  WalletInv'
<1>0. WalletRowsOK /\ UNCHANGED outbox
  BY DEF WalletInv, DeliverEvent, vars
<1>1. CASE W!DispatchRaises(Heard(e))
  <2>1. UNCHANGED <<status, requests, processed, outbox>>
    BY <1>0, <1>1 DEF W!DispatchRaises, W!transferRows
  <2>2. WalletRowsOK'
    BY <1>0, <2>1 DEF WalletRowsOK
  <2>3. AppliedWasSaid'
    BY <2>1 DEF WalletInv, AppliedWasSaid
  <2>4. W!TransfersFollowEvents'
    BY <2>1 DEF WalletInv, W!TransfersFollowEvents
  <2> QED BY <2>2, <2>3, <2>4 DEF WalletInv
<1>2. CASE W!Dispatch(Heard(e))
  <2>0. PICK t \in Transfers : \/ e = Broadcasted(t) \/ e = Confirmed(t)
                               \/ \E k \in FailureKeys : e = FailedWith(t, k)
    BY DEF ReportsOK
  <2> DEFINE Statuses == {"ABSENT", "CREATED", "PROCESSING", "BROADCASTED", "CONFIRMED", "FAILED"}
  <2>1. /\ status[t] # "ABSENT" /\ UNCHANGED requests
        /\ status' \in [Transfers -> Statuses] /\ status'[t] # "ABSENT"
        /\ \A u \in Transfers \ {t} : /\ status'[u] = status[u]
                                      /\ W!TxBroadcasted(u) \in processed' <=> W!TxBroadcasted(u) \in processed
                                      /\ W!TxConfirmed(u) \in processed' <=> W!TxConfirmed(u) \in processed
                                      /\ \A k \in FailureKeys :
                                            W!TxFailed(u, k) \in processed' <=> W!TxFailed(u, k) \in processed
        /\ W!TxConfirmed(t) \in processed' => Confirmed(t) \in outbox
        /\ \A k \in FailureKeys : W!TxFailed(t, k) \in processed' => FailedWith(t, k) \in outbox
        /\ Follows(t)'
    <3>0. /\ status \in [Transfers -> Statuses] /\ Follows(t)
          /\ W!TxConfirmed(t) \in processed => Confirmed(t) \in outbox
          /\ \A k \in FailureKeys : W!TxFailed(t, k) \in processed => FailedWith(t, k) \in outbox
      BY <1>0, FollowsIs DEF WalletInv, WalletRowsOK, AppliedWasSaid
    <3>1. CASE e = Broadcasted(t)
      <4>1. W!Dispatch(W!TxBroadcasted(t))
        BY <1>2, <3>1, HeardIs
      <4>2. /\ status[t] # "ABSENT" /\ UNCHANGED requests
            /\ processed' = processed \cup {W!TxBroadcasted(t)}
            /\ \/ status[t] \in {"CONFIRMED", "FAILED"} /\ UNCHANGED status
               \/ /\ status[t] \notin {"CONFIRMED", "FAILED"}
                  /\ status' = [status EXCEPT ![t] = "BROADCASTED"]
        BY <1>0, <4>1, OnTxBroadcasted
      <4>3. /\ \A u \in Transfers \ {t} :
                  W!TxBroadcasted(u) \in processed' <=> W!TxBroadcasted(u) \in processed
            /\ \A u \in Transfers :
                  W!TxConfirmed(u) \in processed' <=> W!TxConfirmed(u) \in processed
            /\ \A u \in Transfers, k \in FailureKeys :
                  W!TxFailed(u, k) \in processed' <=> W!TxFailed(u, k) \in processed
            /\ W!TxBroadcasted(t) \in processed'
        BY <4>2, HeardDiffer
      <4>4. Follows(t)'
        BY <3>0, <4>2, <4>3 DEF Follows
      <4> QED BY <3>0, <4>2, <4>3, <4>4
    <3>2. CASE e = Confirmed(t)
      <4>1. W!Dispatch(W!TxConfirmed(t))
        BY <1>2, <3>2, HeardIs
      <4>2. /\ status[t] # "ABSENT" /\ UNCHANGED requests
            /\ processed' = processed \cup {W!TxConfirmed(t)}
            /\ \/ status[t] \in {"CONFIRMED", "FAILED"} /\ UNCHANGED status
               \/ /\ status[t] \notin {"CONFIRMED", "FAILED"}
                  /\ status' = [status EXCEPT ![t] = "CONFIRMED"]
        BY <1>0, <4>1, OnTxConfirmed
      <4>3. /\ \A u \in Transfers \ {t} :
                  W!TxConfirmed(u) \in processed' <=> W!TxConfirmed(u) \in processed
            /\ \A u \in Transfers :
                  W!TxBroadcasted(u) \in processed' <=> W!TxBroadcasted(u) \in processed
            /\ \A u \in Transfers, k \in FailureKeys :
                  W!TxFailed(u, k) \in processed' <=> W!TxFailed(u, k) \in processed
            /\ W!TxConfirmed(t) \in processed'
        BY <4>2, HeardDiffer
      <4>4. Follows(t)'
        BY <3>0, <4>2, <4>3 DEF Follows
      <4> QED BY <3>0, <3>2, <4>2, <4>3, <4>4
    <3>3. CASE \E k \in FailureKeys : e = FailedWith(t, k)
      <4>0. PICK k \in FailureKeys : e = FailedWith(t, k)
        BY <3>3
      <4>1. W!Dispatch(W!TxFailed(t, k))
        BY <1>2, <4>0, HeardIs
      <4>2. /\ status[t] # "ABSENT" /\ UNCHANGED requests
            /\ processed' = processed \cup {W!TxFailed(t, k)}
            /\ \/ status[t] = "FAILED" /\ UNCHANGED status
               \/ status[t] # "FAILED" /\ status' = [status EXCEPT ![t] = "FAILED"]
        BY <1>0, <4>1, OnTxFailed
      <4>3. /\ \A u \in Transfers :
                  /\ W!TxConfirmed(u) \in processed' <=> W!TxConfirmed(u) \in processed
                  /\ W!TxBroadcasted(u) \in processed' <=> W!TxBroadcasted(u) \in processed
            /\ \A u \in Transfers \ {t}, l \in FailureKeys :
                  W!TxFailed(u, l) \in processed' <=> W!TxFailed(u, l) \in processed
            /\ \A l \in FailureKeys : W!TxFailed(t, l) \in processed' =>
                  W!TxFailed(t, l) \in processed \/ l = k
            /\ W!TxFailed(t, k) \in processed'
        BY <4>2, HeardDiffer
      <4>4. Follows(t)'
        <5>1. status'[t] = "FAILED"
          BY <3>0, <4>2
        <5>2. \E l \in FailureKeys : W!TxFailed(t, l) \in processed'
          BY <4>3
        <5> QED BY <5>1, <5>2 DEF Follows
      <4>5. \A l \in FailureKeys : W!TxFailed(t, l) \in processed' => FailedWith(t, l) \in outbox
        BY <3>0, <4>0, <4>3
      <4> QED BY <3>0, <4>2, <4>3, <4>4, <4>5
    <3> QED BY <2>0, <3>1, <3>2, <3>3
  <2>2. WalletRowsOK'
    <3>1. \A u \in Transfers : status'[u] = "ABSENT" <=> requests'[u] = "none"
      BY <1>0, <2>1 DEF WalletRowsOK
    <3>2. \A u \in Transfers : status'[u] = "ABSENT" =>
            /\ W!TxBroadcasted(u) \notin processed' /\ W!TxConfirmed(u) \notin processed'
            /\ \A k \in FailureKeys : W!TxFailed(u, k) \notin processed'
      BY <1>0, <2>1 DEF WalletRowsOK
    <3>3. requests' \in [Transfers -> {"none", "queued", "sent", "published"}]
      BY <1>0, <2>1 DEF WalletRowsOK
    <3> QED BY <2>1, <3>1, <3>2, <3>3 DEF WalletRowsOK
  <2>3. AppliedWasSaid'
    BY <1>0, <2>1 DEF WalletInv, AppliedWasSaid
  <2>4. ASSUME NEW u \in Transfers PROVE Follows(u)'
    <3>1. Follows(u)
      BY FollowsIs DEF WalletInv
    <3>2. CASE u = t
      BY <2>1, <3>2
    <3>3. CASE u # t
      BY <2>1, <3>1, <3>3 DEF Follows
    <3> QED BY <3>2, <3>3
  <2>5. W!TransfersFollowEvents'
    BY <2>4 DEF W!TransfersFollowEvents, Follows
  <2> QED BY <2>2, <2>3, <2>5 DEF WalletInv
<1> QED BY <1>1, <1>2 DEF DeliverEvent

-----------------------------------------------------------------------------
(* Both together.                                                          *)

\* A step of the composition is a step of blockchain-service or none.
LEMMA OutgoingSteps ==
  ASSUME [NextStep]_allVars
  PROVE  [Next]_vars
BY DEF NextStep, allVars, WalletSide, DeliverRequest, ChainSide, DeliverEvent, Next

LEMMA WalletSteps ==
  ASSUME TypeInv, ReportsOK, WalletInv, [NextStep]_allVars
  PROVE  WalletInv'
<1>0. [Next]_vars
  BY OutgoingSteps
<1>1. CASE UNCHANGED walletVars
  BY <1>0, <1>1, ChainSideWallet
<1>2. CASE WalletSide
  BY <1>2, WalletSideWallet
<1>3. CASE \E e \in outbox : DeliverEvent(e)
  BY <1>3, DeliverEventWallet
<1> QED BY <1>1, <1>2, <1>3 DEF NextStep, allVars, DeliverRequest, ChainSide

\* What holds whatever the number of broadcasters.
AnyInv == TypeInv /\ NodeInv /\ WalletInv

LEMMA AnyInitial ==
  InitFunded => AnyInv
<1> SUFFICES ASSUME InitFunded PROVE AnyInv
  OBVIOUS
<1>0. Init /\ TypeInv
  BY TypeInitial DEF InitFunded
<1>1. \A t \in Transfers : /\ outgoing[t].status = "ABSENT" /\ outgoing[t].attempts = 0
                           /\ node[t].status = "ABSENT"
  BY <1>0 DEF Init, NoRecord, Unknown
<1>2. NodeInv
  BY <1>0, <1>1 DEF Init, NodeInv, ReportsOK, WatchHeadOK, WatchFresh, ConfirmedIsDeep,
     RevertedIsTrue, OnlyCustodied, Committing, NoWatch
<1>3. /\ processed = {W!Confirmed(Funding, FundingBlock)}
      /\ \A t \in Transfers : status[t] = "ABSENT" /\ requests[t] = "none"
  BY DEF InitFunded
<1>4. \A t, k : /\ W!TxBroadcasted(t) \notin processed /\ W!TxConfirmed(t) \notin processed
                /\ W!TxFailed(t, k) \notin processed
  BY <1>3 DEF W!TxBroadcasted, W!TxConfirmed, W!TxFailed, W!Confirmed
<1>5. WalletRowsOK
  BY <1>3, <1>4 DEF InitFunded, WalletRowsOK
<1>6. AppliedWasSaid
  BY <1>4 DEF AppliedWasSaid
<1>7. W!TransfersFollowEvents
  BY <1>3 DEF W!TransfersFollowEvents
<1> QED BY <1>0, <1>2, <1>5, <1>6, <1>7 DEF AnyInv, WalletInv

LEMMA AnyInductive ==
  AnyInv /\ [NextStep]_allVars => AnyInv'
<1> SUFFICES ASSUME AnyInv, [NextStep]_allVars PROVE AnyInv'
  OBVIOUS
<1>0. [Next]_vars /\ TypeInv /\ NodeInv /\ WalletInv
  BY OutgoingSteps DEF AnyInv
<1>1. TypeInv'
  BY <1>0, TypeStep
<1>2. ReportsOK' /\ WatchHeadOK' /\ WatchFresh'
  BY <1>0, ReportsStep, WatchStep DEF NodeInv
<1>3. ConfirmedIsDeep' /\ RevertedIsTrue' /\ OnlyCustodied'
  BY <1>0, ConfirmedStep, RevertedStep, CustodyStep DEF NodeInv
<1>4. WalletInv'
  BY <1>0, WalletSteps DEF NodeInv
<1> QED BY <1>1, <1>2, <1>3, <1>4 DEF AnyInv, NodeInv

\* The user pays only for what the chain has done, whatever the number of
\* broadcasters, transfers and crashes: while no block was ever orphaned, a
\* transfer settle_transfer has debited is mined at least
\* confirmations_required deep.
THEOREM PaidIsMined == SettlementSpec => []DebitsAreMined
<1>1. AnyInv => DebitsAreMined
  <2> SUFFICES ASSUME AnyInv, NEW t \in Transfers, forks = 0, status[t] = "CONFIRMED"
               PROVE  node[t].status = "MINED" /\ head - node[t].block.number + 1 >= Required
    BY DEF DebitsAreMined
  <2>1. W!TxConfirmed(t) \in processed
    BY DEF AnyInv, WalletInv, W!TransfersFollowEvents
  <2>2. Confirmed(t) \in outbox
    BY <2>1 DEF AnyInv, WalletInv, AppliedWasSaid
  <2> QED BY <2>2 DEF AnyInv, NodeInv, ConfirmedIsDeep
<1> QED BY <1>1, AnyInitial, AnyInductive, PTL DEF SettlementSpec

\* With one broadcaster, also the record of each transfer and its first send.
SettlementInv == IInv /\ FirstSend /\ AnyInv

LEMMA SettlementInitial ==
  OneBroadcaster /\ InitFunded => SettlementInv
<1> SUFFICES ASSUME OneBroadcaster, InitFunded PROVE SettlementInv
  OBVIOUS
<1>1. Init /\ IInv /\ AnyInv
  BY Initial, AnyInitial DEF InitFunded
<1>2. FirstSend
  BY <1>1 DEF Init, FirstSend, NoRecord, Unknown
<1> QED BY <1>1, <1>2 DEF SettlementInv

LEMMA SettlementInductive ==
  SettlementInv /\ [NextStep]_allVars => SettlementInv'
<1> SUFFICES ASSUME SettlementInv, [NextStep]_allVars PROVE SettlementInv'
  OBVIOUS
<1>1. [Next]_vars /\ IInv /\ FirstSend /\ AnyInv
  BY OutgoingSteps DEF SettlementInv
<1> QED BY <1>1, Inductive, FirstSendStep, AnyInductive DEF SettlementInv

\* With one broadcaster, both services tell the same story about a transfer once
\* wallet-service has applied what was said about it: the order of dispatch, the
\* duplicates, the retries, the crashes and the reorganisations do not matter.
THEOREM StoriesAgree == OneBroadcaster /\ SettlementSpec => []ServicesAgree
<1>1. SettlementInv => ServicesAgree
  <2> SUFFICES ASSUME SettlementInv, NEW t \in Transfers, CaughtUp(t), status[t] # "ABSENT"
               PROVE  /\ status[t] = "CONFIRMED" <=> outgoing[t].status = "CONFIRMED"
                      /\ status[t] = "FAILED" <=> outgoing[t].status \in {"FAILED", "REORGED"}
    BY DEF ServicesAgree
  <2>0. /\ ReportsOK /\ AppliedWasSaid /\ Follows(t) /\ EventsMatchRecord /\ ConfirmedOnce
        /\ outgoing[t].status \in TxStatus \cup {"ABSENT"}
    BY FollowsIs DEF SettlementInv, AnyInv, NodeInv, WalletInv, IInv, Bookkeeping, TypeInv, TypeOK
  <2>1. (\E k \in FailureKeys : W!TxFailed(t, k) \in processed) <=> FailedEvents(t) # {}
    <3>1. ASSUME NEW k \in FailureKeys, W!TxFailed(t, k) \in processed
          PROVE  FailedEvents(t) # {}
      <4>1. FailedWith(t, k) \in outbox
        BY <2>0, <3>1 DEF AppliedWasSaid
      <4> QED BY <4>1 DEF FailedEvents, FailedWith
    <3>2. ASSUME NEW e \in FailedEvents(t)
          PROVE  \E k \in FailureKeys : W!TxFailed(t, k) \in processed
      <4>1. e \in outbox /\ e.type = "tx.failed" /\ e.transfer = t
        BY DEF FailedEvents
      <4>2. PICK u \in Transfers : \/ e = Broadcasted(u) \/ e = Confirmed(u)
                                   \/ \E k \in FailureKeys : e = FailedWith(u, k)
        BY <2>0, <4>1 DEF ReportsOK
      <4>3. PICK k \in FailureKeys : e = FailedWith(u, k)
        BY <4>1, <4>2 DEF Broadcasted, Confirmed
      <4>4. u = t
        BY <4>1, <4>3 DEF FailedWith
      <4>5. Heard(e) = W!TxFailed(t, k)
        BY <4>3, <4>4, HeardIs
      <4> QED BY <4>1, <4>5 DEF CaughtUp
    <3> QED BY <3>1, <3>2
  <2>2. W!TxConfirmed(t) \in processed <=> Confirmed(t) \in outbox
    <3>1. ASSUME Confirmed(t) \in outbox PROVE W!TxConfirmed(t) \in processed
      <4>1. Confirmed(t).transfer = t
        BY DEF Confirmed
      <4>2. Heard(Confirmed(t)) \in processed
        BY <3>1, <4>1 DEF CaughtUp
      <4> QED BY <4>2, HeardIs
    <3> QED BY <2>0, <3>1 DEF AppliedWasSaid
  <2>3. outgoing[t].status \in {"FAILED", "REORGED"} <=> FailedEvents(t) # {}
    BY <2>0 DEF EventsMatchRecord
  <2>4. status[t] = "FAILED" <=> outgoing[t].status \in {"FAILED", "REORGED"}
    BY <2>0, <2>1, <2>3 DEF Follows
  <2>5. FailedEvents(t) = {} =>
           (outgoing[t].status = "CONFIRMED" <=> Confirmed(t) \in outbox)
    BY <2>0, <2>3 DEF EventsMatchRecord, ConfirmedOnce, TxStatus
  <2>6. status[t] = "CONFIRMED" <=> outgoing[t].status = "CONFIRMED"
    BY <2>0, <2>1, <2>2, <2>3, <2>5 DEF Follows
  <2> QED BY <2>4, <2>6
<1> QED BY <1>1, SettlementInitial, SettlementInductive, PTL DEF SettlementSpec

\* With one broadcaster, a refund that says the chain has refused the transfer is
\* true: while no block was ever orphaned, one that accept_transfer_request
\* refused, that reverted, or whose first send the node rejected is not mined.
THEOREM RefundsAreTrue == OneBroadcaster /\ SettlementSpec => []RefusalsAreTrue
<1>1. SettlementInv => RefusalsAreTrue
  <2> SUFFICES ASSUME SettlementInv, NEW t \in Transfers, forks = 0,
                      NEW e \in FailedEvents(t),
                      \/ e.code \in {"REVERTED_ON_CHAIN", "UNKNOWN_SENDING_ADDRESS"}
                      \/ e.code = "REJECTED_BY_NODE" /\ outgoing[t].attempts = 1
               PROVE  node[t].status # "MINED"
    BY DEF RefusalsAreTrue
  <2>0. ReportsOK /\ RevertedIsTrue /\ OnlyCustodied /\ FirstSend
    BY DEF SettlementInv, AnyInv, NodeInv
  <2>1. e \in outbox /\ e.type = "tx.failed" /\ e.transfer = t
    BY DEF FailedEvents
  <2>2. PICK u \in Transfers : \/ e = Broadcasted(u) \/ e = Confirmed(u)
                               \/ \E k \in FailureKeys : e = FailedWith(u, k)
    BY <2>0, <2>1 DEF ReportsOK
  <2>3. PICK k \in FailureKeys : e = FailedWith(u, k)
    BY <2>1, <2>2 DEF Broadcasted, Confirmed
  <2>4. u = t /\ e.code = k[1]
    BY <2>1, <2>3 DEF FailedWith
  <2>5. k[1] # "CHAIN_REORG" => k = <<k[1], NoBlock>>
    BY DEF FailureKeys
  <2>6. e.code # "CHAIN_REORG" => e = Failed(t, e.code)
    BY <2>3, <2>4, <2>5, FailedKeys
  <2>7. CASE e.code = "REVERTED_ON_CHAIN"
    BY <2>0, <2>1, <2>6, <2>7 DEF RevertedIsTrue
  <2>8. CASE e.code = "UNKNOWN_SENDING_ADDRESS"
    BY <2>0, <2>1, <2>6, <2>8 DEF OnlyCustodied
  <2>9. CASE e.code = "REJECTED_BY_NODE" /\ outgoing[t].attempts = 1
    BY <2>0, <2>1, <2>6, <2>9 DEF FirstSend
  <2> QED BY <2>7, <2>8, <2>9
<1> QED BY <1>1, SettlementInitial, SettlementInductive, PTL DEF SettlementSpec
=============================================================================
