--------------------------- MODULE OutgoingProofs ---------------------------
(***************************************************************************)
(* Invariants of Outgoing proved for every set of transfers, every number   *)
(* of attempts, depth and batch size, and a chain of any height with any    *)
(* number of reorganisations and failed passes.                             *)
(***************************************************************************)
EXTENDS Outgoing, TLAPS
LOCAL INSTANCE FiniteSetsExt

-----------------------------------------------------------------------------
(* Strengthenings. None is a goal of its own.                              *)

\* One copy of BroadcastWorker runs, or none: the deployment starts a single
\* worker of blockchain-service.
OneBroadcaster == \A a, b \in Broadcasters : a = b

Records ==
    [status : TxStatus \cup {"ABSENT"}, attempts : Nat, hash : BOOLEAN, block : Blocks]
NodeRecords == [status : NodeStatus, block : Blocks]

\* Rows, claims and calls have the shape of their tables and of the statements
\* that fill them; what the watcher has read from the node is a row of it.
RowsShaped == outgoing \in [Transfers -> Records] /\ node \in [Transfers -> NodeRecords]
PassesShaped ==
    /\ batch \in [Broadcasters -> SUBSET (Transfers \X Nat)]
    /\ DOMAIN sent = Broadcasters
    /\ \A b \in Broadcasters : sent[b] # NoCall =>
          /\ sent[b].transfer \in Transfers /\ sent[b].attempts \in Nat
          /\ sent[b].outcome \in {"ok", "rejected", "unavailable", "error"}
WatchShaped ==
    /\ watch.phase \in {"idle", "list", "receipt", "commit"}
    /\ watch.phase \in {"receipt", "commit"} => watch.todo \subseteq Transfers
    /\ watch.phase = "commit" =>
          watch.row \in Transfers \ watch.todo /\ watch.receipt \in NodeRecords
TypeInv == TypeOK /\ RowsShaped /\ PassesShaped /\ WatchShaped

\* The rows a pass of the broadcaster has claimed are still PENDING, with the
\* attempts the claim has charged, and each of them is sent once.
ClaimsHold ==
    \A b \in Broadcasters :
        /\ \A d \in batch[b] : /\ outgoing[d[1]].status = "PENDING"
                               /\ outgoing[d[1]].attempts = d[2]
        /\ \A d, e \in batch[b] : d[1] = e[1] => d = e
        /\ sent[b] # NoCall =>
              /\ outgoing[sent[b].transfer].status = "PENDING"
              /\ outgoing[sent[b].transfer].attempts = sent[b].attempts
              /\ \A d \in batch[b] : d[1] # sent[b].transfer

Watched == {"BROADCASTED", "CONFIRMED"}

\* The rows the watcher has listed are nobody else's: their status is what it
\* was, and so is what _check_one has read of the row it is about to write.
WatchHolds ==
    /\ watch.phase \in {"receipt", "commit"} =>
          \A t \in watch.todo : outgoing[t].status \in Watched
    /\ watch.phase = "commit" =>
          /\ outgoing[watch.row].status \in Watched
          /\ watch.status = outgoing[watch.row].status
          /\ watch.attempts = outgoing[watch.row].attempts

\* A transaction is confirmed once: no event says so before.
ConfirmedOnce ==
    \A t \in Transfers : outgoing[t].status = "BROADCASTED" => Confirmed(t) \notin outbox

\* A row nobody works on has an attempt left, or a failed pass has taken one.
InFlight(t) ==
    \E b \in Broadcasters : \/ \E d \in batch[b] : d[1] = t
                            \/ sent[b] # NoCall /\ sent[b].transfer = t
BudgetLeft ==
    \A t \in Transfers :
        outgoing[t].status \in {"ABSENT", "CREATED", "PENDING"} /\ ~InFlight(t) =>
            outgoing[t].attempts < MaxAttempts + faults

Bookkeeping ==
    /\ ClaimsHold /\ WatchHolds /\ ConfirmedOnce
    /\ BudgetLeft /\ EventsMatchRecord /\ RetryBudgetIsFinite
IInv == OneBroadcaster /\ TypeInv /\ Bookkeeping

-----------------------------------------------------------------------------
(* Operators of the model.                                                 *)

LEMMA MaxOfTwo ==
  ASSUME NEW m \in Int, NEW n \in Int
  PROVE  Max({m, n}) = IF m >= n THEN m ELSE n
<1>1. CASE m >= n
  BY <1>1 DEF Max
<1>2. CASE ~(m >= n)
  BY <1>2 DEF Max
<1> QED BY <1>1, <1>2

\* The status of a row is written; its attempts and the other rows are not.
RowWritten(t, s) ==
    /\ outgoing' \in [Transfers -> Records]
    /\ outgoing'[t].status = s /\ outgoing'[t].attempts = outgoing[t].attempts
    /\ \A u \in Transfers \ {t} : outgoing'[u] = outgoing[u]

LEMMA SetWrites ==
  ASSUME RowsShaped, NEW t \in Transfers, NEW s \in TxStatus, Set(t, s)
  PROVE  RowWritten(t, s)
<1>1. outgoing \in [Transfers -> Records] /\ outgoing' = [outgoing EXCEPT ![t].status = s]
  BY DEF RowsShaped, Set
<1>2. outgoing' \in [Transfers -> Records]
  BY <1>1 DEF Records
<1> QED BY <1>1, <1>2 DEF RowWritten, Records

LEMMA BroadcastWrites ==
  ASSUME RowsShaped, NEW t \in Transfers, RecordBroadcast(t),
         outgoing[t].status \notin {"CONFIRMED", "FAILED"}
  PROVE  RowWritten(t, "BROADCASTED") /\ Emit(Broadcasted(t))
<1>1. /\ outgoing \in [Transfers -> Records]
      /\ outgoing' = [outgoing EXCEPT ![t].status = "BROADCASTED", ![t].hash = TRUE]
      /\ Emit(Broadcasted(t))
  BY DEF RowsShaped, RecordBroadcast
<1>2. outgoing' \in [Transfers -> Records]
  BY <1>1 DEF Records, TxStatus
<1> QED BY <1>1, <1>2 DEF RowWritten, Records

LEMMA ReceiptWrites ==
  ASSUME RowsShaped, NEW t \in Transfers, NEW s \in TxStatus \cup {"ABSENT"}, NEW b \in Blocks,
         outgoing' = [outgoing EXCEPT ![t].block = b, ![t].status = s]
  PROVE  RowWritten(t, s)
<1>1. outgoing \in [Transfers -> Records]
  BY DEF RowsShaped
<1>2. outgoing' \in [Transfers -> Records]
  BY <1>1 DEF Records
<1> QED BY <1>1, <1>2 DEF RowWritten, Records

LEMMA ClaimWrites ==
  ASSUME NEW r \in Records, NEW n \in Nat
  PROVE  [r EXCEPT !.status = "PENDING", !.attempts = n] \in Records
BY DEF Records, TxStatus

LEMMA NextRowIs ==
  ASSUME NEW h, NEW todo
  PROVE  /\ NextRow(h, todo).phase \in {"idle", "receipt"}
         /\ NextRow(h, todo).phase = "receipt" => NextRow(h, todo).todo = todo
BY DEF NextRow, NoWatch

-----------------------------------------------------------------------------
(* Type correctness, whatever the number of broadcasters.                  *)

NodeOK ==
    \A t \in Transfers :
        /\ Canonical(t) <=> node[t].block # NoBlock
        /\ node[t].block.number <= head
Counters == head \in 1 .. MaxHead /\ forks \in 0 .. MaxReorgs /\ faults \in 0 .. MaxFaults

LEMMA TypeInvParts ==
  TypeInv => NodeOK /\ Counters
BY DEF TypeInv, TypeOK, NodeOK, Counters

\* The node's rows through a block, a reorganisation and a submission.
LEMMA MineBlockType ==
  ASSUME TypeInv, MineBlock
  PROVE  node' \in [Transfers -> NodeRecords] /\ NodeOK' /\ Counters'
<1> USE SettingsAssumption, BoundsAssumption
<1>0. NodeOK /\ Counters /\ node \in [Transfers -> NodeRecords]
  BY TypeInvParts DEF TypeInv, RowsShaped
<1>1. Counters'
  BY <1>0 DEF Counters, MineBlock
<1> DEFINE new == [number |-> head + 1, fork |-> forks]
<1>2. new \in Blocks /\ new # NoBlock /\ new.number = head + 1
  BY <1>0 DEF Counters, MineBlock, Blocks, NoBlock
<1>3. PICK included \in SUBSET Transfers : \E reverted \in SUBSET included :
         node' = [t \in Transfers |->
                     IF t \in included
                     THEN [status |-> IF t \in reverted THEN "FAILED" ELSE "MINED", block |-> new]
                     ELSE node[t]]
  BY DEF MineBlock, InMempool
<1>4. PICK reverted \in SUBSET included :
         node' = [t \in Transfers |->
                     IF t \in included
                     THEN [status |-> IF t \in reverted THEN "FAILED" ELSE "MINED", block |-> new]
                     ELSE node[t]]
  BY <1>3
<1> HIDE DEF new
<1>5. node' \in [Transfers -> NodeRecords]
  BY <1>0, <1>2, <1>4 DEF NodeRecords, NodeStatus
<1>6. ASSUME NEW t \in Transfers
      PROVE  /\ node'[t].status \in {"MINED", "FAILED"} <=> node'[t].block # NoBlock
             /\ node'[t].block.number <= head'
  <2>1. head' = head + 1 /\ head \in Int
    BY <1>0 DEF MineBlock, Counters
  <2>2. CASE t \in included
    BY <1>2, <1>4, <2>1, <2>2
  <2>3. CASE t \notin included
    <3>1. node'[t] = node[t]
      BY <1>4, <2>3
    <3>2. node[t].block.number \in Int
      BY <1>0 DEF NodeRecords, Blocks
    <3> QED BY <1>0, <2>1, <3>1, <3>2 DEF NodeOK, Canonical
  <2> QED BY <2>2, <2>3
<1> QED BY <1>1, <1>5, <1>6 DEF NodeOK, Canonical

LEMMA OrphanType ==
  ASSUME TypeInv, NEW d \in 1 .. MaxDepth, NEW drop \in SUBSET Transfers, Orphan(d, drop)
  PROVE  node' \in [Transfers -> NodeRecords] /\ NodeOK' /\ Counters'
<1> USE SettingsAssumption, BoundsAssumption
<1>0. NodeOK /\ Counters /\ node \in [Transfers -> NodeRecords]
  BY TypeInvParts DEF TypeInv, RowsShaped
<1> DEFINE keep == Max({1, head - d})
           reverted == {t \in Transfers : Canonical(t) /\ node[t].block.number > keep}
<1>1. keep \in Int /\ 1 <= keep
  BY <1>0, MaxOfTwo DEF Counters
<1>2. /\ forks < MaxReorgs /\ keep < head /\ forks' = forks + 1 /\ head' = keep
      /\ faults' = faults
      /\ node' = [t \in Transfers |->
                     IF t \in reverted
                     THEN [status |-> IF t \in drop THEN "DROPPED" ELSE "PENDING",
                           block |-> NoBlock]
                     ELSE node[t]]
  BY DEF Orphan
<1> HIDE DEF keep
<1>3. Counters'
  BY <1>0, <1>1, <1>2 DEF Counters
<1>4. NoBlock \in Blocks /\ NoBlock.number = 0
  BY DEF NoBlock, Blocks
<1>5. node' \in [Transfers -> NodeRecords]
  BY <1>0, <1>2, <1>4 DEF NodeRecords, NodeStatus
<1>6. ASSUME NEW t \in Transfers
      PROVE  /\ node'[t].status \in {"MINED", "FAILED"} <=> node'[t].block # NoBlock
             /\ node'[t].block.number <= head'
  <2>1. CASE t \in reverted
    BY <1>1, <1>2, <1>4, <2>1
  <2>2. CASE t \notin reverted
    <3>1. node'[t] = node[t]
      BY <1>2, <2>2
    <3>2. node[t].block.number \in Int
      BY <1>0 DEF NodeRecords, Blocks
    <3>3. CASE Canonical(t)
      BY <1>0, <1>1, <1>2, <2>2, <3>1, <3>2, <3>3 DEF NodeOK, Canonical
    <3>4. CASE ~Canonical(t)
      <4>1. node[t].block = NoBlock
        BY <1>0, <3>4 DEF NodeOK
      <4> QED BY <1>0, <1>1, <1>2, <1>4, <3>1, <3>4, <4>1 DEF NodeOK, Canonical
    <3> QED BY <3>3, <3>4
  <2> QED BY <2>1, <2>2
<1> QED BY <1>3, <1>5, <1>6 DEF NodeOK, Canonical

LEMMA SubmittedType ==
  ASSUME TypeInv, NEW t \in Transfers
  PROVE  /\ Submitted(t) \in [Transfers -> NodeRecords]
         /\ \A u \in Transfers : LET n == Submitted(t)[u] IN
               /\ n.status \in {"MINED", "FAILED"} <=> n.block # NoBlock
               /\ n.block.number <= head
<1>0. NodeOK /\ Counters /\ node \in [Transfers -> NodeRecords]
  BY TypeInvParts DEF TypeInv, RowsShaped
<1>1. NoBlock \in Blocks /\ NoBlock.number = 0
  BY BoundsAssumption DEF NoBlock, Blocks
<1>2. Submitted(t) \in [Transfers -> NodeRecords]
  BY <1>0, <1>1 DEF Submitted, NodeRecords, NodeStatus
<1>3. ASSUME NEW u \in Transfers
      PROVE  LET n == Submitted(t)[u] IN
               /\ n.status \in {"MINED", "FAILED"} <=> n.block # NoBlock
               /\ n.block.number <= head
  <2>1. CASE u = t /\ node[t].status = "ABSENT"
    <3>1. Submitted(t)[u] = [status |-> "PENDING", block |-> NoBlock]
      BY <1>0, <2>1 DEF Submitted
    <3> QED BY <1>0, <1>1, <3>1 DEF Counters
  <2>2. CASE ~(u = t /\ node[t].status = "ABSENT")
    <3>1. Submitted(t)[u] = node[u]
      BY <1>0, <2>2 DEF Submitted
    <3> QED BY <1>0, <3>1 DEF NodeOK, Canonical
  <2> QED BY <2>1, <2>2
<1> QED BY <1>2, <1>3

LEMMA NodeStepType ==
  ASSUME TypeInv, MineBlock \/ \E d \in 1 .. MaxDepth, drop \in SUBSET Transfers : Orphan(d, drop)
  PROVE  TypeInv'
<1>1. node' \in [Transfers -> NodeRecords] /\ NodeOK' /\ Counters'
  BY MineBlockType, OrphanType
<1>2. UNCHANGED <<outgoing, batch, sent, watch>>
  BY DEF MineBlock, Orphan, broadcaster
<1>3. RowsShaped' /\ PassesShaped' /\ WatchShaped'
  BY <1>1, <1>2 DEF TypeInv, RowsShaped, PassesShaped, WatchShaped
<1>4. TypeOK'
  BY <1>1, <1>3 DEF TypeOK, NodeOK, Counters, RowsShaped, Records, NodeRecords, Canonical
<1> QED BY <1>3, <1>4 DEF TypeInv

\* A step that leaves the chain and the failures alone.
LEMMA RowStepType ==
  ASSUME TypeInv, outgoing' \in [Transfers -> Records], UNCHANGED <<node, head, forks, faults>>,
         PassesShaped', WatchShaped'
  PROVE  TypeInv'
<1>1. NodeOK' /\ Counters' /\ RowsShaped'
  BY TypeInvParts DEF TypeInv, NodeOK, Counters, RowsShaped, Canonical
<1>2. TypeOK'
  BY <1>1 DEF TypeOK, NodeOK, Counters, RowsShaped, Records, NodeRecords, Canonical
<1> QED BY <1>1, <1>2 DEF TypeInv

LEMMA AcceptType ==
  ASSUME TypeInv, NEW t \in Transfers, AcceptTransferRequest(t)
  PROVE  TypeInv'
<1>1. outgoing' \in [Transfers -> Records]
  BY SetWrites DEF AcceptTransferRequest, TypeInv, TxStatus, RowWritten
<1>2. PassesShaped' /\ WatchShaped' /\ UNCHANGED <<node, head, forks, faults>>
  BY DEF AcceptTransferRequest, chainVars, broadcaster, TypeInv, PassesShaped, WatchShaped
<1> QED BY <1>1, <1>2, RowStepType

LEMMA ClaimType ==
  ASSUME TypeInv, NEW b \in Broadcasters, NEW S \in SUBSET Claimable, Claim(b, S)
  PROVE  TypeInv'
<1>1. outgoing \in [Transfers -> Records] /\ S \subseteq Transfers
  BY DEF TypeInv, RowsShaped, Claimable
<1>2. outgoing' \in [Transfers -> Records]
  <2>1. ASSUME NEW t \in Transfers
        PROVE  [outgoing[t] EXCEPT !.status = "PENDING", !.attempts = @ + 1] \in Records
    <3>1. outgoing[t] \in Records /\ outgoing[t].attempts + 1 \in Nat
      BY <1>1 DEF Records
    <3> QED BY <3>1, ClaimWrites
  <2> QED BY <1>1, <2>1 DEF Claim
<1>3. {<<t, outgoing[t].attempts + 1>> : t \in S} \in SUBSET (Transfers \X Nat)
  BY <1>1 DEF Records
<1>4. PassesShaped'
  BY <1>3 DEF Claim, TypeInv, PassesShaped
<1>5. WatchShaped' /\ UNCHANGED <<node, head, forks, faults>>
  BY DEF Claim, chainVars, TypeInv, WatchShaped
<1> QED BY <1>2, <1>4, <1>5, RowStepType

LEMMA SendType ==
  ASSUME TypeInv, NEW b \in Broadcasters, NEW d \in batch[b], Send(b, d[1], d[2])
  PROVE  TypeInv'
<1>1. batch \in [Broadcasters -> SUBSET (Transfers \X Nat)] /\ DOMAIN sent = Broadcasters
  BY DEF TypeInv, PassesShaped
<1>2. d[1] \in Transfers /\ d[2] \in Nat
  BY <1>1
<1>3. PICK outcome \in {"ok", "rejected", "unavailable", "error"} :
         /\ sent' = [sent EXCEPT ![b] =
                        [transfer |-> d[1], attempts |-> d[2], outcome |-> outcome]]
         /\ node' \in {node, Submitted(d[1])}
  BY DEF Send
<1>4. PassesShaped'
  <2>1. batch' \in [Broadcasters -> SUBSET (Transfers \X Nat)]
    BY <1>1 DEF Send
  <2>2. DOMAIN sent' = Broadcasters
    BY <1>1, <1>3
  <2>3. ASSUME NEW a \in Broadcasters, sent'[a] # NoCall
        PROVE  /\ sent'[a].transfer \in Transfers /\ sent'[a].attempts \in Nat
               /\ sent'[a].outcome \in {"ok", "rejected", "unavailable", "error"}
    <3>1. CASE a = b
      BY <1>1, <1>2, <1>3, <3>1
    <3>2. CASE a # b
      BY <1>1, <1>3, <2>3, <3>2 DEF TypeInv, PassesShaped
    <3> QED BY <3>1, <3>2
  <2> QED BY <2>1, <2>2, <2>3 DEF PassesShaped
<1>5. /\ node' \in [Transfers -> NodeRecords]
      /\ \A u \in Transfers :
            /\ node'[u].status \in {"MINED", "FAILED"} <=> node'[u].block # NoBlock
            /\ node'[u].block.number <= head
  <2>1. CASE node' = node
    BY <2>1, TypeInvParts DEF TypeInv, RowsShaped, NodeOK, Canonical
  <2>2. CASE node' = Submitted(d[1])
    BY <1>2, <2>2, SubmittedType
  <2> QED BY <1>3, <2>1, <2>2
<1>6. RowsShaped' /\ WatchShaped' /\ Counters' /\ head' = head
  BY <1>5, TypeInvParts DEF Send, TypeInv, RowsShaped, WatchShaped, Counters
<1>7. TypeOK'
  BY <1>5, <1>6 DEF TypeOK, Counters, RowsShaped, Records, NodeRecords, Canonical
<1> QED BY <1>4, <1>6, <1>7 DEF TypeInv

\* What the record of an outcome does to the row and to the outbox.
LEMMA RecordFailureDoes ==
  ASSUME RowsShaped, NEW t \in Transfers, NEW code, RecordFailure(t, code)
  PROVE  \/ outgoing[t].status = "CONFIRMED" /\ UNCHANGED <<outgoing, outbox>>
         \/ RowWritten(t, "FAILED") /\ Emit(Failed(t, code))
BY SetWrites DEF RecordFailure, TxStatus

LEMMA OutcomeDoes ==
  ASSUME TypeInv, NEW b \in Broadcasters, RecordOutcome(b)
  PROVE  LET t == sent[b].transfer IN
         /\ t \in Transfers
         /\ \/ outgoing[t].status \in {"CONFIRMED", "FAILED"} /\ UNCHANGED <<outgoing, outbox>>
            \/ RowWritten(t, "BROADCASTED") /\ Emit(Broadcasted(t))
            \/ \E code \in {"REJECTED_BY_NODE", "RPC_UNAVAILABLE", "BROADCAST_FAILED"} :
                  RowWritten(t, "FAILED") /\ Emit(Failed(t, code))
            \/ /\ RowWritten(t, "PENDING") /\ UNCHANGED outbox
               /\ sent[b].attempts < MaxAttempts
<1> DEFINE call == sent[b]
           t == call.transfer
<1>1. /\ t \in Transfers /\ call.outcome \in {"ok", "rejected", "unavailable", "error"}
      /\ RowsShaped
  BY DEF RecordOutcome, TypeInv, PassesShaped
<1>2. CASE call.outcome = "ok"
  <2>1. RecordBroadcast(t)
    BY <1>2 DEF RecordOutcome
  <2>2. CASE outgoing[t].status \in {"CONFIRMED", "FAILED"}
    BY <1>1, <2>1, <2>2 DEF RecordBroadcast
  <2>3. CASE outgoing[t].status \notin {"CONFIRMED", "FAILED"}
    BY <1>1, <2>1, <2>3, BroadcastWrites
  <2> QED BY <1>1, <2>2, <2>3
<1>3. CASE call.outcome = "rejected"
  <2>1. RecordFailure(t, "REJECTED_BY_NODE")
    BY <1>3 DEF RecordOutcome
  <2> QED BY <1>1, <2>1, RecordFailureDoes
<1>4. CASE call.outcome = "unavailable"
  <2>1. Retry(t, call.attempts, "RPC_UNAVAILABLE")
    BY <1>4 DEF RecordOutcome
  <2>2. CASE call.attempts < MaxAttempts
    BY <1>1, <2>1, <2>2, SetWrites DEF Retry, TxStatus
  <2>3. CASE ~(call.attempts < MaxAttempts)
    BY <1>1, <2>1, <2>3, RecordFailureDoes DEF Retry
  <2> QED BY <2>2, <2>3
<1>5. CASE call.outcome = "error"
  <2>1. Retry(t, call.attempts, "BROADCAST_FAILED")
    BY <1>5 DEF RecordOutcome
  <2>2. CASE call.attempts < MaxAttempts
    BY <1>1, <2>1, <2>2, SetWrites DEF Retry, TxStatus
  <2>3. CASE ~(call.attempts < MaxAttempts)
    BY <1>1, <2>1, <2>3, RecordFailureDoes DEF Retry
  <2> QED BY <2>2, <2>3
<1> QED BY <1>1, <1>2, <1>3, <1>4, <1>5

LEMMA OutcomeType ==
  ASSUME TypeInv, NEW b \in Broadcasters, RecordOutcome(b)
  PROVE  TypeInv'
<1>1. outgoing' \in [Transfers -> Records]
  BY OutcomeDoes DEF RowWritten, TypeInv, RowsShaped
<1>2. PassesShaped' /\ WatchShaped' /\ UNCHANGED <<node, head, forks, faults>>
  BY DEF RecordOutcome, chainVars, TypeInv, PassesShaped, WatchShaped
<1> QED BY <1>1, <1>2, RowStepType

\* What a commit of the watcher does to the row, the outbox and the pass.
LEMMA ReceiptDoes ==
  ASSUME TypeInv, ApplyReceipt
  PROVE  LET t == watch.row IN
         \/ RowWritten(t, outgoing[t].status) /\ UNCHANGED outbox
         \/ RowWritten(t, "FAILED") /\ Emit(Failed(t, "REVERTED_ON_CHAIN"))
         \/ /\ outgoing[t].status = "BROADCASTED"
            /\ RowWritten(t, "CONFIRMED") /\ Emit(Confirmed(t))
<1> DEFINE t == watch.row
           deep == outgoing[t].status = "BROADCASTED"
                      /\ watch.head - watch.receipt.block.number + 1 >= Required
           status == IF watch.receipt.status = "FAILED" THEN "FAILED"
                     ELSE IF deep THEN "CONFIRMED" ELSE outgoing[t].status
<1>1. /\ t \in Transfers /\ watch.receipt.block \in Blocks
      /\ RowsShaped /\ outgoing[t].status \in TxStatus \cup {"ABSENT"}
  BY DEF ApplyReceipt, Committing, TypeInv, WatchShaped, NodeRecords, RowsShaped, Records
<1>2. /\ outgoing' = [outgoing EXCEPT ![t].block = watch.receipt.block, ![t].status = status]
      /\ IF status = outgoing[t].status THEN UNCHANGED outbox
         ELSE Emit(IF status = "FAILED" THEN Failed(t, "REVERTED_ON_CHAIN") ELSE Confirmed(t))
  BY DEF ApplyReceipt
<1>3. status \in TxStatus \cup {"ABSENT"}
  BY <1>1 DEF TxStatus
<1>4. RowWritten(t, status)
  <2> HIDE DEF status
  <2> QED BY <1>1, <1>2, <1>3, ReceiptWrites
<1>5. CASE status = outgoing[t].status
  BY <1>2, <1>4, <1>5
<1>6. CASE status # outgoing[t].status /\ status = "FAILED"
  BY <1>2, <1>4, <1>6
<1>7. CASE status # outgoing[t].status /\ status # "FAILED"
  <2>1. status = "CONFIRMED" /\ outgoing[t].status = "BROADCASTED"
    BY <1>7
  <2> QED BY <1>2, <1>4, <1>7, <2>1
<1> QED BY <1>5, <1>6, <1>7

LEMMA CommitWatches ==
  ASSUME TypeInv, Committing, CommitDone
  PROVE  /\ watch.row \in Transfers /\ watch.todo \subseteq Transfers \ {watch.row}
         /\ watch'.phase \in {"idle", "receipt"}
         /\ watch'.phase = "receipt" => watch'.todo = watch.todo
         /\ UNCHANGED <<node, head, forks, batch, sent, faults>>
<1>1. watch' = NextRow(watch.head, watch.todo)
  BY DEF CommitDone
<1> QED BY <1>1, NextRowIs DEF TypeInv, WatchShaped, Committing, CommitDone, chainVars, broadcaster

LEMMA CommitType ==
  ASSUME TypeInv, Committing, CommitDone, outgoing' \in [Transfers -> Records]
  PROVE  TypeInv'
<1>1. WatchShaped' /\ PassesShaped'
  BY CommitWatches DEF TypeInv, WatchShaped, PassesShaped
<1> QED BY <1>1, CommitWatches, RowStepType

LEMMA WatcherType ==
  ASSUME TypeInv, Watcher
  PROVE  TypeInv'
<1>0. RowsShaped /\ outgoing \in [Transfers -> Records]
  BY DEF TypeInv, RowsShaped
<1>1. CASE WatchHead
  <2>1. WatchShaped' /\ PassesShaped' /\ UNCHANGED <<outgoing, node, head, forks, faults>>
    BY <1>1 DEF WatchHead, TypeInv, WatchShaped, PassesShaped, chainVars, broadcaster
  <2> QED BY <1>0, <2>1, RowStepType
<1>2. CASE WatchList
  <2>1. Candidates(watch.head) \subseteq Transfers
    BY DEF Candidates
  <2>2. WatchShaped'
    BY <1>2, <2>1, NextRowIs DEF WatchList, WatchShaped
  <2>3. PassesShaped' /\ UNCHANGED <<outgoing, node, head, forks, faults>>
    BY <1>2 DEF WatchList, TypeInv, PassesShaped, chainVars, broadcaster
  <2> QED BY <1>0, <2>2, <2>3, RowStepType
<1>3. CASE \E t \in Transfers : CheckReceipt(t)
  <2>1. PICK t \in Transfers : CheckReceipt(t)
    BY <1>3
  <2>2. watch.todo \subseteq Transfers /\ node[t] \in NodeRecords
    BY <2>1 DEF CheckReceipt, TypeInv, WatchShaped, RowsShaped
  <2>3. WatchShaped'
    <3>1. CASE ~outgoing[t].hash
      BY <2>1, <2>2, <3>1, NextRowIs DEF CheckReceipt, WatchShaped
    <3>2. CASE outgoing[t].hash
      BY <2>1, <2>2, <3>2 DEF CheckReceipt, WatchShaped
    <3> QED BY <3>1, <3>2
  <2>4. PassesShaped' /\ UNCHANGED <<outgoing, node, head, forks, faults>>
    BY <2>1 DEF CheckReceipt, TypeInv, PassesShaped, chainVars, broadcaster
  <2> QED BY <1>0, <2>3, <2>4, RowStepType
<1>4. CASE ApplyReceipt
  <2>1. outgoing' \in [Transfers -> Records]
    BY <1>4, ReceiptDoes DEF RowWritten
  <2> QED BY <1>4, <2>1, CommitType DEF ApplyReceipt
<1>5. CASE MarkReorged
  <2>1. watch.row \in Transfers
    BY <1>5, CommitWatches DEF MarkReorged
  <2>2. RowWritten(watch.row, "REORGED")
    BY <1>0, <1>5, <2>1, SetWrites DEF MarkReorged, TxStatus
  <2> QED BY <1>5, <2>2, CommitType DEF MarkReorged, RowWritten
<1>6. CASE StillPending
  BY <1>0, <1>6, CommitType DEF StillPending
<1>7. CASE HandleStuck
  <2>1. watch.row \in Transfers
    BY <1>7, CommitWatches DEF HandleStuck
  <2>2. RowWritten(watch.row, "PENDING") \/ RowWritten(watch.row, "FAILED")
    BY <1>0, <1>7, <2>1, SetWrites DEF HandleStuck, TxStatus
  <2> QED BY <1>7, <2>2, CommitType DEF HandleStuck, RowWritten
<1> QED BY <1>1, <1>2, <1>3, <1>4, <1>5, <1>6, <1>7 DEF Watcher

LEMMA PassFailsType ==
  ASSUME TypeInv, PassFails
  PROVE  TypeInv'
<1>1. Counters' /\ UNCHANGED <<outgoing, node, head, forks>>
  BY TypeInvParts, BoundsAssumption DEF PassFails, Counters, chainVars
<1>2. PassesShaped'
  BY DEF PassFails, TypeInv, PassesShaped, broadcaster
<1>3. WatchShaped'
  BY DEF PassFails, TypeInv, WatchShaped, NoWatch
<1>4. NodeOK' /\ RowsShaped'
  BY <1>1, TypeInvParts DEF TypeInv, NodeOK, RowsShaped, Canonical
<1>5. TypeOK'
  BY <1>1, <1>4 DEF TypeOK, NodeOK, Counters, RowsShaped, Records, NodeRecords, Canonical
<1> QED BY <1>2, <1>3, <1>4, <1>5 DEF TypeInv

LEMMA TypeInitial ==
  Init => TypeInv
<1> SUFFICES ASSUME Init PROVE TypeInv
  OBVIOUS
<1> USE BoundsAssumption
<1>1. NoBlock \in Blocks /\ NoBlock.number = 0
  BY DEF NoBlock, Blocks
<1>2. RowsShaped
  BY <1>1 DEF Init, RowsShaped, Records, NodeRecords, NoRecord, Unknown, NodeStatus
<1>3. PassesShaped /\ WatchShaped
  BY DEF Init, PassesShaped, WatchShaped, NoWatch
<1>4. Counters
  BY DEF Init, Counters
<1>5. \A t \in Transfers : node[t].block = NoBlock /\ ~Canonical(t)
  BY DEF Init, Canonical, Unknown
<1>6. TypeOK
  BY <1>1, <1>2, <1>4, <1>5 DEF TypeOK, Counters, RowsShaped, Records, NodeRecords
<1> QED BY <1>2, <1>3, <1>6 DEF TypeInv

LEMMA TypeStep ==
  TypeInv /\ [Next]_vars => TypeInv'
<1> SUFFICES ASSUME TypeInv, [Next]_vars PROVE TypeInv'
  OBVIOUS
<1>1. CASE MineBlock \/ \E d \in 1 .. MaxDepth, drop \in SUBSET Transfers : Orphan(d, drop)
  BY <1>1, NodeStepType
<1>2. CASE \E b \in Broadcasters : Broadcaster(b)
  BY <1>2, ClaimType, SendType, OutcomeType DEF Broadcaster
<1>3. CASE Watcher
  BY <1>3, WatcherType
<1>4. CASE PassFails
  BY <1>4, PassFailsType
<1>5. CASE \E t \in Transfers : AcceptTransferRequest(t)
  BY <1>5, AcceptType
<1>6. CASE UNCHANGED vars
  <2>1. PassesShaped' /\ WatchShaped'
    BY <1>6 DEF vars, TypeInv, PassesShaped, WatchShaped
  <2> QED BY <1>6, <2>1, RowStepType DEF vars, TypeInv, RowsShaped
<1> QED BY <1>1, <1>2, <1>3, <1>4, <1>5, <1>6 DEF Next, Loops

\* Rows, blocks and counters stay well formed, with any number of broadcasters:
\* _CLAIM_SQL, the watcher's writes, mine_block and reorg keep the columns of
\* their tables, and a transaction has a block exactly while that block is
\* canonical and not above the head.
THEOREM TypeCorrect == Spec => []TypeOK
<1>1. TypeInv => TypeOK
  BY DEF TypeInv
<1> QED BY <1>1, TypeInitial, TypeStep, PTL DEF Spec

-----------------------------------------------------------------------------
(* Events and attempts, with one broadcaster.                              *)

\* A row goes on, is given up, or is confirmed, and its event goes with it.
GoesOn(t, s) ==
    /\ s \in {"CREATED", "PENDING", "BROADCASTED"}
    /\ outgoing[t].status \in {"ABSENT", "CREATED", "PENDING", "BROADCASTED"}
    /\ UNCHANGED outbox \/ Emit(Broadcasted(t))
GivenUp(t, s) ==
    /\ s \in {"FAILED", "REORGED"}
    /\ \E e : e.type = "tx.failed" /\ e.transfer = t /\ Emit(e)
Settled(t, s) ==
    /\ s = "CONFIRMED" /\ outgoing[t].status \in Watched
    /\ Emit(Confirmed(t)) \/ (outgoing[t].status = "CONFIRMED" /\ UNCHANGED outbox)

LEMMA EventsStep ==
  ASSUME IInv, NEW t \in Transfers, NEW s \in TxStatus, RowWritten(t, s),
         GoesOn(t, s) \/ GivenUp(t, s) \/ Settled(t, s)
  PROVE  EventsMatchRecord' /\ ConfirmedOnce'
<1>0. EventsMatchRecord /\ ConfirmedOnce
  BY DEF IInv, Bookkeeping
<1>1. \A u \in Transfers \ {t} : outgoing'[u] = outgoing[u]
  BY DEF RowWritten
<1>2. \A u \in Transfers \ {t} : /\ FailedEvents(u)' = FailedEvents(u)
                                 /\ Confirmed(u) \in outbox' <=> Confirmed(u) \in outbox
  BY DEF GoesOn, GivenUp, Settled, Emit, FailedEvents, Confirmed, Broadcasted
<1>3. \A u \in Transfers \ {t} :
         /\ outgoing'[u].status \in {"FAILED", "REORGED"} <=> FailedEvents(u)' # {}
         /\ outgoing'[u].status = "CONFIRMED" => Confirmed(u) \in outbox'
         /\ outgoing'[u].status \in {"ABSENT", "CREATED", "PENDING", "BROADCASTED"} =>
               Confirmed(u) \notin outbox'
  BY <1>0, <1>1, <1>2 DEF EventsMatchRecord, ConfirmedOnce
<1>4. /\ s \in {"FAILED", "REORGED"} <=> FailedEvents(t)' # {}
      /\ s = "CONFIRMED" => Confirmed(t) \in outbox'
      /\ s \in {"ABSENT", "CREATED", "PENDING", "BROADCASTED"} => Confirmed(t) \notin outbox'
  <2>1. CASE GoesOn(t, s)
    <3>1. FailedEvents(t) = {} /\ Confirmed(t) \notin outbox
      BY <1>0, <2>1 DEF GoesOn, EventsMatchRecord, ConfirmedOnce
    <3>2. FailedEvents(t)' = {} /\ Confirmed(t) \notin outbox'
      BY <2>1, <3>1 DEF GoesOn, Emit, FailedEvents, Confirmed, Broadcasted
    <3> QED BY <2>1, <3>2 DEF GoesOn
  <2>2. CASE GivenUp(t, s)
    <3>1. FailedEvents(t)' # {}
      BY <2>2 DEF GivenUp, Emit, FailedEvents
    <3> QED BY <2>2, <3>1 DEF GivenUp
  <2>3. CASE Settled(t, s)
    <3>1. FailedEvents(t) = {}
      BY <1>0, <2>3 DEF Settled, Watched, EventsMatchRecord
    <3>2. FailedEvents(t)' = {}
      BY <2>3, <3>1 DEF Settled, Emit, FailedEvents, Confirmed
    <3>3. Confirmed(t) \in outbox'
      BY <1>0, <2>3 DEF Settled, Emit, EventsMatchRecord
    <3> QED BY <2>3, <3>2, <3>3 DEF Settled
  <2> QED BY <2>1, <2>2, <2>3
<1>5. outgoing'[t].status = s
  BY DEF RowWritten
<1>6. \A u \in Transfers :
         /\ outgoing'[u].status \in {"FAILED", "REORGED"} <=> FailedEvents(u)' # {}
         /\ outgoing'[u].status = "CONFIRMED" => Confirmed(u) \in outbox'
         /\ outgoing'[u].status \in {"ABSENT", "CREATED", "PENDING", "BROADCASTED"} =>
               Confirmed(u) \notin outbox'
  BY <1>3, <1>4, <1>5
<1>7. EventsMatchRecord'
  BY <1>6 DEF EventsMatchRecord, Confirmed
<1>8. ConfirmedOnce'
  BY <1>6 DEF ConfirmedOnce, Confirmed
<1> QED BY <1>7, <1>8

\* Rows a broadcaster works on are PENDING: the watcher's rows are not, nor is
\* one that has only just been asked for.
LEMMA InFlightIsPending ==
  ASSUME IInv, NEW t \in Transfers, InFlight(t)
  PROVE  outgoing[t].status = "PENDING"
BY DEF IInv, Bookkeeping, ClaimsHold, InFlight

\* A step that writes one row no broadcaster works on.
LEMMA FreeRowStep ==
  ASSUME IInv, NEW t \in Transfers, NEW s \in TxStatus, RowWritten(t, s),
         outgoing[t].status # "PENDING",
         s \in {"CREATED", "PENDING"} => outgoing[t].attempts < MaxAttempts + faults,
         UNCHANGED <<batch, sent, faults>>
  PROVE  ClaimsHold' /\ BudgetLeft' /\ RetryBudgetIsFinite'
<1>1. /\ \A u \in Transfers \ {t} : outgoing'[u] = outgoing[u]
      /\ outgoing'[t].status = s /\ outgoing'[t].attempts = outgoing[t].attempts
  BY DEF RowWritten
<1>2. RetryBudgetIsFinite'
  BY <1>1 DEF IInv, Bookkeeping, RetryBudgetIsFinite
<1>3. \A u \in Transfers : InFlight(u)' <=> InFlight(u)
  BY DEF InFlight
<1>4. ASSUME NEW u \in Transfers, ~InFlight(u),
             outgoing'[u].status \in {"ABSENT", "CREATED", "PENDING"}
      PROVE  outgoing'[u].attempts < MaxAttempts + faults
  <2>1. CASE u = t
    <3>1. s # "ABSENT"
      BY DEF TxStatus
    <3> QED BY <1>1, <1>4, <2>1, <3>1
  <2>2. CASE u # t
    BY <1>1, <1>4, <2>2 DEF IInv, Bookkeeping, BudgetLeft
  <2> QED BY <2>1, <2>2
<1>5. BudgetLeft'
  BY <1>3, <1>4 DEF BudgetLeft
<1>6. ClaimsHold'
  <2>1. \A b \in Broadcasters : /\ \A d \in batch[b] : d[1] \in Transfers /\ d[1] # t
                                /\ sent[b] # NoCall => /\ sent[b].transfer \in Transfers
                                                       /\ sent[b].transfer # t
    BY DEF IInv, Bookkeeping, ClaimsHold, TypeInv, PassesShaped
  <2> QED BY <1>1, <2>1 DEF IInv, Bookkeeping, ClaimsHold
<1> QED BY <1>2, <1>5, <1>6

\* A step that leaves the rows, the outbox and the broadcaster alone.
LEMMA QuietStep ==
  ASSUME IInv, UNCHANGED <<outgoing, outbox, batch, sent, faults>>
  PROVE  /\ ClaimsHold' /\ ConfirmedOnce' /\ BudgetLeft'
         /\ EventsMatchRecord' /\ RetryBudgetIsFinite'
<1>1. ClaimsHold' /\ BudgetLeft' /\ RetryBudgetIsFinite'
  BY DEF IInv, Bookkeeping, ClaimsHold, BudgetLeft, InFlight, RetryBudgetIsFinite
<1>2. ConfirmedOnce' /\ EventsMatchRecord'
  BY DEF IInv, Bookkeeping, ConfirmedOnce, EventsMatchRecord, FailedEvents, Confirmed
<1> QED BY <1>1, <1>2

LEMMA NodeStepKeeps ==
  ASSUME IInv, MineBlock \/ \E d \in 1 .. MaxDepth, drop \in SUBSET Transfers : Orphan(d, drop)
  PROVE  Bookkeeping'
<1>1. UNCHANGED <<outgoing, outbox, batch, sent, watch, faults>>
  BY DEF MineBlock, Orphan, broadcaster
<1>2. WatchHolds'
  BY <1>1 DEF IInv, Bookkeeping, WatchHolds
<1> QED BY <1>1, <1>2, QuietStep DEF Bookkeeping

\* A row the watcher does not hold is written.
LEMMA WatchUntouched ==
  ASSUME IInv, NEW t \in Transfers, NEW s, RowWritten(t, s), outgoing[t].status \notin Watched,
         UNCHANGED watch
  PROVE  WatchHolds'
<1>1. \A u \in Transfers \ {t} : outgoing'[u] = outgoing[u]
  BY DEF RowWritten
<1>2. ASSUME watch.phase \in {"receipt", "commit"}
      PROVE  \A u \in watch.todo : outgoing'[u].status \in Watched
  BY <1>1, <1>2 DEF IInv, Bookkeeping, WatchHolds, TypeInv, WatchShaped
<1>3. ASSUME watch.phase = "commit"
      PROVE  outgoing'[watch.row] = outgoing[watch.row]
  BY <1>1, <1>3 DEF IInv, Bookkeeping, WatchHolds, TypeInv, WatchShaped
<1> QED BY <1>2, <1>3 DEF IInv, Bookkeeping, WatchHolds

LEMMA AcceptKeeps ==
  ASSUME IInv, NEW t \in Transfers, AcceptTransferRequest(t)
  PROVE  Bookkeeping'
<1>0. /\ outgoing[t].status = "ABSENT" /\ RowsShaped
      /\ UNCHANGED <<batch, sent, watch, faults>>
  BY DEF IInv, TypeInv, AcceptTransferRequest, broadcaster
<1>1. outgoing[t].attempts < MaxAttempts + faults
  BY <1>0, InFlightIsPending DEF IInv, Bookkeeping, BudgetLeft
<1>2. PICK s \in {"CREATED", "FAILED"} : RowWritten(t, s) /\ (GoesOn(t, s) \/ GivenUp(t, s))
  <2>1. CASE t \in Custodied
    BY <1>0, <2>1, SetWrites DEF AcceptTransferRequest, GoesOn, TxStatus
  <2>2. CASE t \notin Custodied
    <3>1. RowWritten(t, "FAILED") /\ Emit(Failed(t, "UNKNOWN_SENDING_ADDRESS"))
      BY <1>0, <2>2, SetWrites DEF AcceptTransferRequest, TxStatus
    <3>2. GivenUp(t, "FAILED")
      BY <3>1 DEF GivenUp, Failed
    <3> QED BY <3>1, <3>2
  <2> QED BY <2>1, <2>2
<1>3. s \in TxStatus
  BY DEF TxStatus
<1>4. EventsMatchRecord' /\ ConfirmedOnce'
  BY <1>2, <1>3, EventsStep
<1>5. ClaimsHold' /\ BudgetLeft' /\ RetryBudgetIsFinite'
  BY <1>0, <1>1, <1>2, <1>3, FreeRowStep
<1>6. WatchHolds'
  BY <1>0, <1>2, WatchUntouched DEF Watched
<1> QED BY <1>4, <1>5, <1>6 DEF Bookkeeping

\* While the only broadcaster is between two passes nobody works on a row.
LEMMA ClaimKeeps ==
  ASSUME IInv, NEW b \in Broadcasters, NEW S \in SUBSET Claimable, Claim(b, S)
  PROVE  Bookkeeping'
<1>0. /\ \A a \in Broadcasters : a = b /\ batch[a] = {} /\ sent[a] = NoCall
      /\ outgoing \in [Transfers -> Records] /\ S \subseteq Transfers
      /\ batch \in [Broadcasters -> SUBSET (Transfers \X Nat)]
      /\ UNCHANGED <<outbox, sent, watch, faults>>
  BY DEF IInv, OneBroadcaster, TypeInv, RowsShaped, PassesShaped, Claim, Claimable
<1>1. \A t \in S : outgoing[t].status \in {"CREATED", "PENDING"}
  BY DEF Claimable
<1>2. /\ \A t \in S : /\ outgoing'[t].status = "PENDING"
                      /\ outgoing'[t].attempts = outgoing[t].attempts + 1
      /\ \A t \in Transfers \ S : outgoing'[t] = outgoing[t]
  BY <1>0 DEF Claim, Records
<1>3. batch'[b] = {<<t, outgoing[t].attempts + 1>> : t \in S}
  BY <1>0 DEF Claim
<1>4. \A t \in Transfers : outgoing[t].attempts \in Nat
  BY <1>0 DEF Records
<1>5. \A t \in S : outgoing[t].attempts < MaxAttempts + faults
  BY <1>0, <1>1 DEF IInv, Bookkeeping, BudgetLeft, InFlight
<1>6. faults \in Int /\ MaxAttempts \in Int
  BY SettingsAssumption, TypeInvParts DEF IInv, Counters
<1>7. RetryBudgetIsFinite'
  <2>1. ASSUME NEW t \in Transfers PROVE outgoing'[t].attempts <= MaxAttempts + faults
    <3>1. CASE t \in S
      BY <1>2, <1>4, <1>5, <1>6, <3>1
    <3>2. CASE t \notin S
      BY <1>2, <3>2 DEF IInv, Bookkeeping, RetryBudgetIsFinite
    <3> QED BY <3>1, <3>2
  <2> QED BY <1>0, <2>1 DEF RetryBudgetIsFinite
<1>8. ClaimsHold'
  <2>1. \A d \in batch'[b] : \E t \in S : d = <<t, outgoing[t].attempts + 1>>
    BY <1>3
  <2>2. \A d \in batch'[b] : /\ d[1] \in S /\ d[2] = outgoing[d[1]].attempts + 1
                             /\ d = <<d[1], outgoing[d[1]].attempts + 1>>
    BY <2>1
  <2>3. \A d \in batch'[b] : outgoing'[d[1]].status = "PENDING" /\ outgoing'[d[1]].attempts = d[2]
    BY <1>2, <2>2
  <2>4. \A d, e \in batch'[b] : d[1] = e[1] => d = e
    BY <2>2
  <2>5. \A a \in Broadcasters : a = b /\ sent'[a] = NoCall
    BY <1>0
  <2> QED BY <2>3, <2>4, <2>5 DEF ClaimsHold
<1>9. BudgetLeft'
  <2>1. ASSUME NEW t \in Transfers, ~InFlight(t)',
               outgoing'[t].status \in {"ABSENT", "CREATED", "PENDING"}
        PROVE  outgoing'[t].attempts < MaxAttempts + faults
    <3>1. t \notin S
      <4>1. SUFFICES ASSUME t \in S PROVE InFlight(t)'
        BY <2>1
      <4>2. <<t, outgoing[t].attempts + 1>> \in batch'[b]
        BY <1>3, <4>1
      <4> QED BY <4>2 DEF InFlight
    <3>2. ~InFlight(t)
      BY <1>0 DEF InFlight
    <3> QED BY <1>2, <2>1, <3>1, <3>2 DEF IInv, Bookkeeping, BudgetLeft
  <2> QED BY <1>0, <2>1 DEF BudgetLeft
<1>10. ConfirmedOnce' /\ EventsMatchRecord'
  <2>1. \A t \in Transfers : FailedEvents(t)' = FailedEvents(t)
    BY <1>0 DEF FailedEvents
  <2>2. ASSUME NEW t \in S
        PROVE  FailedEvents(t) = {} /\ Confirmed(t) \notin outbox
    BY <1>0, <1>1 DEF IInv, Bookkeeping, EventsMatchRecord
  <2>3. ASSUME NEW t \in Transfers
        PROVE  /\ outgoing'[t].status \in {"FAILED", "REORGED"} <=> FailedEvents(t) # {}
               /\ outgoing'[t].status = "CONFIRMED" => Confirmed(t) \in outbox
               /\ outgoing'[t].status \in {"ABSENT", "CREATED", "PENDING", "BROADCASTED"} =>
                     Confirmed(t) \notin outbox
    <3>1. CASE t \in S
      BY <1>2, <2>2, <3>1
    <3>2. CASE t \notin S
      BY <1>2, <3>2 DEF IInv, Bookkeeping, EventsMatchRecord, ConfirmedOnce
    <3> QED BY <3>1, <3>2
  <2>4. EventsMatchRecord'
    BY <1>0, <2>1, <2>3 DEF EventsMatchRecord, Confirmed
  <2>5. ConfirmedOnce'
    BY <1>0, <2>3 DEF ConfirmedOnce, Confirmed
  <2> QED BY <2>4, <2>5
<1>11. WatchHolds'
  <2>1. \A t \in Transfers : outgoing[t].status \in Watched => outgoing'[t] = outgoing[t]
    BY <1>1, <1>2 DEF Watched
  <2>2. ASSUME watch.phase \in {"receipt", "commit"}
        PROVE  \A u \in watch.todo : outgoing'[u].status \in Watched
    BY <2>1, <2>2 DEF IInv, Bookkeeping, WatchHolds, TypeInv, WatchShaped
  <2>3. ASSUME watch.phase = "commit"
        PROVE  outgoing'[watch.row] = outgoing[watch.row]
    BY <2>1, <2>3 DEF IInv, Bookkeeping, WatchHolds, TypeInv, WatchShaped
  <2> QED BY <1>0, <2>2, <2>3 DEF IInv, Bookkeeping, WatchHolds
<1> QED BY <1>7, <1>8, <1>9, <1>10, <1>11 DEF Bookkeeping

\* A step of the broadcaster or a failed pass that leaves the rows alone.
LEMMA RowsAlone ==
  ASSUME IInv, UNCHANGED <<outgoing, outbox, watch>>
  PROVE  WatchHolds' /\ ConfirmedOnce' /\ EventsMatchRecord'
<1>1. WatchHolds'
  BY DEF IInv, Bookkeeping, WatchHolds
<1>2. ConfirmedOnce' /\ EventsMatchRecord'
  BY DEF IInv, Bookkeeping, ConfirmedOnce, EventsMatchRecord, FailedEvents, Confirmed
<1> QED BY <1>1, <1>2

LEMMA SendKeeps ==
  ASSUME IInv, NEW b \in Broadcasters, NEW d \in batch[b], Send(b, d[1], d[2])
  PROVE  Bookkeeping'
<1>0. /\ \A a \in Broadcasters : a = b
      /\ batch \in [Broadcasters -> SUBSET (Transfers \X Nat)] /\ DOMAIN sent = Broadcasters
      /\ UNCHANGED <<outgoing, outbox, watch, faults>>
  BY DEF IInv, OneBroadcaster, TypeInv, PassesShaped, Send
<1>1. /\ batch'[b] = batch[b] \ {d} /\ sent[b] = NoCall
      /\ sent'[b].transfer = d[1] /\ sent'[b].attempts = d[2]
  <2>1. d = <<d[1], d[2]>>
    BY <1>0
  <2>2. batch'[b] = batch[b] \ {<<d[1], d[2]>>}
    BY <1>0 DEF Send
  <2> QED BY <1>0, <2>1, <2>2 DEF Send
<1>2. ClaimsHold'
  <2>1. \A e \in batch[b] : outgoing[e[1]].status = "PENDING" /\ outgoing[e[1]].attempts = e[2]
    BY DEF IInv, Bookkeeping, ClaimsHold
  <2>2. \A e, f \in batch[b] : e[1] = f[1] => e = f
    BY DEF IInv, Bookkeeping, ClaimsHold
  <2>3. \A e \in batch'[b] : e \in batch[b] /\ e[1] # d[1]
    BY <1>1, <2>2
  <2> QED BY <1>0, <1>1, <2>1, <2>2, <2>3 DEF ClaimsHold
<1>3. sent'[b] # NoCall
  <2>1. d[1] \in Transfers /\ d[2] \in Nat
    BY <1>0
  <2>2. PICK outcome \in {"ok", "rejected", "unavailable", "error"} :
           sent'[b] = [transfer |-> d[1], attempts |-> d[2], outcome |-> outcome]
    BY <1>0 DEF Send
  <2>3. DOMAIN NoCall = {"transfer"}
    BY DEF NoCall
  <2>4. DOMAIN sent'[b] = {"transfer", "attempts", "outcome"}
    BY <2>2
  <2> QED BY <2>3, <2>4
<1>4. \A t \in Transfers : InFlight(t) => InFlight(t)'
  <2>1. SUFFICES ASSUME NEW t \in Transfers, InFlight(t) PROVE InFlight(t)'
    OBVIOUS
  <2>2. PICK e \in batch[b] : e[1] = t
    BY <1>0, <1>1, <2>1 DEF InFlight
  <2>3. CASE e = d
    BY <1>1, <1>3, <2>2, <2>3 DEF InFlight
  <2>4. CASE e # d
    <3>1. e \in batch'[b]
      BY <1>1, <2>4
    <3> QED BY <2>2, <3>1 DEF InFlight
  <2> QED BY <2>3, <2>4
<1>5. BudgetLeft' /\ RetryBudgetIsFinite'
  BY <1>0, <1>4 DEF IInv, Bookkeeping, BudgetLeft, RetryBudgetIsFinite
<1> QED BY <1>0, <1>2, <1>5, RowsAlone DEF Bookkeeping

LEMMA OutcomeKeeps ==
  ASSUME IInv, NEW b \in Broadcasters, RecordOutcome(b)
  PROVE  Bookkeeping'
<1> DEFINE t == sent[b].transfer
<1>0. /\ \A a \in Broadcasters : a = b
      /\ DOMAIN sent = Broadcasters /\ sent[b] # NoCall
      /\ UNCHANGED <<batch, watch, faults>> /\ sent'[b] = NoCall
      /\ batch \in [Broadcasters -> SUBSET (Transfers \X Nat)]
  BY DEF IInv, OneBroadcaster, TypeInv, PassesShaped, RecordOutcome
<1>1. /\ t \in Transfers /\ outgoing[t].status = "PENDING"
      /\ outgoing[t].attempts = sent[b].attempts
      /\ \A d \in batch[b] : d[1] # t
  BY <1>0 DEF IInv, Bookkeeping, ClaimsHold, TypeInv, PassesShaped
<1>2. PICK s \in {"BROADCASTED", "FAILED", "PENDING"} :
         /\ RowWritten(t, s) /\ (GoesOn(t, s) \/ GivenUp(t, s))
         /\ s = "PENDING" => sent[b].attempts < MaxAttempts
  <2>0. TypeInv
    BY DEF IInv
  <2>1. CASE RowWritten(t, "BROADCASTED") /\ Emit(Broadcasted(t))
    BY <1>1, <2>1 DEF GoesOn
  <2>2. CASE \E code \in {"REJECTED_BY_NODE", "RPC_UNAVAILABLE", "BROADCAST_FAILED"} :
                RowWritten(t, "FAILED") /\ Emit(Failed(t, code))
    <3>1. PICK code : RowWritten(t, "FAILED") /\ Emit(Failed(t, code))
      BY <2>2
    <3>2. Failed(t, code).type = "tx.failed" /\ Failed(t, code).transfer = t
      BY DEF Failed
    <3>3. GivenUp(t, "FAILED")
      BY <3>1, <3>2 DEF GivenUp
    <3> QED BY <3>1, <3>3
  <2>3. CASE RowWritten(t, "PENDING") /\ UNCHANGED outbox /\ sent[b].attempts < MaxAttempts
    BY <1>1, <2>3 DEF GoesOn
  <2> QED BY <1>1, <2>0, <2>1, <2>2, <2>3, OutcomeDoes
<1>3. s \in TxStatus
  BY DEF TxStatus
<1> HIDE DEF t
<1>4. EventsMatchRecord' /\ ConfirmedOnce'
  BY <1>1, <1>2, <1>3, EventsStep
<1>5. WatchHolds'
  BY <1>0, <1>1, <1>2, WatchUntouched DEF Watched
<1>6. /\ \A u \in Transfers \ {t} : outgoing'[u] = outgoing[u]
      /\ outgoing'[t].status = s /\ outgoing'[t].attempts = outgoing[t].attempts
  BY <1>2 DEF RowWritten
<1>7. RetryBudgetIsFinite'
  BY <1>0, <1>6 DEF IInv, Bookkeeping, RetryBudgetIsFinite
<1>8. ClaimsHold'
  <2>1. \A d \in batch[b] : d[1] \in Transfers /\ d[1] # t
    BY <1>0, <1>1
  <2>2. \A d \in batch'[b] : outgoing'[d[1]].status = "PENDING" /\ outgoing'[d[1]].attempts = d[2]
    BY <1>0, <1>6, <2>1 DEF IInv, Bookkeeping, ClaimsHold
  <2>3. \A d, e \in batch'[b] : d[1] = e[1] => d = e
    BY <1>0 DEF IInv, Bookkeeping, ClaimsHold
  <2> QED BY <1>0, <2>2, <2>3 DEF ClaimsHold
<1>9. BudgetLeft'
  <2>1. ASSUME NEW u \in Transfers, ~InFlight(u)',
               outgoing'[u].status \in {"ABSENT", "CREATED", "PENDING"}
        PROVE  outgoing'[u].attempts < MaxAttempts + faults
    <3>1. CASE u = t
      <4>1. s = "PENDING" /\ outgoing'[u].attempts < MaxAttempts
        BY <1>1, <1>2, <1>6, <2>1, <3>1
      <4>2. faults \in Nat /\ outgoing[t].attempts \in Nat /\ MaxAttempts \in Nat
        BY <1>1, SettingsAssumption, TypeInvParts
           DEF IInv, Counters, TypeInv, RowsShaped, Records
      <4> QED BY <1>6, <3>1, <4>1, <4>2
    <3>2. CASE u # t
      <4>1. ~InFlight(u)
        BY <1>0, <2>1, <3>2 DEF InFlight, t
      <4> QED BY <1>6, <2>1, <3>2, <4>1 DEF IInv, Bookkeeping, BudgetLeft
    <3> QED BY <3>1, <3>2
  <2> QED BY <1>0, <2>1 DEF BudgetLeft
<1> QED BY <1>4, <1>5, <1>7, <1>8, <1>9 DEF Bookkeeping

-----------------------------------------------------------------------------
\* The commit of the watcher for the row it holds.
LEMMA CommitKeeps ==
  ASSUME IInv, Committing, CommitDone, NEW s \in TxStatus, RowWritten(watch.row, s),
         \/ GoesOn(watch.row, s) \/ GivenUp(watch.row, s) \/ Settled(watch.row, s),
         s \in {"CREATED", "PENDING"} => watch.attempts < MaxAttempts
  PROVE  Bookkeeping'
<1> DEFINE t == watch.row
<1>0. TypeInv
  BY DEF IInv
<1>1. /\ t \in Transfers /\ watch.todo \subseteq Transfers \ {t}
      /\ watch'.phase \in {"idle", "receipt"}
      /\ watch'.phase = "receipt" => watch'.todo = watch.todo
      /\ UNCHANGED <<batch, sent, faults>>
  BY <1>0, CommitWatches
<1>2. /\ outgoing[t].status \in Watched /\ watch.attempts = outgoing[t].attempts
      /\ \A u \in watch.todo : outgoing[u].status \in Watched
  BY DEF IInv, Bookkeeping, WatchHolds, Committing
<1>3. faults \in Nat /\ outgoing[t].attempts \in Nat /\ MaxAttempts \in Nat
  BY <1>0, <1>1, SettingsAssumption, TypeInvParts DEF Counters, TypeInv, RowsShaped, Records
<1>4. s \in {"CREATED", "PENDING"} => outgoing[t].attempts < MaxAttempts + faults
  BY <1>2, <1>3
<1>5. outgoing[t].status # "PENDING"
  BY <1>2 DEF Watched
<1>6. \A u \in watch.todo : outgoing'[u] = outgoing[u]
  BY <1>1 DEF RowWritten
<1> HIDE DEF t
<1>7. WatchHolds'
  BY <1>1, <1>2, <1>6 DEF WatchHolds
<1>8. EventsMatchRecord' /\ ConfirmedOnce'
  BY <1>1, EventsStep DEF t
<1>9. ClaimsHold' /\ BudgetLeft' /\ RetryBudgetIsFinite'
  BY <1>1, <1>4, <1>5, FreeRowStep DEF t
<1> QED BY <1>7, <1>8, <1>9 DEF Bookkeeping

LEMMA WatcherKeeps ==
  ASSUME IInv, Watcher
  PROVE  Bookkeeping'
<1>0. TypeInv /\ RowsShaped
  BY DEF IInv, TypeInv
<1>1. CASE WatchHead
  <2>1. WatchHolds' /\ UNCHANGED <<outgoing, outbox, batch, sent, faults>>
    BY <1>1 DEF WatchHead, WatchHolds, broadcaster
  <2> QED BY <2>1, QuietStep DEF Bookkeeping
<1>2. CASE WatchList
  <2>1. \A t \in Candidates(watch.head) : outgoing[t].status \in Watched
    BY DEF Candidates, Watched
  <2>2. UNCHANGED <<outgoing, outbox, batch, sent, faults>>
    BY <1>2 DEF WatchList, broadcaster
  <2>3. WatchHolds'
    BY <1>2, <2>1, <2>2, NextRowIs DEF WatchList, WatchHolds
  <2> QED BY <2>2, <2>3, QuietStep DEF Bookkeeping
<1>3. CASE \E t \in Transfers : CheckReceipt(t)
  <2>1. PICK t \in Transfers : CheckReceipt(t)
    BY <1>3
  <2>2. UNCHANGED <<outgoing, outbox, batch, sent, faults>>
    BY <2>1 DEF CheckReceipt, broadcaster
  <2>3. \A u \in watch.todo : outgoing[u].status \in Watched
    BY <2>1 DEF CheckReceipt, IInv, Bookkeeping, WatchHolds
  <2>4. WatchHolds'
    <3>1. CASE ~outgoing[t].hash
      BY <2>1, <2>2, <2>3, <3>1, NextRowIs DEF CheckReceipt, WatchHolds
    <3>2. CASE outgoing[t].hash
      BY <2>1, <2>2, <2>3, <3>2 DEF CheckReceipt, WatchHolds
    <3> QED BY <3>1, <3>2
  <2> QED BY <2>2, <2>4, QuietStep DEF Bookkeeping
<1>4. CASE ApplyReceipt
  <2> DEFINE t == watch.row
  <2>0. /\ Committing /\ CommitDone
        /\ outgoing[t].status \in Watched
    BY <1>4 DEF ApplyReceipt, Committing, IInv, Bookkeeping, WatchHolds
  <2>1. CASE RowWritten(t, outgoing[t].status) /\ UNCHANGED outbox
    <3>1. GoesOn(t, outgoing[t].status) \/ Settled(t, outgoing[t].status)
      BY <2>0, <2>1 DEF GoesOn, Settled, Watched
    <3>2. outgoing[t].status \in TxStatus /\ outgoing[t].status \notin {"CREATED", "PENDING"}
      BY <2>0 DEF Watched, TxStatus
    <3> QED BY <2>0, <2>1, <3>1, <3>2, CommitKeeps
  <2>2. CASE RowWritten(t, "FAILED") /\ Emit(Failed(t, "REVERTED_ON_CHAIN"))
    <3>1. GivenUp(t, "FAILED")
      BY <2>2 DEF GivenUp, Failed
    <3> QED BY <2>0, <2>2, <3>1, CommitKeeps DEF TxStatus
  <2>3. CASE RowWritten(t, "CONFIRMED") /\ Emit(Confirmed(t))
    <3>1. Settled(t, "CONFIRMED")
      BY <2>0, <2>3 DEF Settled
    <3> QED BY <2>0, <2>3, <3>1, CommitKeeps DEF TxStatus
  <2> QED BY <1>0, <1>4, <2>1, <2>2, <2>3, ReceiptDoes
<1>5. CASE MarkReorged
  <2>1. watch.row \in Transfers /\ Committing /\ CommitDone
    BY <1>0, <1>5, CommitWatches DEF MarkReorged
  <2>2. RowWritten(watch.row, "REORGED")
    BY <1>0, <1>5, <2>1, SetWrites DEF MarkReorged, TxStatus
  <2>3. GivenUp(watch.row, "REORGED")
    BY <1>5 DEF MarkReorged, GivenUp, FailedByReorg
  <2> QED BY <2>1, <2>2, <2>3, CommitKeeps DEF TxStatus
<1>6. CASE StillPending
  <2>1. Committing /\ CommitDone /\ UNCHANGED <<outgoing, outbox>>
    BY <1>6 DEF StillPending
  <2>2. /\ watch'.phase \in {"idle", "receipt"}
        /\ watch'.phase = "receipt" => watch'.todo = watch.todo
        /\ UNCHANGED <<batch, sent, faults>>
    BY <1>0, <2>1, CommitWatches
  <2>3. WatchHolds'
    BY <2>1, <2>2 DEF WatchHolds, Committing, IInv, Bookkeeping
  <2> QED BY <2>1, <2>2, <2>3, QuietStep DEF Bookkeeping
<1>7. CASE HandleStuck
  <2>1. /\ watch.row \in Transfers /\ Committing /\ CommitDone
        /\ outgoing[watch.row].status = "BROADCASTED"
    BY <1>0, <1>7, CommitWatches
       DEF HandleStuck, Committing, IInv, Bookkeeping, WatchHolds, Watched
  <2>2. CASE watch.attempts < MaxAttempts
    <3>1. RowWritten(watch.row, "PENDING") /\ GoesOn(watch.row, "PENDING")
      BY <1>0, <1>7, <2>1, <2>2, SetWrites DEF HandleStuck, GoesOn, TxStatus
    <3> QED BY <2>1, <2>2, <3>1, CommitKeeps DEF TxStatus
  <2>3. CASE ~(watch.attempts < MaxAttempts)
    <3>1. RowWritten(watch.row, "FAILED") /\ Emit(Failed(watch.row, "STUCK_PENDING"))
      BY <1>0, <1>7, <2>1, <2>3, SetWrites DEF HandleStuck, TxStatus
    <3>2. GivenUp(watch.row, "FAILED")
      BY <3>1 DEF GivenUp, Failed
    <3> QED BY <2>1, <3>1, <3>2, CommitKeeps DEF TxStatus
  <2> QED BY <2>2, <2>3
<1> QED BY <1>1, <1>2, <1>3, <1>4, <1>5, <1>6, <1>7 DEF Watcher

\* A failed pass leaves the attempts its claim has charged, and is counted.
LEMMA PassFailsKeeps ==
  ASSUME IInv, PassFails
  PROVE  Bookkeeping'
<1>0. /\ UNCHANGED <<outgoing, outbox>> /\ faults' = faults + 1
      /\ faults \in Nat /\ MaxAttempts \in Nat
      /\ \A t \in Transfers : outgoing[t].attempts \in Nat
  BY SettingsAssumption, TypeInvParts
     DEF IInv, PassFails, Counters, TypeInv, RowsShaped, Records
<1>1. \A t \in Transfers : outgoing[t].attempts <= MaxAttempts + faults
  BY DEF IInv, Bookkeeping, RetryBudgetIsFinite
<1>2. \A t \in Transfers : outgoing'[t].attempts < MaxAttempts + faults'
  BY <1>0, <1>1
<1>3. RetryBudgetIsFinite' /\ BudgetLeft'
  BY <1>0, <1>2 DEF RetryBudgetIsFinite, BudgetLeft
<1>4. WatchHolds'
  BY <1>0 DEF PassFails, IInv, Bookkeeping, WatchHolds, NoWatch
<1>5. ConfirmedOnce' /\ EventsMatchRecord'
  BY <1>0 DEF IInv, Bookkeeping, ConfirmedOnce, EventsMatchRecord, FailedEvents, Confirmed
<1>6. ClaimsHold'
  <2>1. DOMAIN sent = Broadcasters /\ DOMAIN batch = Broadcasters
    BY DEF IInv, TypeInv, PassesShaped
  <2>2. CASE UNCHANGED broadcaster
    BY <1>0, <2>2 DEF broadcaster, IInv, Bookkeeping, ClaimsHold
  <2>3. CASE \E b \in Broadcasters : /\ batch' = [batch EXCEPT ![b] = {}]
                                     /\ sent' = [sent EXCEPT ![b] = NoCall]
    BY <1>0, <2>1, <2>3 DEF IInv, Bookkeeping, ClaimsHold
  <2> QED BY <2>2, <2>3 DEF PassFails
<1> QED BY <1>3, <1>4, <1>5, <1>6 DEF Bookkeeping

LEMMA Initial ==
  OneBroadcaster /\ Init => IInv
<1> SUFFICES ASSUME OneBroadcaster, Init PROVE IInv
  OBVIOUS
<1>1. TypeInv
  BY TypeInitial
<1>2. ClaimsHold /\ WatchHolds
  BY DEF Init, ClaimsHold, WatchHolds, NoWatch
<1>3. \A t \in Transfers : outgoing[t].status = "ABSENT" /\ outgoing[t].attempts = 0
  BY DEF Init, NoRecord
<1>4. ConfirmedOnce /\ EventsMatchRecord
  BY <1>3 DEF Init, ConfirmedOnce, EventsMatchRecord, FailedEvents
<1>5. BudgetLeft /\ RetryBudgetIsFinite
  BY <1>3, SettingsAssumption DEF Init, BudgetLeft, RetryBudgetIsFinite
<1> QED BY <1>1, <1>2, <1>4, <1>5 DEF IInv, Bookkeeping

LEMMA Inductive ==
  IInv /\ [Next]_vars => IInv'
<1> SUFFICES ASSUME IInv, [Next]_vars PROVE IInv'
  OBVIOUS
<1>1. TypeInv' /\ OneBroadcaster
  BY TypeStep DEF IInv
<1>2. Bookkeeping'
  <2>1. CASE MineBlock \/ \E d \in 1 .. MaxDepth, drop \in SUBSET Transfers : Orphan(d, drop)
    BY <2>1, NodeStepKeeps
  <2>2. CASE \E b \in Broadcasters : Broadcaster(b)
    BY <2>2, ClaimKeeps, SendKeeps, OutcomeKeeps DEF Broadcaster
  <2>3. CASE Watcher
    BY <2>3, WatcherKeeps
  <2>4. CASE PassFails
    BY <2>4, PassFailsKeeps
  <2>5. CASE \E t \in Transfers : AcceptTransferRequest(t)
    BY <2>5, AcceptKeeps
  <2>6. CASE UNCHANGED vars
    BY <2>6, QuietStep, RowsAlone DEF vars, Bookkeeping
  <2> QED BY <2>1, <2>2, <2>3, <2>4, <2>5, <2>6 DEF Next, Loops
<1> QED BY <1>1, <1>2 DEF IInv, OneBroadcaster

\* With one broadcaster, the events in the outbox are what the record says, after
\* every claim, broadcast, receipt, reorganisation and crash: a tx.failed exactly
\* when accept_transfer_request, _record_failure, _check_one, _handle_stuck or
\* _mark_reorged has closed the record, a tx.confirmed for every CONFIRMED one.
THEOREM EventsTold == OneBroadcaster /\ Spec => []EventsMatchRecord
<1>1. IInv => EventsMatchRecord
  BY DEF IInv, Bookkeeping
<1> QED BY <1>1, Initial, Inductive, PTL DEF Spec

\* With one broadcaster, a transfer is broadcast at most broadcast_max_attempts
\* times and once more per failed pass: _CLAIM_SQL charges the attempt, and a row
\* is claimed again only when _broadcast_one or _handle_stuck found one left, or
\* when a pass that failed has left it PENDING.
THEOREM BudgetFinite == OneBroadcaster /\ Spec => []RetryBudgetIsFinite
<1>1. IInv => RetryBudgetIsFinite
  BY DEF IInv, Bookkeeping
<1> QED BY <1>1, Initial, Inductive, PTL DEF Spec
=============================================================================
