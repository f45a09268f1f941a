---------------------------- MODULE WalletProofs ----------------------------
(***************************************************************************)
(* Invariants of Wallet proved for every set of users, transfers, deposits, *)
(* blocks, keys and amounts.                                                *)
(***************************************************************************)
EXTENDS Wallet, TLAPS

-----------------------------------------------------------------------------
(* Strengthenings. None is a goal of its own.                              *)

\* Nothing is said about a transfer before its row and its outbox row exist.
RequestFirst ==
    \A t \in TransferIds :
        /\ status[t] = "ABSENT" <=> outbox[t] = "none"
        /\ t \in ForeignIds => status[t] = "ABSENT"
        /\ status[t] = "ABSENT" /\ t \notin ForeignIds =>
              /\ TxBroadcasted(t) \notin processed
              /\ TxConfirmed(t) \notin processed
              /\ \A c \in FailureCodes : TxFailed(t, c) \notin processed

\* Replies, idempotency rows and transfer rows tell one story.
KeysLinked ==
    /\ \A p \in replies :
          idem[p.key] = [request |-> p.request, transfer |-> p.transfer]
    /\ \A t \in TransferIds :
          status[t] # "ABSENT" =>
              /\ idem[body[t].key] # NoClaim
              /\ idem[body[t].key].transfer = t

-----------------------------------------------------------------------------
(* Facts about events and references.                                      *)

\* Every event is one of the six kinds, with the fields of its kind.
LEMMA EventKinds ==
    ASSUME NEW e \in Events
    PROVE  \/ \E d \in Deposits, b \in Blocks : b \in MinedIn[d] /\ e = Detected(d, b)
           \/ \E d \in Deposits, b \in Blocks : b \in MinedIn[d] /\ e = Confirmed(d, b)
           \/ \E d \in Deposits, b \in Blocks, w \in BOOLEAN :
                 b \in MinedIn[d] /\ e = Reorged(d, b, w)
           \/ \E t \in TransferIds : e = TxBroadcasted(t)
           \/ \E t \in TransferIds : e = TxConfirmed(t)
           \/ \E t \in TransferIds, c \in FailureCodes : e = TxFailed(t, c)
<1>1. CASE e \in DepositEvents
  BY <1>1 DEF DepositEvents, Detected, Confirmed, Reorged
<1>2. CASE e \in TransferEvents
  BY <1>2 DEF TransferEvents
<1> QED  BY <1>1, <1>2 DEF Events

\* The postings of a transfer and of a deposit never share a reference.
LEMMA ReferencesDiffer ==
    /\ \A t, v : TransferRef(t) = TransferRef(v) => t = v
    /\ \A t, d, b : TransferRef(t) # DepositRef(d, b)
    /\ \A d, b, c, a : DepositRef(d, b) = DepositRef(c, a) => d = c /\ b = a
BY DEF TransferRef, DepositRef

\* Amounts are positive integers.
LEMMA AmountsAreInts == \A a \in Amounts : a \in Int /\ a > 0
BY AmountsAssumption

-----------------------------------------------------------------------------
(* What the handler of each kind of event does, one lemma per kind.        *)

\* deposit.detected is only noted.
LEMMA OnDetected ==
    ASSUME NEW d, NEW b, Handle(Detected(d, b))
    PROVE  UNCHANGED <<money, status>>
BY DEF Handle, Detected

\* deposit.confirmed credits the owner, if a wallet row knows the address.
LEMMA OnConfirmed ==
    ASSUME NEW d, NEW b, Handle(Confirmed(d, b))
    PROVE  \/ Owner[d] \notin wallets /\ UNCHANGED <<money, status>>
           \/ /\ Owner[d] \in wallets
              /\ Post({CreditPosting(d, b)}, reserved)
              /\ UNCHANGED <<reserved, status>>
BY DEF Handle, Confirmed, CreditDeposit

\* deposit.reorged takes a confirmed deposit back.
LEMMA OnReorged ==
    ASSUME NEW d, NEW b, NEW w \in BOOLEAN, Handle(Reorged(d, b, w))
    PROVE  \/ (~w \/ Owner[d] \notin wallets) /\ UNCHANGED <<money, status>>
           \/ /\ w /\ Owner[d] \in wallets
              /\ Post({ClawbackPosting(d, b)}, reserved)
              /\ UNCHANGED <<reserved, status>>
BY DEF Handle, Reorged, ReverseDeposit

\* tx.broadcasted moves an open transfer and no other.
LEMMA OnTxBroadcasted ==
    ASSUME NEW t, Handle(TxBroadcasted(t))
    PROVE  \/ status[t] \in Terminal \cup {"ABSENT"} /\ UNCHANGED <<money, status>>
           \/ /\ status[t] \notin Terminal \cup {"ABSENT"}
              /\ status' = [status EXCEPT ![t] = "BROADCASTED"]
              /\ UNCHANGED money
BY DEF Handle, TxBroadcasted, MarkBroadcasted

\* tx.confirmed settles an open transfer and no other.
LEMMA OnTxConfirmed ==
    ASSUME NEW t, Handle(TxConfirmed(t))
    PROVE  \/ status[t] \in Terminal \cup {"ABSENT"} /\ UNCHANGED <<money, status>>
           \/ /\ status[t] \notin Terminal \cup {"ABSENT"}
              /\ Post(SettlementPostings(t), ReleaseHold(t))
              /\ reserved' = ReleaseHold(t)
              /\ status' = [status EXCEPT ![t] = "CONFIRMED"]
BY DEF Handle, TxConfirmed, SettleTransfer

\* tx.failed reverses a settled transfer and releases the hold of an open one.
LEMMA OnTxFailed ==
    ASSUME NEW t, NEW c, Handle(TxFailed(t, c))
    PROVE  \/ status[t] \in {"FAILED", "ABSENT"} /\ UNCHANGED <<money, status>>
           \/ /\ status[t] = "CONFIRMED"
              /\ Post(ReversalPostings(t), reserved)
              /\ status' = [status EXCEPT ![t] = "FAILED"]
              /\ UNCHANGED reserved
           \/ /\ status[t] \notin {"FAILED", "ABSENT", "CONFIRMED"}
              /\ CheckRows(posted, ReleaseHold(t))
              /\ reserved' = ReleaseHold(t)
              /\ status' = [status EXCEPT ![t] = "FAILED"]
              /\ UNCHANGED <<posted, ledger>>
<1>1. FailTransfer(TxFailed(t, c)) /\ TxFailed(t, c).transfer = t
  BY DEF Handle, TxFailed
<1> QED  BY <1>1 DEF FailTransfer

-----------------------------------------------------------------------------
(* Type correctness.                                                       *)

\* What post_entries writes has the type of ledger rows, and the snapshots it
\* leaves are integers.
LEMMA PostTypes ==
    ASSUME TypeOK, NEW ps \in SUBSET LedgerEntries, NEW r, Post(ps, r)
    PROVE  posted' \in [Users -> Int] /\ ledger' \subseteq LedgerEntries
<1>1. Written(ps) \subseteq ps
  BY DEF Written
<1>2. \A u \in Users : PostEntries(ps)[u] \in Int
  <2> SUFFICES ASSUME NEW u \in Users PROVE PostEntries(ps)[u] \in Int
    OBVIOUS
  <2>1. CASE \E p \in Written(ps) : p.user = u
    <3> DEFINE q == CHOOSE p \in Written(ps) : p.user = u
    <3>1. q \in Written(ps)
      BY <2>1
    <3>2. q.amount \in Int
      BY <3>1, <1>1 DEF LedgerEntries
    <3> QED  BY <2>1, <3>2 DEF PostEntries, TypeOK
  <2>2. CASE ~\E p \in Written(ps) : p.user = u
    BY <2>2 DEF PostEntries, TypeOK
  <2> QED  BY <2>1, <2>2
<1>3. PostEntries(ps) \in [Users -> Int]
  BY <1>2 DEF PostEntries
<1> QED  BY <1>1, <1>3 DEF Post, TypeOK

\* The postings the handlers build are ledger rows.
LEMMA PostingTypes ==
    ASSUME TypeOK
    PROVE  /\ \A t \in TransferIds : status[t] # "ABSENT" =>
                 /\ SettlementPostings(t) \subseteq LedgerEntries
                 /\ ReversalPostings(t) \subseteq LedgerEntries
           /\ \A d \in Deposits, b \in Blocks : Owner[d] \in Users =>
                 CreditPosting(d, b) \in LedgerEntries
                 /\ ClawbackPosting(d, b) \in LedgerEntries
<1>1. \A t \in TransferIds : status[t] # "ABSENT" =>
         body[t].from \in Users /\ body[t].to \in Users /\ body[t].amount \in Int
  <2> SUFFICES ASSUME NEW t \in TransferIds, status[t] # "ABSENT"
               PROVE  body[t].from \in Users /\ body[t].to \in Users /\ body[t].amount \in Int
    OBVIOUS
  <2>1. body[t] \in TransferRows
    BY DEF TypeOK
  <2> QED  BY <2>1, AmountsAreInts DEF TransferRows
<1>2. \A d \in Deposits : DepositAmount[d] \in Int
  <2>1. \A d \in Deposits : DepositAmount[d] \in Amounts
    BY DepositsAssumption
  <2> QED  BY <2>1, AmountsAreInts
<1>3. /\ \A t \in TransferIds : TransferRef(t) \in References
      /\ \A d \in Deposits, b \in Blocks : DepositRef(d, b) \in References
  BY DEF References
<1> QED
  BY <1>1, <1>2, <1>3
  DEF SettlementPostings, ReversalPostings, CreditPosting, ClawbackPosting, Posting,
      LedgerEntries, EntryTypes

\* Releasing the hold of a row keeps the reserved column an integer.
LEMMA ReleaseHoldType ==
    ASSUME TypeOK, NEW t \in TransferIds, status[t] # "ABSENT"
    PROVE  ReleaseHold(t) \in [Users -> Int]
<1>1. body[t] \in TransferRows
  BY DEF TypeOK
<1>2. body[t].from \in Users /\ body[t].amount \in Int
  BY <1>1, AmountsAreInts DEF TransferRows
<1> QED  BY <1>2 DEF TypeOK, ReleaseHold

\* What a handler leaves in the tables it writes is well typed.
LEMMA HandleTypes ==
    ASSUME TypeOK, NEW e \in Events, Handle(e)
    PROVE  /\ posted' \in [Users -> Int]
           /\ reserved' \in [Users -> Int]
           /\ ledger' \subseteq LedgerEntries
           /\ status' \in [TransferIds -> TransferStatus \cup {"ABSENT"}]
           /\ \A t \in TransferIds : (status'[t] = "ABSENT") <=> (status[t] = "ABSENT")
<1> DEFINE MoneyOK == /\ posted' \in [Users -> Int]
                      /\ reserved' \in [Users -> Int]
                      /\ ledger' \subseteq LedgerEntries
           StatusOK == /\ status' \in [TransferIds -> TransferStatus \cup {"ABSENT"}]
                       /\ \A t \in TransferIds : (status'[t] = "ABSENT") <=> (status[t] = "ABSENT")
<1>a. ASSUME UNCHANGED money PROVE MoneyOK
  BY <1>a DEF TypeOK, money
<1>b. ASSUME UNCHANGED reserved, NEW ps \in SUBSET LedgerEntries, Post(ps, reserved)
      PROVE  MoneyOK
  <2>1. reserved' \in [Users -> Int]
    BY <1>b DEF TypeOK
  <2> QED  BY <2>1, <1>b, PostTypes
<1>c. ASSUME UNCHANGED status PROVE StatusOK
  BY <1>c DEF TypeOK
<1>d. ASSUME NEW t \in TransferIds, status[t] # "ABSENT",
             NEW s \in Open \cup Terminal, status' = [status EXCEPT ![t] = s]
      PROVE  StatusOK
  BY <1>d DEF TypeOK, TransferStatus, Open, Terminal
<1>1. ASSUME NEW d \in Deposits, NEW b \in Blocks, e = Detected(d, b)
      PROVE  MoneyOK /\ StatusOK
  <2>1. UNCHANGED money /\ UNCHANGED status
    BY <1>1, OnDetected
  <2> QED  BY <2>1, <1>a, <1>c
<1>2. ASSUME NEW d \in Deposits, NEW b \in Blocks, e = Confirmed(d, b)
      PROVE  MoneyOK /\ StatusOK
  <2>1. CASE Owner[d] \notin wallets
    <3>1. UNCHANGED money /\ UNCHANGED status
      BY <1>2, <2>1, OnConfirmed
    <3> QED  BY <3>1, <1>a, <1>c
  <2>2. CASE Owner[d] \in wallets
    <3>1. Post({CreditPosting(d, b)}, reserved) /\ UNCHANGED reserved /\ UNCHANGED status
      BY <1>2, <2>2, OnConfirmed
    <3>2. {CreditPosting(d, b)} \in SUBSET LedgerEntries
      BY <2>2, PostingTypes DEF TypeOK
    <3> QED  BY <3>1, <3>2, <1>b, <1>c
  <2> QED  BY <2>1, <2>2
<1>3. ASSUME NEW d \in Deposits, NEW b \in Blocks, NEW w \in BOOLEAN, e = Reorged(d, b, w)
      PROVE  MoneyOK /\ StatusOK
  <2>1. CASE ~w \/ Owner[d] \notin wallets
    <3>1. UNCHANGED money /\ UNCHANGED status
      BY <1>3, <2>1, OnReorged
    <3> QED  BY <3>1, <1>a, <1>c
  <2>2. CASE w /\ Owner[d] \in wallets
    <3>1. Post({ClawbackPosting(d, b)}, reserved) /\ UNCHANGED reserved /\ UNCHANGED status
      BY <1>3, <2>2, OnReorged
    <3>2. {ClawbackPosting(d, b)} \in SUBSET LedgerEntries
      BY <2>2, PostingTypes DEF TypeOK
    <3> QED  BY <3>1, <3>2, <1>b, <1>c
  <2> QED  BY <2>1, <2>2
<1>4. ASSUME NEW t \in TransferIds, e = TxBroadcasted(t)
      PROVE  MoneyOK /\ StatusOK
  <2>1. UNCHANGED money /\ (UNCHANGED status \/
           (status[t] # "ABSENT" /\ status' = [status EXCEPT ![t] = "BROADCASTED"]))
    BY <1>4, OnTxBroadcasted
  <2> QED  BY <2>1, <1>a, <1>c, <1>d DEF Open
<1>5. ASSUME NEW t \in TransferIds, e = TxConfirmed(t)
      PROVE  MoneyOK /\ StatusOK
  <2>1. CASE status[t] \in Terminal \cup {"ABSENT"}
    <3>1. UNCHANGED money /\ UNCHANGED status
      BY <1>5, <2>1, OnTxConfirmed
    <3> QED  BY <3>1, <1>a, <1>c
  <2>2. CASE status[t] \notin Terminal \cup {"ABSENT"}
    <3>1. /\ Post(SettlementPostings(t), ReleaseHold(t))
          /\ reserved' = ReleaseHold(t)
          /\ status' = [status EXCEPT ![t] = "CONFIRMED"]
      BY <1>5, <2>2, OnTxConfirmed
    <3>2. SettlementPostings(t) \in SUBSET LedgerEntries
      BY <2>2, PostingTypes
    <3>3. MoneyOK
      BY <3>1, <3>2, <2>2, PostTypes, ReleaseHoldType
    <3>4. StatusOK
      BY <3>1, <2>2, <1>d DEF Terminal
    <3> QED  BY <3>3, <3>4
  <2> QED  BY <2>1, <2>2
<1>6. ASSUME NEW t \in TransferIds, NEW c \in FailureCodes, e = TxFailed(t, c)
      PROVE  MoneyOK /\ StatusOK
  <2>1. CASE status[t] \in {"FAILED", "ABSENT"}
    <3>1. UNCHANGED money /\ UNCHANGED status
      BY <1>6, <2>1, OnTxFailed
    <3> QED  BY <3>1, <1>a, <1>c
  <2>2. CASE status[t] = "CONFIRMED"
    <3>1. /\ Post(ReversalPostings(t), reserved)
          /\ status' = [status EXCEPT ![t] = "FAILED"]
          /\ UNCHANGED reserved
      BY <1>6, <2>2, OnTxFailed
    <3>2. ReversalPostings(t) \in SUBSET LedgerEntries
      BY <2>2, PostingTypes
    <3> QED  BY <3>1, <3>2, <2>2, <1>b, <1>d DEF Terminal
  <2>3. CASE status[t] \notin {"FAILED", "ABSENT", "CONFIRMED"}
    <3>1. /\ reserved' = ReleaseHold(t)
          /\ status' = [status EXCEPT ![t] = "FAILED"]
          /\ UNCHANGED <<posted, ledger>>
      BY <1>6, <2>3, OnTxFailed
    <3>2. MoneyOK
      BY <3>1, <2>3, ReleaseHoldType DEF TypeOK
    <3> QED  BY <3>1, <3>2, <2>3, <1>d DEF Terminal
  <2> QED  BY <2>1, <2>2, <2>3
<1> QED  BY <1>1, <1>2, <1>3, <1>4, <1>5, <1>6, EventKinds

\* What the CHECK constraints accept is not overdrawn.
LEMMA ChecksHold ==
    ASSUME NEW p \in [Users -> Int], NEW r \in [Users -> Int], CheckRows(p, r)
    PROVE  \A u \in Users : r[u] >= 0 /\ p[u] >= r[u]
BY DEF CheckRows

\* No handler leaves a balance the CHECK constraints refuse.
LEMMA HandleChecks ==
    ASSUME TypeOK, NEW e \in Events, Handle(e)
    PROVE  \A u \in Users : reserved'[u] >= 0 /\ posted'[u] >= reserved'[u]
<1>0. posted' \in [Users -> Int] /\ reserved' \in [Users -> Int]
  BY HandleTypes
<1>1. ASSUME UNCHANGED money
      PROVE  \A u \in Users : reserved'[u] >= 0 /\ posted'[u] >= reserved'[u]
  BY <1>1 DEF TypeOK, money
<1>2. ASSUME NEW ps, Post(ps, reserved')
      PROVE  CheckRows(posted', reserved')
  BY <1>2 DEF Post
<1>3. UNCHANGED money \/ CheckRows(posted', reserved')
  <2>1. ASSUME NEW d \in Deposits, NEW b \in Blocks, e = Detected(d, b)
        PROVE  UNCHANGED money
    BY <2>1, OnDetected
  <2>2. ASSUME NEW d \in Deposits, NEW b \in Blocks, e = Confirmed(d, b)
        PROVE  UNCHANGED money \/ CheckRows(posted', reserved')
    BY <2>2, <1>2, OnConfirmed
  <2>3. ASSUME NEW d \in Deposits, NEW b \in Blocks, NEW w \in BOOLEAN, e = Reorged(d, b, w)
        PROVE  UNCHANGED money \/ CheckRows(posted', reserved')
    BY <2>3, <1>2, OnReorged
  <2>4. ASSUME NEW t \in TransferIds, e = TxBroadcasted(t) PROVE UNCHANGED money
    BY <2>4, OnTxBroadcasted
  <2>5. ASSUME NEW t \in TransferIds, e = TxConfirmed(t)
        PROVE  UNCHANGED money \/ CheckRows(posted', reserved')
    BY <2>5, <1>2, OnTxConfirmed
  <2>6. ASSUME NEW t \in TransferIds, NEW c \in FailureCodes, e = TxFailed(t, c)
        PROVE  UNCHANGED money \/ CheckRows(posted', reserved')
    BY <2>6, <1>2, OnTxFailed
  <2> QED  BY <2>1, <2>2, <2>3, <2>4, <2>5, <2>6, EventKinds
<1> QED  BY <1>0, <1>1, <1>3, ChecksHold

\* TypeOK holds initially.
LEMMA InitTypes == Init => TypeOK
BY DEF Init, TypeOK, TransferStatus

\* Every step keeps TypeOK.
LEMMA NextTypes == TypeOK /\ [Next]_vars => TypeOK'
<1> SUFFICES ASSUME TypeOK, [Next]_vars PROVE TypeOK'
  OBVIOUS
<1>0. ASSUME UNCHANGED vars PROVE TypeOK'
  BY <1>0 DEF TypeOK, vars
<1>1. ASSUME NEW u \in Users, IssueAddress(u) \/ CreateWallet(u) PROVE TypeOK'
  BY <1>1 DEF IssueAddress, CreateWallet, TypeOK, money, transferRows, consumerRows
<1>2. ASSUME NEW k \in Keys, NEW r \in Requests, NEW t \in TransferIds, PostTransfer(k, r, t)
      PROVE  TypeOK'
  <2>1. r.from \in Users /\ r.to \in Users /\ r.amount \in Amounts /\ r.amount \in Int
    BY AmountsAreInts DEF Requests
  <2>2. /\ reserved' \in [Users -> Int]
        /\ \A u \in Users : reserved'[u] >= 0 /\ posted[u] >= reserved'[u]
    <3>1. reserved' = PlaceHold(r.from, r.amount) /\ CheckRows(posted, reserved')
      BY <1>2 DEF PostTransfer
    <3>2. reserved' \in [Users -> Int]
      BY <3>1, <2>1 DEF PlaceHold, TypeOK
    <3> QED  BY <3>1, <3>2, ChecksHold DEF TypeOK
  <2>3. /\ body' \in [TransferIds -> TransferRows \cup {NoRow}]
        /\ \A v \in TransferIds : status'[v] # "ABSENT" => body'[v] \in TransferRows
    BY <1>2, <2>1 DEF PostTransfer, TypeOK, TransferRows
  <2>4. status' \in [TransferIds -> TransferStatus \cup {"ABSENT"}]
    BY <1>2 DEF PostTransfer, TypeOK, TransferStatus, Open
  <2>5. idem' \in [Keys -> [request : Requests, transfer : TransferIds] \cup {NoClaim}]
    BY <1>2 DEF PostTransfer, TypeOK
  <2>6. replies' \subseteq [key : Keys, request : Requests, transfer : TransferIds]
    BY <1>2 DEF PostTransfer, TypeOK
  <2>7. outbox' \in [TransferIds -> {"none", "queued", "sent", "published"}]
    BY <1>2 DEF PostTransfer, TypeOK
  <2>8. UNCHANGED <<issued, wallets, posted, ledger, processed, ignored, raised, dead>>
    BY <1>2 DEF PostTransfer, addresses, consumerRows
  <2> QED  BY <2>2, <2>3, <2>4, <2>5, <2>6, <2>7, <2>8 DEF TypeOK
<1>3. ASSUME NEW k \in Keys, NEW r \in Requests, RefuseTransfer(k, r)
      PROVE  TypeOK'
  BY <1>3, <1>0 DEF RefuseTransfer
<1>4. ASSUME NEW k \in Keys, NEW r \in Requests, ReplayTransfer(k, r)
      PROVE  TypeOK'
  <2>1. idem[k].transfer \in TransferIds
    BY <1>4 DEF ReplayTransfer, TypeOK
  <2>2. replies' \subseteq [key : Keys, request : Requests, transfer : TransferIds]
    BY <1>4, <2>1 DEF ReplayTransfer, TypeOK
  <2>3. UNCHANGED <<issued, wallets, posted, reserved, ledger, status, body, idem, outbox,
                    processed, ignored, raised, dead>>
    BY <1>4 DEF ReplayTransfer, addresses, money, consumerRows
  <2> QED  BY <2>2, <2>3 DEF TypeOK
<1>5. ASSUME NEW t \in TransferIds, RelayPublish(t) PROVE TypeOK'
  <2>1. outbox' \in [TransferIds -> {"none", "queued", "sent", "published"}]
    BY <1>5 DEF RelayPublish, TypeOK
  <2>2. UNCHANGED <<issued, wallets, posted, reserved, ledger, status, body, idem, replies,
                    processed, ignored, raised, dead>>
    BY <1>5 DEF RelayPublish, addresses, money, consumerRows
  <2> QED  BY <2>1, <2>2 DEF TypeOK
<1>6. ASSUME AdvanceProgress PROVE TypeOK'
  <2>1. /\ status' \in [TransferIds -> TransferStatus \cup {"ABSENT"}]
        /\ \A t \in TransferIds : status'[t] # "ABSENT" => body[t] \in TransferRows
    BY <1>6 DEF AdvanceProgress, TypeOK, TransferStatus, Open
  <2>2. UNCHANGED <<issued, wallets, posted, reserved, ledger, body, idem, replies, outbox,
                    processed, ignored, raised, dead>>
    BY <1>6 DEF AdvanceProgress, addresses, money, consumerRows
  <2> QED  BY <2>1, <2>2 DEF TypeOK
<1>7. ASSUME NEW e \in Events, Dispatch(e) PROVE TypeOK'
  <2>1. /\ Handle(e)
        /\ processed' = processed \cup {e}
        /\ ignored' \in {ignored, ignored \cup {e}}
        /\ UNCHANGED <<issued, wallets, body, idem, replies, outbox, raised, dead>>
    BY <1>7 DEF Dispatch, addresses
  <2> QED  BY <2>1, HandleTypes, HandleChecks DEF TypeOK
<1>8. ASSUME NEW e \in Events, DispatchDuplicate(e) PROVE TypeOK'
  BY <1>8, <1>0 DEF DispatchDuplicate
<1>9. ASSUME NEW e \in Events, DispatchRaises(e) PROVE TypeOK'
  <2>1. /\ raised' = raised \cup {e}
        /\ dead' \in {dead, dead \cup {e}}
        /\ UNCHANGED <<issued, wallets, posted, reserved, ledger, status, body, idem, replies,
                       outbox, processed, ignored>>
    BY <1>9 DEF DispatchRaises, addresses, money, transferRows
  <2> QED  BY <2>1 DEF TypeOK
<1> QED
  BY <1>0, <1>1, <1>2, <1>3, <1>4, <1>5, <1>6, <1>7, <1>8, <1>9 DEF Next

\* Every table of wallet-service stays well typed and no balance is overdrawn,
\* whatever is delivered, twice or out of order.
THEOREM TypeCorrect == Spec => []TypeOK
BY InitTypes, NextTypes, PTL DEF Spec

-----------------------------------------------------------------------------
(* Transfers.                                                              *)

\* Events of different kinds or about different transfers are different.
LEMMA TransferEventsDiffer ==
    /\ \A t, v : /\ TxBroadcasted(t) = TxBroadcasted(v) => t = v
                 /\ TxConfirmed(t) = TxConfirmed(v) => t = v
                 /\ TxBroadcasted(t) # TxConfirmed(v)
    /\ \A t, v, c, a : /\ TxFailed(t, c) = TxFailed(v, a) => t = v
                       /\ TxFailed(t, c) # TxBroadcasted(v)
                       /\ TxFailed(t, c) # TxConfirmed(v)
    /\ \A t, c, d, b : /\ TxBroadcasted(t) # Detected(d, b)
                       /\ TxBroadcasted(t) # Confirmed(d, b)
                       /\ TxConfirmed(t) # Detected(d, b)
                       /\ TxConfirmed(t) # Confirmed(d, b)
                       /\ TxFailed(t, c) # Detected(d, b)
                       /\ TxFailed(t, c) # Confirmed(d, b)
    /\ \A t, c, d, b, w : /\ TxBroadcasted(t) # Reorged(d, b, w)
                          /\ TxConfirmed(t) # Reorged(d, b, w)
                          /\ TxFailed(t, c) # Reorged(d, b, w)
BY DEF TxBroadcasted, TxConfirmed, TxFailed, Detected, Confirmed, Reorged

\* Which rows of transfers a step of Dispatch can touch: only the one its event
\* names, and that one exists and is requested.
LEMMA DispatchTouches ==
    ASSUME NEW e \in Events, Dispatch(e), TypeOK, RequestFirst
    PROVE  /\ \A t \in TransferIds : (status'[t] = "ABSENT") <=> (status[t] = "ABSENT")
           /\ processed' = processed \cup {e}
           /\ \A t \in TransferIds : status[t] = "ABSENT" /\ t \notin ForeignIds =>
                 /\ e # TxBroadcasted(t)
                 /\ e # TxConfirmed(t)
                 /\ \A c \in FailureCodes : e # TxFailed(t, c)
<1>1. Handle(e) /\ Deliverable(e) /\ processed' = processed \cup {e}
  BY DEF Dispatch
<1>2. ASSUME NEW t \in TransferIds, status[t] = "ABSENT", t \notin ForeignIds,
             e \in TransferEvents
      PROVE  e.transfer # t
  BY <1>1, <1>2 DEF Deliverable, RequestFirst
<1>3. \A t \in TransferIds : status[t] = "ABSENT" /\ t \notin ForeignIds =>
         /\ e # TxBroadcasted(t)
         /\ e # TxConfirmed(t)
         /\ \A c \in FailureCodes : e # TxFailed(t, c)
  BY <1>2 DEF TransferEvents, TxBroadcasted, TxConfirmed, TxFailed
<1>4. \A t \in TransferIds : (status'[t] = "ABSENT") <=> (status[t] = "ABSENT")
  BY <1>1, HandleTypes
<1> QED  BY <1>1, <1>3, <1>4

\* Nothing is processed about a transfer before its row exists.
LEMMA NextRequestFirst ==
    TypeOK /\ RequestFirst /\ [Next]_vars => RequestFirst'
<1> SUFFICES ASSUME TypeOK, RequestFirst, [Next]_vars PROVE RequestFirst'
  OBVIOUS
<1>0. ASSUME UNCHANGED <<status, outbox, processed>> PROVE RequestFirst'
  BY <1>0 DEF RequestFirst
<1>1. ASSUME NEW u \in Users, IssueAddress(u) \/ CreateWallet(u) PROVE RequestFirst'
  BY <1>1, <1>0 DEF IssueAddress, CreateWallet, transferRows, consumerRows
<1>2. ASSUME NEW k \in Keys, NEW r \in Requests, NEW t \in TransferIds, PostTransfer(k, r, t)
      PROVE  RequestFirst'
  BY <1>2 DEF PostTransfer, TypeOK, RequestFirst, consumerRows
<1>3. ASSUME NEW k \in Keys, NEW r \in Requests, RefuseTransfer(k, r) PROVE RequestFirst'
  BY <1>3, <1>0 DEF RefuseTransfer, vars
<1>4. ASSUME NEW k \in Keys, NEW r \in Requests, ReplayTransfer(k, r) PROVE RequestFirst'
  BY <1>4, <1>0 DEF ReplayTransfer, consumerRows
<1>5. ASSUME NEW t \in TransferIds, RelayPublish(t) PROVE RequestFirst'
  BY <1>5 DEF RelayPublish, TypeOK, RequestFirst, consumerRows
<1>6. ASSUME AdvanceProgress PROVE RequestFirst'
  BY <1>6 DEF AdvanceProgress, TypeOK, RequestFirst, consumerRows
<1>7. ASSUME NEW e \in Events, Dispatch(e) PROVE RequestFirst'
  <2>1. UNCHANGED outbox
    BY <1>7 DEF Dispatch
  <2> QED  BY <2>1, <1>7, DispatchTouches DEF RequestFirst
<1>8. ASSUME NEW e \in Events, DispatchDuplicate(e) PROVE RequestFirst'
  BY <1>8, <1>0 DEF DispatchDuplicate, vars
<1>9. ASSUME NEW e \in Events, DispatchRaises(e) PROVE RequestFirst'
  BY <1>9, <1>0 DEF DispatchRaises, transferRows
<1>10. ASSUME UNCHANGED vars PROVE RequestFirst'
  BY <1>10, <1>0 DEF vars
<1> QED
  BY <1>1, <1>2, <1>3, <1>4, <1>5, <1>6, <1>7, <1>8, <1>9, <1>10 DEF Next

\* One row of TransfersFollowEvents.
FollowsEvents(t) ==
    LET failed == \E c \in FailureCodes : TxFailed(t, c) \in processed
        confirmed == TxConfirmed(t) \in processed
        broadcasted == TxBroadcasted(t) \in processed
    IN status[t] # "ABSENT" =>
          /\ status[t] = "FAILED" <=> failed
          /\ status[t] = "CONFIRMED" <=> confirmed /\ ~failed
          /\ status[t] = "BROADCASTED" <=> broadcasted /\ ~confirmed /\ ~failed

\* The status a transfer has stays a function of the set of events applied.
LEMMA NextFollowsEvents ==
    TypeOK /\ RequestFirst /\ TransfersFollowEvents /\ [Next]_vars => TransfersFollowEvents'
<1> SUFFICES ASSUME TypeOK, RequestFirst, TransfersFollowEvents, [Next]_vars,
                    NEW v \in TransferIds
             PROVE  FollowsEvents(v)'
  BY DEF TransfersFollowEvents, FollowsEvents
<1>a. FollowsEvents(v)
  BY DEF TransfersFollowEvents, FollowsEvents
<1>0. ASSUME UNCHANGED <<status, processed>> PROVE FollowsEvents(v)'
  BY <1>0, <1>a DEF FollowsEvents
<1>1. ASSUME NEW u \in Users, IssueAddress(u) \/ CreateWallet(u) PROVE FollowsEvents(v)'
  BY <1>1, <1>0 DEF IssueAddress, CreateWallet, transferRows, consumerRows
<1>2. ASSUME NEW k \in Keys, NEW r \in Requests, NEW t \in TransferIds, PostTransfer(k, r, t)
      PROVE  FollowsEvents(v)'
  BY <1>2, <1>a DEF PostTransfer, TypeOK, RequestFirst, FollowsEvents, consumerRows
<1>3. ASSUME NEW k \in Keys, NEW r \in Requests, RefuseTransfer(k, r) PROVE FollowsEvents(v)'
  BY <1>3, <1>0 DEF RefuseTransfer, vars
<1>4. ASSUME NEW k \in Keys, NEW r \in Requests, ReplayTransfer(k, r) PROVE FollowsEvents(v)'
  BY <1>4, <1>0 DEF ReplayTransfer, consumerRows
<1>5. ASSUME NEW t \in TransferIds, RelayPublish(t) PROVE FollowsEvents(v)'
  BY <1>5, <1>0 DEF RelayPublish, consumerRows
<1>6. ASSUME AdvanceProgress PROVE FollowsEvents(v)'
  BY <1>6, <1>a DEF AdvanceProgress, TypeOK, FollowsEvents, consumerRows
<1>7. ASSUME NEW e \in Events, Dispatch(e) PROVE FollowsEvents(v)'
  <2>0. Handle(e) /\ processed' = processed \cup {e}
    BY <1>7 DEF Dispatch
  <2>1. ASSUME UNCHANGED status,
               e # TxBroadcasted(v), e # TxConfirmed(v),
               \A c \in FailureCodes : e # TxFailed(v, c)
        PROVE  FollowsEvents(v)'
    BY <2>0, <2>1, <1>a DEF FollowsEvents
  <2>2. ASSUME NEW d \in Deposits, NEW b \in Blocks, e = Detected(d, b)
        PROVE  FollowsEvents(v)'
    BY <2>0, <2>1, <2>2, OnDetected, TransferEventsDiffer
  <2>3. ASSUME NEW d \in Deposits, NEW b \in Blocks, e = Confirmed(d, b)
        PROVE  FollowsEvents(v)'
    BY <2>0, <2>1, <2>3, OnConfirmed, TransferEventsDiffer
  <2>4. ASSUME NEW d \in Deposits, NEW b \in Blocks, NEW w \in BOOLEAN, e = Reorged(d, b, w)
        PROVE  FollowsEvents(v)'
    BY <2>0, <2>1, <2>4, OnReorged, TransferEventsDiffer
  <2>5. ASSUME NEW t \in TransferIds, e = TxBroadcasted(t) PROVE FollowsEvents(v)'
    <3>1. \/ status[t] \in Terminal \cup {"ABSENT"} /\ UNCHANGED status
          \/ /\ status[t] \notin Terminal \cup {"ABSENT"}
             /\ status' = [status EXCEPT ![t] = "BROADCASTED"]
      BY <2>0, <2>5, OnTxBroadcasted
    <3>2. /\ \A c \in FailureCodes : e # TxFailed(v, c)
          /\ e # TxConfirmed(v)
          /\ e = TxBroadcasted(v) <=> t = v
      BY <2>5, TransferEventsDiffer
    <3> QED  BY <2>0, <3>1, <3>2, <1>a DEF FollowsEvents, TypeOK, Terminal
  <2>6. ASSUME NEW t \in TransferIds, e = TxConfirmed(t) PROVE FollowsEvents(v)'
    <3>1. \/ status[t] \in Terminal \cup {"ABSENT"} /\ UNCHANGED status
          \/ /\ status[t] \notin Terminal \cup {"ABSENT"}
             /\ status' = [status EXCEPT ![t] = "CONFIRMED"]
      BY <2>0, <2>6, OnTxConfirmed
    <3>2. /\ \A c \in FailureCodes : e # TxFailed(v, c)
          /\ e # TxBroadcasted(v)
          /\ e = TxConfirmed(v) <=> t = v
      BY <2>6, TransferEventsDiffer
    <3> QED  BY <2>0, <3>1, <3>2, <1>a DEF FollowsEvents, TypeOK, Terminal
  <2>7. ASSUME NEW t \in TransferIds, NEW c \in FailureCodes, e = TxFailed(t, c)
        PROVE  FollowsEvents(v)'
    <3>1. \/ status[t] \in {"FAILED", "ABSENT"} /\ UNCHANGED status
          \/ /\ status[t] \notin {"FAILED", "ABSENT"}
             /\ status' = [status EXCEPT ![t] = "FAILED"]
      BY <2>0, <2>7, OnTxFailed
    <3>2. /\ e # TxConfirmed(v) /\ e # TxBroadcasted(v)
          /\ (\E a \in FailureCodes : e = TxFailed(v, a)) <=> t = v
      BY <2>7, TransferEventsDiffer
    <3>3. (\E a \in FailureCodes : TxFailed(v, a) \in processed')
             <=> (\E a \in FailureCodes : TxFailed(v, a) \in processed) \/ t = v
      BY <2>0, <3>2
    <3> QED  BY <2>0, <3>1, <3>2, <3>3, <1>a DEF FollowsEvents, TypeOK
  <2> QED  BY <2>2, <2>3, <2>4, <2>5, <2>6, <2>7, EventKinds
<1>8. ASSUME NEW e \in Events, DispatchDuplicate(e) PROVE FollowsEvents(v)'
  BY <1>8, <1>0 DEF DispatchDuplicate, vars
<1>9. ASSUME NEW e \in Events, DispatchRaises(e) PROVE FollowsEvents(v)'
  BY <1>9, <1>0 DEF DispatchRaises, transferRows
<1>10. ASSUME UNCHANGED vars PROVE FollowsEvents(v)'
  BY <1>10, <1>0 DEF vars
<1> QED
  BY <1>1, <1>2, <1>3, <1>4, <1>5, <1>6, <1>7, <1>8, <1>9, <1>10 DEF Next

\* In whatever order and however often the events of a transfer arrive, its
\* status is the one the set of applied events determines.
THEOREM TransfersConverge == Spec => []TransfersFollowEvents
<1>1. Init => TypeOK /\ RequestFirst /\ TransfersFollowEvents
  <2>1. ASSUME Init PROVE RequestFirst /\ TransfersFollowEvents
    BY <2>1 DEF Init, RequestFirst, TransfersFollowEvents
  <2> QED  BY <2>1, InitTypes
<1>2. TypeOK /\ RequestFirst /\ TransfersFollowEvents /\ [Next]_vars
        => (TypeOK /\ RequestFirst /\ TransfersFollowEvents)'
  BY NextTypes, NextRequestFirst, NextFollowsEvents
<1> QED  BY <1>1, <1>2, PTL DEF Spec

-----------------------------------------------------------------------------
(* The ledger.                                                             *)

EntriesOf(r) == {l \in ledger : l.ref = r}

\* post_entries writes under the reference of its postings and no other, and it
\* writes all of them when none of their keys is taken.
LEMMA PostWrites ==
    ASSUME NEW ps, NEW r, NEW hold, Post(ps, hold), \A p \in ps : p.ref = r
    PROVE  /\ \A q : q # r => EntriesOf(q)' = EntriesOf(q)
           /\ (\A p \in ps : \A l \in EntriesOf(r) : p.user # l.user \/ p.type # l.type)
                 => EntriesOf(r)' = EntriesOf(r) \cup ps
<1>1. ledger' = ledger \cup Written(ps)
  BY DEF Post
<1>2. Written(ps) \subseteq ps
  BY DEF Written
<1>3. ASSUME NEW q, q # r PROVE EntriesOf(q)' = EntriesOf(q)
  BY <1>1, <1>2, <1>3 DEF EntriesOf
<1>4. ASSUME \A p \in ps : \A l \in EntriesOf(r) : p.user # l.user \/ p.type # l.type
      PROVE  EntriesOf(r)' = EntriesOf(r) \cup ps
  <2>1. Written(ps) = ps
    BY <1>4 DEF Written, SameKey, EntriesOf
  <2> QED  BY <1>1, <2>1 DEF EntriesOf
<1> QED  BY <1>3, <1>4

\* One row of PostingsFollowTransfers.
PostingsOK(t) ==
    /\ status[t] \in Open \cup {"ABSENT"} => EntriesOf(TransferRef(t)) = {}
    /\ status[t] = "CONFIRMED" => EntriesOf(TransferRef(t)) = SettlementPostings(t)
    /\ status[t] = "FAILED" =>
          EntriesOf(TransferRef(t)) \in {{}, SettlementPostings(t) \cup ReversalPostings(t)}

\* The handlers keep a transfer and its postings in step.
LEMMA DispatchPostings ==
    ASSUME TypeOK, PostingsFollowTransfers, NEW e \in Events, Dispatch(e),
           NEW v \in TransferIds
    PROVE  PostingsOK(v)'
<1>0. Handle(e) /\ UNCHANGED body
  BY DEF Dispatch
<1>1. \A t \in TransferIds : PostingsOK(t)
  BY DEF PostingsFollowTransfers, PostingsOK, EntriesOf
<1>2. /\ SettlementPostings(v)' = SettlementPostings(v)
      /\ ReversalPostings(v)' = ReversalPostings(v)
      /\ TransferRef(v)' = TransferRef(v)
  BY <1>0 DEF SettlementPostings, ReversalPostings, TransferRef
<1>3. ASSUME UNCHANGED status,
             EntriesOf(TransferRef(v))' = EntriesOf(TransferRef(v))
      PROVE  PostingsOK(v)'
  BY <1>1, <1>2, <1>3 DEF PostingsOK
<1>4. ASSUME UNCHANGED ledger
      PROVE  EntriesOf(TransferRef(v))' = EntriesOf(TransferRef(v))
  BY <1>4 DEF EntriesOf, TransferRef
<1>5. ASSUME NEW t \in TransferIds, t # v, NEW s, status' = [status EXCEPT ![t] = s],
             EntriesOf(TransferRef(v))' = EntriesOf(TransferRef(v))
      PROVE  PostingsOK(v)'
  BY <1>1, <1>2, <1>5 DEF PostingsOK, TypeOK
<1>6. ASSUME NEW ps, NEW r, NEW hold, Post(ps, hold), \A p \in ps : p.ref = r,
             r # TransferRef(v)
      PROVE  EntriesOf(TransferRef(v))' = EntriesOf(TransferRef(v))
  BY <1>6, PostWrites, <1>2
<1>7. ASSUME NEW d \in Deposits, NEW b \in Blocks,
             \/ e = Detected(d, b)
             \/ e = Confirmed(d, b)
             \/ \E w \in BOOLEAN : e = Reorged(d, b, w)
      PROVE  PostingsOK(v)'
  <2>1. /\ UNCHANGED status
        /\ \/ UNCHANGED ledger
           \/ Post({CreditPosting(d, b)}, reserved)
           \/ Post({ClawbackPosting(d, b)}, reserved)
    BY <1>0, <1>7, OnDetected, OnConfirmed, OnReorged DEF money
  <2>2. /\ \A p \in {CreditPosting(d, b)} : p.ref = DepositRef(d, b)
        /\ \A p \in {ClawbackPosting(d, b)} : p.ref = DepositRef(d, b)
    BY DEF CreditPosting, ClawbackPosting, Posting
  <2>3. DepositRef(d, b) # TransferRef(v)
    BY ReferencesDiffer
  <2> QED  BY <2>1, <2>2, <2>3, <1>3, <1>4, <1>6
<1>8. ASSUME NEW t \in TransferIds, e = TxBroadcasted(t) PROVE PostingsOK(v)'
  <2>1. /\ EntriesOf(TransferRef(v))' = EntriesOf(TransferRef(v))
        /\ \/ UNCHANGED status
           \/ /\ status[t] \notin Terminal \cup {"ABSENT"}
              /\ status' = [status EXCEPT ![t] = "BROADCASTED"]
    BY <1>0, <1>8, <1>4, OnTxBroadcasted DEF money
  <2>2. CASE t # v
    BY <2>1, <2>2, <1>3, <1>5
  <2>3. CASE t = v /\ UNCHANGED status
    BY <2>1, <2>3, <1>3
  <2>4. CASE t = v /\ status[t] \notin Terminal \cup {"ABSENT"}
             /\ status' = [status EXCEPT ![t] = "BROADCASTED"]
    BY <2>1, <2>4, <1>1, <1>2 DEF PostingsOK, TypeOK, TransferStatus, Open, Terminal
  <2> QED  BY <2>1, <2>2, <2>3, <2>4
<1>9. \A t \in TransferIds :
         /\ \A p \in SettlementPostings(t) :
               p.ref = TransferRef(t) /\ p.type \in {"TRANSFER_DEBIT", "TRANSFER_CREDIT"}
         /\ \A p \in ReversalPostings(t) : p.ref = TransferRef(t) /\ p.type = "REVERSAL"
  BY DEF SettlementPostings, ReversalPostings, Posting
<1>10. ASSUME NEW t \in TransferIds, e = TxConfirmed(t) PROVE PostingsOK(v)'
  <2>1. CASE status[t] \in Terminal \cup {"ABSENT"}
    BY <1>0, <1>10, <2>1, <1>3, <1>4, OnTxConfirmed DEF money, Terminal
  <2>2. CASE status[t] \notin Terminal \cup {"ABSENT"}
    <3>1. /\ Post(SettlementPostings(t), ReleaseHold(t))
          /\ status' = [status EXCEPT ![t] = "CONFIRMED"]
      BY <1>0, <1>10, <2>2, OnTxConfirmed
    <3>2. CASE t # v
      <4>1. TransferRef(t) # TransferRef(v)
        BY <3>2, ReferencesDiffer
      <4>2. EntriesOf(TransferRef(v))' = EntriesOf(TransferRef(v))
        BY <3>1, <4>1, <1>9, <1>6
      <4> QED  BY <3>1, <3>2, <4>2, <1>5
    <3>3. CASE t = v
      <4>1. EntriesOf(TransferRef(t)) = {}
        BY <2>2, <1>1 DEF PostingsOK, TypeOK, TransferStatus, Terminal
      <4>2. EntriesOf(TransferRef(t))' = SettlementPostings(t)
        BY <3>1, <4>1, <1>9, PostWrites
      <4>3. status'[v] = "CONFIRMED"
        BY <3>1, <3>3 DEF TypeOK
      <4> QED  BY <4>2, <4>3, <3>3, <1>2 DEF PostingsOK, Open
    <3> QED  BY <3>2, <3>3
  <2> QED  BY <2>1, <2>2
<1>11. ASSUME NEW t \in TransferIds, NEW c \in FailureCodes, e = TxFailed(t, c)
       PROVE  PostingsOK(v)'
  <2>1. CASE status[t] \in {"FAILED", "ABSENT"}
    BY <1>0, <1>11, <2>1, <1>3, <1>4, OnTxFailed DEF money
  <2>2. CASE status[t] = "CONFIRMED"
    <3>1. /\ Post(ReversalPostings(t), reserved)
          /\ status' = [status EXCEPT ![t] = "FAILED"]
      BY <1>0, <1>11, <2>2, OnTxFailed
    <3>2. CASE t # v
      <4>1. TransferRef(t) # TransferRef(v)
        BY <3>2, ReferencesDiffer
      <4>2. EntriesOf(TransferRef(v))' = EntriesOf(TransferRef(v))
        BY <3>1, <4>1, <1>9, <1>6
      <4> QED  BY <3>1, <3>2, <4>2, <1>5
    <3>3. CASE t = v
      <4>1. EntriesOf(TransferRef(t)) = SettlementPostings(t)
        BY <2>2, <1>1 DEF PostingsOK
      <4>2. EntriesOf(TransferRef(t))' = SettlementPostings(t) \cup ReversalPostings(t)
        BY <3>1, <4>1, <1>9, PostWrites
      <4>3. status'[v] = "FAILED"
        BY <3>1, <3>3 DEF TypeOK
      <4> QED  BY <4>2, <4>3, <3>3, <1>2 DEF PostingsOK, Open
    <3> QED  BY <3>2, <3>3
  <2>3. CASE status[t] \notin {"FAILED", "ABSENT", "CONFIRMED"}
    <3>1. /\ EntriesOf(TransferRef(v))' = EntriesOf(TransferRef(v))
          /\ status' = [status EXCEPT ![t] = "FAILED"]
      BY <1>0, <1>11, <2>3, <1>4, OnTxFailed
    <3>2. CASE t # v
      BY <3>1, <3>2, <1>5
    <3>3. CASE t = v
      <4>1. EntriesOf(TransferRef(v)) = {}
        BY <2>3, <3>3, <1>1 DEF PostingsOK, TypeOK, TransferStatus, Terminal
      <4> QED  BY <3>1, <3>3, <4>1 DEF PostingsOK, TypeOK, Open
    <3> QED  BY <3>2, <3>3
  <2> QED  BY <2>1, <2>2, <2>3
<1> QED  BY <1>7, <1>8, <1>10, <1>11, EventKinds

\* Every step keeps transfers and postings in step.
LEMMA NextPostings ==
    TypeOK /\ PostingsFollowTransfers /\ [Next]_vars => PostingsFollowTransfers'
<1> SUFFICES ASSUME TypeOK, PostingsFollowTransfers, [Next]_vars, NEW v \in TransferIds
             PROVE  PostingsOK(v)'
  BY DEF PostingsFollowTransfers, PostingsOK, EntriesOf
<1>a. PostingsOK(v)
  BY DEF PostingsFollowTransfers, PostingsOK, EntriesOf
<1>0. ASSUME UNCHANGED <<ledger, status, body>> PROVE PostingsOK(v)'
  BY <1>0, <1>a
  DEF PostingsOK, EntriesOf, SettlementPostings, ReversalPostings, TransferRef
<1>1. ASSUME NEW u \in Users, IssueAddress(u) \/ CreateWallet(u) PROVE PostingsOK(v)'
  BY <1>1, <1>0 DEF IssueAddress, CreateWallet, money, transferRows
<1>2. ASSUME NEW k \in Keys, NEW r \in Requests, NEW t \in TransferIds, PostTransfer(k, r, t)
      PROVE  PostingsOK(v)'
  <2>1. /\ UNCHANGED ledger
        /\ status[t] = "ABSENT"
        /\ status' = [status EXCEPT ![t] = "CREATED"]
        /\ v # t => body'[v] = body[v]
    BY <1>2 DEF PostTransfer, TypeOK
  <2>2. EntriesOf(TransferRef(v))' = EntriesOf(TransferRef(v))
    BY <2>1 DEF EntriesOf, TransferRef
  <2>3. CASE v = t
    BY <2>1, <2>2, <2>3, <1>a DEF PostingsOK, TypeOK
  <2>4. CASE v # t
    <3>1. /\ SettlementPostings(v)' = SettlementPostings(v)
          /\ ReversalPostings(v)' = ReversalPostings(v)
          /\ status'[v] = status[v]
      BY <2>1, <2>4 DEF SettlementPostings, ReversalPostings, TransferRef, TypeOK
    <3> QED  BY <3>1, <2>2, <1>a DEF PostingsOK
  <2> QED  BY <2>3, <2>4
<1>3. ASSUME NEW k \in Keys, NEW r \in Requests, RefuseTransfer(k, r) PROVE PostingsOK(v)'
  BY <1>3, <1>0 DEF RefuseTransfer, vars
<1>4. ASSUME NEW k \in Keys, NEW r \in Requests, ReplayTransfer(k, r) PROVE PostingsOK(v)'
  BY <1>4, <1>0 DEF ReplayTransfer, money
<1>5. ASSUME NEW t \in TransferIds, RelayPublish(t) PROVE PostingsOK(v)'
  BY <1>5, <1>0 DEF RelayPublish, money
<1>6. ASSUME AdvanceProgress PROVE PostingsOK(v)'
  <2>1. /\ UNCHANGED <<ledger, body>>
        /\ status'[v] = status[v] \/ (status[v] = "CREATED" /\ status'[v] = "PROCESSING")
    BY <1>6 DEF AdvanceProgress, money, TypeOK
  <2>2. /\ EntriesOf(TransferRef(v))' = EntriesOf(TransferRef(v))
        /\ SettlementPostings(v)' = SettlementPostings(v)
        /\ ReversalPostings(v)' = ReversalPostings(v)
    BY <2>1 DEF EntriesOf, TransferRef, SettlementPostings, ReversalPostings
  <2> QED  BY <2>1, <2>2, <1>a DEF PostingsOK, Open
<1>7. ASSUME NEW e \in Events, Dispatch(e) PROVE PostingsOK(v)'
  BY <1>7, DispatchPostings
<1>8. ASSUME NEW e \in Events, DispatchDuplicate(e) PROVE PostingsOK(v)'
  BY <1>8, <1>0 DEF DispatchDuplicate, vars
<1>9. ASSUME NEW e \in Events, DispatchRaises(e) PROVE PostingsOK(v)'
  BY <1>9, <1>0 DEF DispatchRaises, transferRows, money
<1>10. ASSUME UNCHANGED vars PROVE PostingsOK(v)'
  BY <1>10, <1>0 DEF vars
<1> QED
  BY <1>1, <1>2, <1>3, <1>4, <1>5, <1>6, <1>7, <1>8, <1>9, <1>10 DEF Next

\* Double entry: a transfer is never half posted, half reversed, or posted while
\* it is open or after it failed.
THEOREM DoubleEntry == Spec => []PostingsFollowTransfers
<1>1. Init => TypeOK /\ PostingsFollowTransfers
  <2>1. ASSUME Init PROVE PostingsFollowTransfers
    BY <2>1 DEF Init, PostingsFollowTransfers
  <2> QED  BY <2>1, InitTypes
<1>2. TypeOK /\ PostingsFollowTransfers /\ [Next]_vars
        => (TypeOK /\ PostingsFollowTransfers)'
  BY NextTypes, NextPostings
<1> QED  BY <1>1, <1>2, PTL DEF Spec

\* The events that were not ignored.
Applied == processed \ ignored

\* One row of DepositsFollowEvents.
DepositOK(d, b) ==
    EntriesOf(DepositRef(d, b)) =
        (IF Confirmed(d, b) \in Applied THEN {CreditPosting(d, b)} ELSE {})
        \cup (IF Reorged(d, b, TRUE) \in Applied THEN {ClawbackPosting(d, b)} ELSE {})

\* The deposit handlers write exactly the entry their event stands for.
LEMMA DispatchDeposits ==
    ASSUME TypeOK, DepositsFollowEvents, NEW e \in Events, Dispatch(e),
           NEW d \in Deposits, NEW b \in Blocks
    PROVE  DepositOK(d, b)'
<1>0. /\ Handle(e)
      /\ Applied' = IF Ignores(e) THEN Applied ELSE Applied \cup {e}
      /\ e \notin Applied
  BY DEF Dispatch, Applied, TypeOK
<1>1. DepositOK(d, b)
  BY DEF DepositsFollowEvents, DepositOK, EntriesOf, Applied
<1>2. ASSUME EntriesOf(DepositRef(d, b))' = EntriesOf(DepositRef(d, b)),
             e # Confirmed(d, b), e # Reorged(d, b, TRUE)
      PROVE  DepositOK(d, b)'
  BY <1>0, <1>1, <1>2
  DEF DepositOK, DepositRef, CreditPosting, ClawbackPosting, Confirmed, Reorged
<1>r. DepositRef(d, b)' = DepositRef(d, b)
  BY DEF DepositRef
<1>3. ASSUME UNCHANGED ledger
      PROVE  EntriesOf(DepositRef(d, b))' = EntriesOf(DepositRef(d, b))
  BY <1>3 DEF EntriesOf, DepositRef
<1>4. ASSUME NEW ps, NEW r, NEW hold, Post(ps, hold), \A p \in ps : p.ref = r,
             r # DepositRef(d, b)
      PROVE  EntriesOf(DepositRef(d, b))' = EntriesOf(DepositRef(d, b))
  BY <1>4, <1>r, PostWrites
<1>5. \A c \in Deposits, a \in Blocks :
         /\ CreditPosting(c, a).ref = DepositRef(c, a)
         /\ CreditPosting(c, a).type = "DEPOSIT"
         /\ ClawbackPosting(c, a).ref = DepositRef(c, a)
         /\ ClawbackPosting(c, a).type = "REVERSAL"
  BY DEF CreditPosting, ClawbackPosting, Posting
<1>6. ASSUME NEW c \in Deposits, NEW a \in Blocks, e = Detected(c, a)
      PROVE  DepositOK(d, b)'
  <2>1. UNCHANGED ledger
    BY <1>0, <1>6, OnDetected DEF money
  <2>2. e # Confirmed(d, b) /\ e # Reorged(d, b, TRUE)
    BY <1>6 DEF Detected, Confirmed, Reorged
  <2> QED  BY <2>1, <2>2, <1>2, <1>3
<1>7. /\ \A c \in Deposits, a \in Blocks :
            e = Confirmed(c, a) => (Ignores(e) <=> Owner[c] \notin wallets)
      /\ \A c \in Deposits, a \in Blocks :
            e = Reorged(c, a, TRUE) => (Ignores(e) <=> Owner[c] \notin wallets)
  BY DEF Ignores, Confirmed, Reorged
<1>8. ASSUME NEW c \in Deposits, NEW a \in Blocks, a \in MinedIn[c], e = Confirmed(c, a)
      PROVE  DepositOK(d, b)'
  <2>1. Ignores(e) <=> Owner[c] \notin wallets
    BY <1>7, <1>8
  <2>2. e # Reorged(d, b, TRUE)
    BY <1>8 DEF Confirmed, Reorged
  <2>3. CASE <<c, a>> # <<d, b>>
    <3>1. e # Confirmed(d, b) /\ DepositRef(c, a) # DepositRef(d, b)
      BY <1>8, <2>3, ReferencesDiffer DEF Confirmed
    <3>2. UNCHANGED ledger \/ Post({CreditPosting(c, a)}, reserved)
      BY <1>0, <1>8, OnConfirmed DEF money
    <3> QED  BY <3>1, <3>2, <2>2, <1>2, <1>3, <1>4, <1>5
  <2>4. CASE c = d /\ a = b /\ Ignores(e)
    <3>1. UNCHANGED ledger
      BY <1>0, <1>8, <2>1, <2>4, OnConfirmed DEF money
    <3> QED
      BY <3>1, <2>4, <1>0, <1>1, <1>3
      DEF DepositOK, DepositRef, CreditPosting, ClawbackPosting, Confirmed, Reorged
  <2>5. CASE c = d /\ a = b /\ ~Ignores(e)
    <3>1. Post({CreditPosting(d, b)}, reserved)
      BY <1>0, <1>8, <2>1, <2>5, OnConfirmed
    <3>2. \A l \in EntriesOf(DepositRef(d, b)) : l.type = "REVERSAL"
      BY <1>0, <1>1, <1>5, <1>8, <2>5 DEF DepositOK
    <3>3. EntriesOf(DepositRef(d, b))' = EntriesOf(DepositRef(d, b)) \cup {CreditPosting(d, b)}
      BY <3>1, <3>2, <1>5, <1>r, PostWrites
    <3>4. /\ Confirmed(d, b) \in Applied'
          /\ Reorged(d, b, TRUE) \in Applied' <=> Reorged(d, b, TRUE) \in Applied
          /\ Confirmed(d, b) \notin Applied
      BY <1>0, <1>8, <2>2, <2>5
    <3> QED
      BY <3>3, <3>4, <2>5, <1>1
      DEF DepositOK, DepositRef, CreditPosting, ClawbackPosting, Confirmed, Reorged
  <2> QED  BY <2>3, <2>4, <2>5
<1>9. ASSUME NEW c \in Deposits, NEW a \in Blocks, NEW w \in BOOLEAN, a \in MinedIn[c],
             e = Reorged(c, a, w)
      PROVE  DepositOK(d, b)'
  <2>1. w = TRUE => (Ignores(e) <=> Owner[c] \notin wallets)
    BY <1>7, <1>9
  <2>2. e # Confirmed(d, b)
    BY <1>9 DEF Confirmed, Reorged
  <2>3. CASE ~(c = d /\ a = b /\ w = TRUE)
    <3>1. e # Reorged(d, b, TRUE)
      BY <1>9, <2>3 DEF Reorged
    <3>2. \/ UNCHANGED ledger
          \/ w = TRUE /\ Post({ClawbackPosting(c, a)}, reserved)
      BY <1>0, <1>9, OnReorged DEF money
    <3>3. CASE UNCHANGED ledger
      BY <3>1, <3>3, <2>2, <1>2, <1>3
    <3>4. CASE w = TRUE /\ Post({ClawbackPosting(c, a)}, reserved)
      <4>1. DepositRef(c, a) # DepositRef(d, b)
        BY <2>3, <3>4, ReferencesDiffer
      <4> QED  BY <3>1, <3>4, <4>1, <2>2, <1>2, <1>4, <1>5
    <3> QED  BY <3>2, <3>3, <3>4
  <2>4. CASE c = d /\ a = b /\ w = TRUE /\ Ignores(e)
    <3>1. UNCHANGED ledger
      BY <1>0, <1>9, <2>1, <2>4, OnReorged DEF money
    <3> QED
      BY <3>1, <2>4, <1>0, <1>1, <1>3
      DEF DepositOK, DepositRef, CreditPosting, ClawbackPosting, Confirmed, Reorged
  <2>5. CASE c = d /\ a = b /\ w = TRUE /\ ~Ignores(e)
    <3>1. Post({ClawbackPosting(d, b)}, reserved)
      BY <1>0, <1>9, <2>1, <2>5, OnReorged
    <3>2. \A l \in EntriesOf(DepositRef(d, b)) : l.type = "DEPOSIT"
      BY <1>0, <1>1, <1>5, <1>9, <2>5 DEF DepositOK
    <3>3. EntriesOf(DepositRef(d, b))'
             = EntriesOf(DepositRef(d, b)) \cup {ClawbackPosting(d, b)}
      BY <3>1, <3>2, <1>5, <1>r, PostWrites
    <3>4. /\ Reorged(d, b, TRUE) \in Applied'
          /\ Confirmed(d, b) \in Applied' <=> Confirmed(d, b) \in Applied
          /\ Reorged(d, b, TRUE) \notin Applied
      BY <1>0, <1>9, <2>2, <2>5
    <3> QED
      BY <3>3, <3>4, <2>5, <1>1
      DEF DepositOK, DepositRef, CreditPosting, ClawbackPosting, Confirmed, Reorged
  <2> QED  BY <2>3, <2>4, <2>5
<1>10. ASSUME NEW t \in TransferIds, e \in TransferEvents,
              \/ e = TxBroadcasted(t)
              \/ e = TxConfirmed(t)
              \/ \E c \in FailureCodes : e = TxFailed(t, c)
       PROVE  DepositOK(d, b)'
  <2>1. \/ UNCHANGED ledger
        \/ Post(SettlementPostings(t), ReleaseHold(t))
        \/ Post(ReversalPostings(t), reserved)
    BY <1>0, <1>10, OnTxBroadcasted, OnTxConfirmed, OnTxFailed DEF money
  <2>2. /\ \A p \in SettlementPostings(t) : p.ref = TransferRef(t)
        /\ \A p \in ReversalPostings(t) : p.ref = TransferRef(t)
    BY DEF SettlementPostings, ReversalPostings, Posting
  <2>3. TransferRef(t) # DepositRef(d, b)
    BY ReferencesDiffer
  <2>4. e # Confirmed(d, b) /\ e # Reorged(d, b, TRUE)
    BY <1>10, TransferEventsDiffer
  <2> QED  BY <2>1, <2>2, <2>3, <2>4, <1>2, <1>3, <1>4
<1> QED
  BY <1>6, <1>8, <1>9, <1>10, EventKinds DEF TransferEvents

\* Every step keeps deposits and their ledger entries in step.
LEMMA NextDeposits ==
    TypeOK /\ DepositsFollowEvents /\ [Next]_vars => DepositsFollowEvents'
<1> SUFFICES ASSUME TypeOK, DepositsFollowEvents, [Next]_vars,
                    NEW d \in Deposits, NEW b \in Blocks
             PROVE  DepositOK(d, b)'
  BY DEF DepositsFollowEvents, DepositOK, EntriesOf, Applied
<1>0. ASSUME UNCHANGED <<ledger, processed, ignored>> PROVE DepositOK(d, b)'
  BY <1>0 DEF DepositsFollowEvents, DepositOK, EntriesOf, Applied
<1>1. ASSUME NEW e \in Events, Dispatch(e) PROVE DepositOK(d, b)'
  BY <1>1, DispatchDeposits
<1>2. UNCHANGED <<ledger, processed, ignored>> \/ \E e \in Events : Dispatch(e)
  BY DEF Next, vars, money, transferRows, consumerRows, IssueAddress, CreateWallet, PostTransfer,
         RefuseTransfer, ReplayTransfer, RelayPublish, AdvanceProgress,
         DispatchDuplicate, DispatchRaises
<1> QED  BY <1>0, <1>1, <1>2

\* A deposit is credited once per block it confirmed in and taken back once per
\* block it was reorged out of, in every order of delivery.
THEOREM DepositsExact == Spec => []DepositsFollowEvents
<1>1. Init => TypeOK /\ DepositsFollowEvents
  <2>1. ASSUME Init PROVE DepositsFollowEvents
    BY <2>1 DEF Init, DepositsFollowEvents
  <2> QED  BY <2>1, InitTypes
<1>2. TypeOK /\ DepositsFollowEvents /\ [Next]_vars
        => (TypeOK /\ DepositsFollowEvents)'
  BY NextTypes, NextDeposits
<1> QED  BY <1>1, <1>2, PTL DEF Spec

-----------------------------------------------------------------------------
(* Idempotency keys.                                                       *)

\* Every step keeps replies, claims and rows linked.
LEMMA NextKeys == TypeOK /\ RequestFirst /\ KeysLinked /\ [Next]_vars => KeysLinked'
<1> SUFFICES ASSUME TypeOK, RequestFirst, KeysLinked, [Next]_vars PROVE KeysLinked'
  OBVIOUS
<1>0. ASSUME UNCHANGED <<replies, idem, body>>,
             \A t \in TransferIds : (status'[t] = "ABSENT") <=> (status[t] = "ABSENT")
      PROVE  KeysLinked'
  BY <1>0 DEF KeysLinked
<1>1. ASSUME NEW k \in Keys, NEW r \in Requests, NEW t \in TransferIds, PostTransfer(k, r, t)
      PROVE  KeysLinked'
  <2>1. /\ idem[k] = NoClaim
        /\ status[t] = "ABSENT"
        /\ idem' = [idem EXCEPT ![k] = [request |-> r, transfer |-> t]]
        /\ replies' = replies \cup {[key |-> k, request |-> r, transfer |-> t]}
        /\ status' = [status EXCEPT ![t] = "CREATED"]
        /\ body'[t].key = k
        /\ \A v \in TransferIds : v # t => body'[v] = body[v]
    BY <1>1 DEF PostTransfer, TypeOK
  <2>2. /\ idem'[k] = [request |-> r, transfer |-> t]
        /\ \A j \in Keys : j # k => idem'[j] = idem[j]
    BY <2>1 DEF TypeOK
  <2>3. \A q \in Requests : \A v : [request |-> q, transfer |-> v] # NoClaim
    <3>1. \A q \in Requests : q.from # NoRow.from
      BY UsersAssumption DEF Requests, NoRow
    <3> QED  BY <3>1 DEF NoClaim
  <2>4. \A p \in replies : p.key \in Keys /\ p.key # k
    <3> SUFFICES ASSUME NEW p \in replies PROVE p.key \in Keys /\ p.key # k
      OBVIOUS
    <3>1. p.key \in Keys /\ p.request \in Requests
      BY DEF TypeOK
    <3>2. idem[p.key] = [request |-> p.request, transfer |-> p.transfer]
      BY DEF KeysLinked
    <3> QED  BY <3>1, <3>2, <2>1, <2>3
  <2>5. \A v \in TransferIds : status[v] # "ABSENT" => body[v].key \in Keys /\ body[v].key # k
    BY <2>1 DEF KeysLinked, TypeOK, TransferRows
  <2>6. \A p \in replies' : idem'[p.key] = [request |-> p.request, transfer |-> p.transfer]
    <3> SUFFICES ASSUME NEW p \in replies'
                 PROVE  idem'[p.key] = [request |-> p.request, transfer |-> p.transfer]
      OBVIOUS
    <3>1. CASE p \in replies
      <4>1. idem[p.key] = [request |-> p.request, transfer |-> p.transfer]
        BY <3>1 DEF KeysLinked
      <4> QED  BY <4>1, <3>1, <2>2, <2>4
    <3>2. CASE p = [key |-> k, request |-> r, transfer |-> t]
      BY <3>2, <2>2
    <3> QED  BY <3>1, <3>2, <2>1
  <2>7. ASSUME NEW v \in TransferIds, status'[v] # "ABSENT"
        PROVE  idem'[body'[v].key] # NoClaim /\ idem'[body'[v].key].transfer = v
    <3>1. CASE v = t
      BY <3>1, <2>1, <2>2, <2>3
    <3>2. CASE v # t
      <4>1. status[v] # "ABSENT" /\ body'[v] = body[v]
        BY <3>2, <2>1, <2>7 DEF TypeOK
      <4> QED  BY <4>1, <2>2, <2>5 DEF KeysLinked
    <3> QED  BY <3>1, <3>2
  <2> QED  BY <2>6, <2>7 DEF KeysLinked
<1>2. ASSUME NEW k \in Keys, NEW r \in Requests, ReplayTransfer(k, r) PROVE KeysLinked'
  <2>1. /\ idem[k] # NoClaim
        /\ UNCHANGED <<idem, body, status>>
        /\ \A p \in replies' :
              \/ p \in replies
              \/ /\ idem[k].request = r
                 /\ p = [key |-> k, request |-> r, transfer |-> idem[k].transfer]
    BY <1>2 DEF ReplayTransfer
  <2>2. idem[k] = [request |-> idem[k].request, transfer |-> idem[k].transfer]
    BY <2>1 DEF TypeOK
  <2> QED  BY <2>1, <2>2 DEF KeysLinked
<1>3. ASSUME AdvanceProgress PROVE KeysLinked'
  BY <1>3, <1>0 DEF AdvanceProgress, TypeOK
<1>4. ASSUME NEW e \in Events, Dispatch(e) PROVE KeysLinked'
  BY <1>4, <1>0, DispatchTouches DEF Dispatch
<1>5. \/ UNCHANGED <<replies, idem, body, status>>
      \/ \E k \in Keys, r \in Requests : \/ \E t \in TransferIds : PostTransfer(k, r, t)
                                         \/ ReplayTransfer(k, r)
      \/ AdvanceProgress
      \/ \E e \in Events : Dispatch(e)
  BY DEF Next, vars, transferRows, IssueAddress, CreateWallet, RefuseTransfer, RelayPublish,
         DispatchDuplicate, DispatchRaises
<1> QED  BY <1>0, <1>1, <1>2, <1>3, <1>4, <1>5

\* However often a request is retried under its key, it makes one transfer and
\* gets one answer.
THEOREM IdempotentRequests == Spec => []RepliesAreStable
<1>1. Init => TypeOK /\ RequestFirst /\ KeysLinked
  <2>1. ASSUME Init PROVE RequestFirst /\ KeysLinked
    BY <2>1 DEF Init, RequestFirst, KeysLinked
  <2> QED  BY <2>1, InitTypes
<1>2. TypeOK /\ RequestFirst /\ KeysLinked /\ [Next]_vars
        => (TypeOK /\ RequestFirst /\ KeysLinked)'
  BY NextTypes, NextRequestFirst, NextKeys
<1>3. TypeOK /\ KeysLinked => RepliesAreStable
  <2> SUFFICES ASSUME TypeOK, KeysLinked PROVE RepliesAreStable
    OBVIOUS
  <2>0. \A p \in replies : idem[p.key].request = p.request /\ idem[p.key].transfer = p.transfer
    <3> SUFFICES ASSUME NEW p \in replies
                 PROVE  idem[p.key].request = p.request /\ idem[p.key].transfer = p.transfer
      OBVIOUS
    <3>1. idem[p.key] = [request |-> p.request, transfer |-> p.transfer]
      BY DEF KeysLinked
    <3> QED  BY <3>1
  <2>1. ASSUME NEW p \in replies, NEW q \in replies, p.key = q.key PROVE p = q
    <3>1. p.request = q.request /\ p.transfer = q.transfer
      <4>1. /\ idem[p.key].request = p.request /\ idem[p.key].transfer = p.transfer
            /\ idem[q.key].request = q.request /\ idem[q.key].transfer = q.transfer
        BY <2>0
      <4> QED  BY <4>1, <2>1
    <3> QED  BY <3>1, <2>1 DEF TypeOK
  <2>2. ASSUME NEW p \in replies, NEW t \in TransferIds,
               status[t] # "ABSENT", body[t].key = p.key
        PROVE  t = p.transfer
    <3>1. idem[body[t].key].transfer = t
      BY <2>2 DEF KeysLinked
    <3> QED  BY <3>1, <2>0, <2>2
  <2> QED  BY <2>1, <2>2 DEF RepliesAreStable
<1> QED  BY <1>1, <1>2, <1>3, PTL DEF Spec

-----------------------------------------------------------------------------
(* Transfers never move back.                                              *)

\* The order of the statuses.
LEMMA Ranks ==
    /\ Rank("ABSENT") = 0 /\ Rank("CREATED") = 1 /\ Rank("PROCESSING") = 2
    /\ Rank("BROADCASTED") = 3 /\ Rank("CONFIRMED") = 4 /\ Rank("FAILED") = 5
BY DEF Rank

\* A step moves a transfer forward or leaves it where it is.
LEMMA NextForward ==
    TypeOK /\ [Next]_vars => \A t \in TransferIds : Rank(status'[t]) >= Rank(status[t])
<1> SUFFICES ASSUME TypeOK, [Next]_vars, NEW v \in TransferIds
             PROVE  Rank(status'[v]) >= Rank(status[v])
  OBVIOUS
<1>a. status[v] \in TransferStatus \cup {"ABSENT"}
  BY DEF TypeOK
<1>0. ASSUME status'[v] = status[v] PROVE Rank(status'[v]) >= Rank(status[v])
  BY <1>0, <1>a, Ranks DEF TransferStatus, Open, Terminal
<1>1. ASSUME NEW k \in Keys, NEW r \in Requests, NEW t \in TransferIds, PostTransfer(k, r, t)
      PROVE  Rank(status'[v]) >= Rank(status[v])
  <2>1. status'[v] = status[v] \/ (status[v] = "ABSENT" /\ status'[v] = "CREATED")
    BY <1>1 DEF PostTransfer, TypeOK
  <2> QED  BY <2>1, <1>0, Ranks
<1>2. ASSUME AdvanceProgress PROVE Rank(status'[v]) >= Rank(status[v])
  <2>1. status'[v] = status[v] \/ (status[v] = "CREATED" /\ status'[v] = "PROCESSING")
    BY <1>2 DEF AdvanceProgress, TypeOK
  <2> QED  BY <2>1, <1>0, Ranks
<1>3. ASSUME NEW e \in Events, Dispatch(e) PROVE Rank(status'[v]) >= Rank(status[v])
  <2>0. Handle(e)
    BY <1>3 DEF Dispatch
  <2>1. ASSUME NEW d, NEW b, \/ e = Detected(d, b)
                             \/ e = Confirmed(d, b)
                             \/ \E w \in BOOLEAN : e = Reorged(d, b, w)
        PROVE  Rank(status'[v]) >= Rank(status[v])
    BY <2>0, <2>1, <1>0, OnDetected, OnConfirmed, OnReorged
  <2>2. ASSUME NEW t \in TransferIds, e = TxBroadcasted(t)
        PROVE  Rank(status'[v]) >= Rank(status[v])
    <3>1. \/ status'[v] = status[v]
          \/ status[v] \notin Terminal \cup {"ABSENT"} /\ status'[v] = "BROADCASTED"
      BY <2>0, <2>2, OnTxBroadcasted DEF TypeOK
    <3> QED  BY <3>1, <1>a, <1>0, Ranks DEF TransferStatus, Open, Terminal
  <2>3. ASSUME NEW t \in TransferIds, e = TxConfirmed(t)
        PROVE  Rank(status'[v]) >= Rank(status[v])
    <3>1. \/ status'[v] = status[v]
          \/ status[v] \notin Terminal \cup {"ABSENT"} /\ status'[v] = "CONFIRMED"
      BY <2>0, <2>3, OnTxConfirmed DEF TypeOK
    <3> QED  BY <3>1, <1>a, <1>0, Ranks DEF TransferStatus, Open, Terminal
  <2>4. ASSUME NEW t \in TransferIds, NEW c \in FailureCodes, e = TxFailed(t, c)
        PROVE  Rank(status'[v]) >= Rank(status[v])
    <3>1. status'[v] = status[v] \/ status'[v] = "FAILED"
      BY <2>0, <2>4, OnTxFailed DEF TypeOK
    <3> QED  BY <3>1, <1>a, <1>0, Ranks DEF TransferStatus, Open, Terminal
  <2> QED  BY <2>1, <2>2, <2>3, <2>4, EventKinds
<1>4. \/ UNCHANGED status
      \/ \E k \in Keys, r \in Requests, t \in TransferIds : PostTransfer(k, r, t)
      \/ AdvanceProgress
      \/ \E e \in Events : Dispatch(e)
  BY DEF Next, vars, transferRows, IssueAddress, CreateWallet, RefuseTransfer, ReplayTransfer,
         RelayPublish, DispatchDuplicate, DispatchRaises
<1> QED  BY <1>0, <1>1, <1>2, <1>3, <1>4

\* Neither a late event nor the progress worker moves a transfer back.
THEOREM TransfersMoveForward == Spec => StatusMovesForward
<1>1. TypeOK /\ [Next]_vars
        => [\A t \in TransferIds : Rank(status'[t]) >= Rank(status[t])]_vars
  BY NextForward
<1> QED  BY <1>1, TypeCorrect, PTL DEF Spec, StatusMovesForward
=============================================================================
