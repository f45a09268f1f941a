------------------------- MODULE BalanceLocksProofs -------------------------
(***************************************************************************)
(* Invariants of BalanceLocks proved for any number of worker replicas,     *)
(* requests, users and transfers.                                           *)
(***************************************************************************)
EXTENDS BalanceLocks, TLAPS
LOCAL INSTANCE SequencesExt
LOCAL INSTANCE FiniteSetTheorems

-----------------------------------------------------------------------------
(* Strengthenings. None is a goal of its own.                              *)

Jobs == UNION {{Create(t), Settle(t), Fail(t)} : t \in Transfers}

\* Requests are the clients' business and events the consumers'.
JobsOK ==
    /\ plan \in [Workers -> Seq(Rows)]
    /\ \A w \in Consumers : job[w].kind # "create"
    /\ \A w \in Clients : job[w] = Idle \/ job[w].kind = "create"

\* A request is about a transfer without a row and no other request makes one;
\* an event is about a transfer with a row.
RowsFirst ==
    /\ \A w \in Clients : job[w] # Idle => status[job[w].transfer] = "ABSENT"
    /\ \A w \in Consumers : job[w] # Idle => status[job[w].transfer] # "ABSENT"
    /\ \A v, w \in Clients :
          job[v] # Idle /\ job[w] # Idle /\ job[v].transfer = job[w].transfer => v = w

\* A request has the sender's balance row to lock, or nothing more.
RequestPlans ==
    \A w \in Clients : job[w] # Idle => plan[w] \in {CreateTransferRows(job[w].transfer), <<>>}

\* A handler that has read the transfer row keeps its lock, and what it has yet
\* to lock are the last rows of its decision.
HandlerPlans ==
    \A w \in Consumers : job[w] # Idle /\ plan[w] # <<TransferRow(job[w].transfer)>> =>
        /\ holder[TransferRow(job[w].transfer)] = w
        /\ IsSuffix(plan[w], HandlerRows(job[w]))

IInv == TypeOK /\ JobsOK /\ RowsFirst /\ RequestPlans /\ HandlerPlans

-----------------------------------------------------------------------------
(* Facts about suffixes, rows and jobs.                                    *)

\* A suffix agrees with the end of the sequence, counted from the end.
LEMMA SuffixIs ==
    ASSUME NEW X, NEW s \in Seq(X), NEW u \in Seq(X)
    PROVE  IsSuffix(s, u) <=> /\ Len(s) <= Len(u)
                              /\ \A i \in 1 .. Len(s) : s[Len(s) - i + 1] = u[Len(u) - i + 1]
<1> DEFINE rs == Reverse(s)
           ru == Reverse(u)
<1>1. Len(s) \in Nat /\ Len(u) \in Nat
  OBVIOUS
<1>2. /\ rs \in Seq(X) /\ Len(rs) = Len(s) /\ \A i \in 1 .. Len(s) : rs[i] = s[Len(s) - i + 1]
      /\ ru \in Seq(X) /\ Len(ru) = Len(u) /\ \A i \in 1 .. Len(u) : ru[i] = u[Len(u) - i + 1]
  BY <1>1 DEF Reverse
<1>3. IsSuffix(s, u) <=> Len(s) <= Len(u) /\ SubSeq(rs, 1, Len(s)) = SubSeq(ru, 1, Len(s))
  BY <1>2 DEF IsSuffix, IsPrefix
<1> HIDE DEF rs, ru
<1>4. ASSUME Len(s) <= Len(u)
      PROVE  SubSeq(rs, 1, Len(s)) = SubSeq(ru, 1, Len(s))
             <=> \A i \in 1 .. Len(s) : rs[i] = ru[i]
  <2> DEFINE a == SubSeq(rs, 1, Len(s))
             b == SubSeq(ru, 1, Len(s))
  <2>1. /\ a = [i \in 1 .. Len(s) |-> rs[i]] /\ b = [i \in 1 .. Len(s) |-> ru[i]]
    BY <1>1, <1>2, <1>4
  <2>2. /\ DOMAIN a = 1 .. Len(s) /\ \A i \in 1 .. Len(s) : a[i] = rs[i]
        /\ DOMAIN b = 1 .. Len(s) /\ \A i \in 1 .. Len(s) : b[i] = ru[i]
    BY <2>1
  <2> HIDE DEF a, b
  <2>3. a = b <=> \A i \in 1 .. Len(s) : rs[i] = ru[i]
    BY <2>1, <2>2
  <2> QED  BY <2>3 DEF a, b
<1>5. ASSUME Len(s) <= Len(u)
      PROVE  \A i \in 1 .. Len(s) : i \in 1 .. Len(u)
  BY <1>1, <1>5
<1> QED  BY <1>2, <1>3, <1>4, <1>5

\* A sequence is a suffix of itself.
LEMMA SuffixOfItself ==
    ASSUME NEW X, NEW s \in Seq(X)
    PROVE  IsSuffix(s, s)
BY SuffixIs

\* The tail of a suffix is one.
LEMMA TailOfSuffix ==
    ASSUME NEW X, NEW s \in Seq(X), NEW u \in Seq(X), s # <<>>, IsSuffix(s, u)
    PROVE  IsSuffix(Tail(s), u)
<1>1. /\ Tail(s) \in Seq(X) /\ Len(Tail(s)) = Len(s) - 1 /\ Len(s) \in Nat \ {0}
      /\ Len(u) \in Nat
      /\ \A i \in 1 .. Len(s) - 1 : Tail(s)[i] = s[i + 1]
  OBVIOUS
<1>2. /\ Len(s) <= Len(u)
      /\ \A i \in 1 .. Len(s) : s[Len(s) - i + 1] = u[Len(u) - i + 1]
  BY SuffixIs
<1>3. \A i \in 1 .. Len(s) - 1 : Tail(s)[(Len(s) - 1) - i + 1] = u[Len(u) - i + 1]
  BY <1>1, <1>2
<1>4. Len(Tail(s)) <= Len(u)
  BY <1>1, <1>2
<1>5. \A i \in 1 .. Len(Tail(s)) : Tail(s)[Len(Tail(s)) - i + 1] = u[Len(u) - i + 1]
  BY <1>1, <1>3
<1> QED  BY <1>1, <1>4, <1>5, SuffixIs

\* Transfer rows and balance rows are different rows.
LEMMA RowsDiffer ==
    /\ \A t, u : TransferRow(t) # BalanceRow(u)
    /\ \A t, u : TransferRow(t) = TransferRow(u) => t = u
BY DEF TransferRow, BalanceRow

\* What a handler goes on to lock are balance rows.
LEMMA HandlerRowsAre ==
    ASSUME NEW j, j.transfer \in Transfers
    PROVE  /\ HandlerRows(j) \in Seq(Rows)
           /\ \A i \in 1 .. Len(HandlerRows(j)) : \E u \in Users : HandlerRows(j)[i] = BalanceRow(u)
<1> DEFINE t == j.transfer
           a == BalanceRow(From[t])
           b == BalanceRow(To[t])
           B == {BalanceRow(u) : u \in Users}
<1>1. a \in B /\ b \in B
  BY PartiesAssumption
<1> HIDE DEF a, b, B
<1>2. <<>> \in Seq(B) /\ <<a>> \in Seq(B) /\ <<a, b>> \in Seq(B) /\ <<b, a>> \in Seq(B)
  BY <1>1
<1>3. HandlerRows(j) \in Seq(B)
  <2>1. PostEntriesRows(t) \in Seq(B) /\ ReleaseHoldRows(t) \in Seq(B)
    BY <1>2 DEF PostEntriesRows, ReleaseHoldRows, a, b
  <2>2. SettleTransferRows(t) \in Seq(B)
    BY <1>2, <2>1 DEF SettleTransferRows
  <2>3. FailTransferRows(t) \in Seq(B)
    BY <1>2, <2>1 DEF FailTransferRows
  <2> QED  BY <2>2, <2>3 DEF HandlerRows
<1>4. B \subseteq Rows
  BY DEF Rows, B
<1>5. HandlerRows(j) \in Seq(Rows) /\ \A i \in 1 .. Len(HandlerRows(j)) : HandlerRows(j)[i] \in B
  BY <1>3, <1>4
<1> QED  BY <1>5 DEF B

\* What a worker may be doing.
LEMMA JobIs ==
    ASSUME TypeOK, JobsOK, NEW w \in Workers
    PROVE  /\ job[w] # Idle => job[w].transfer \in Transfers /\ TransferRow(job[w].transfer) \in Rows
           /\ w \in Clients => job[w] = Idle \/ job[w] = Create(job[w].transfer)
           /\ w \in Consumers => \/ job[w] = Idle
                                 \/ job[w] = Settle(job[w].transfer)
                                 \/ job[w] = Fail(job[w].transfer)
           /\ plan[w] \in Seq(Rows)
<1>1. job[w] \in {Idle} \cup UNION {{Create(t), Settle(t), Fail(t)} : t \in Transfers}
  BY DEF TypeOK
<1>2. CASE job[w] = Idle
  BY <1>2 DEF JobsOK
<1>3. CASE job[w] # Idle
  <2>1. PICK t \in Transfers : job[w] \in {Create(t), Settle(t), Fail(t)}
    BY <1>1, <1>3
  <2>2. job[w].transfer = t
    BY <2>1 DEF Create, Settle, Fail
  <2>3. /\ w \in Clients => job[w] = Create(t)
        /\ w \in Consumers => job[w] = Settle(t) \/ job[w] = Fail(t)
    BY <1>3, <2>1 DEF JobsOK, Create, Settle, Fail
  <2> QED  BY <2>2, <2>3 DEF JobsOK, Rows
<1> QED  BY <1>2, <1>3

\* TypeOK from its parts: the plans are sequences of rows.
LEMMA TypeParts ==
    ASSUME JobsOK',
           job' \in [Workers -> {Idle} \cup UNION {{Create(t), Settle(t), Fail(t)} : t \in Transfers}],
           \A w \in Workers : job'[w] = Idle => plan'[w] = <<>>,
           holder' \in [Rows -> {w \in Workers : job'[w] # Idle} \cup {NoOne}],
           status' \in [Transfers -> {"ABSENT", "OPEN", "SETTLED", "FAILED"}]
    PROVE  TypeOK'
<1>1. \A w \in Workers : plan'[w] \in Seq(Rows)
  BY DEF JobsOK
<1>2. \A w \in Workers : Range(plan'[w]) \subseteq Rows
  BY <1>1 DEF Range
<1> QED  BY <1>2 DEF TypeOK

\* The worker's own state in one place.
LEMMA OfIInv ==
    ASSUME IInv
    PROVE  /\ TypeOK /\ JobsOK /\ RowsFirst /\ RequestPlans /\ HandlerPlans
           /\ job \in [Workers -> {Idle} \cup UNION {{Create(t), Settle(t), Fail(t)} : t \in Transfers}]
           /\ plan \in [Workers -> Seq(Rows)]
           /\ \A w \in Workers : job[w] = Idle => plan[w] = <<>>
           /\ holder \in [Rows -> {w \in Workers : job[w] # Idle} \cup {NoOne}]
           /\ status \in [Transfers -> {"ABSENT", "OPEN", "SETTLED", "FAILED"}]
           /\ \A w \in Workers : w # NoOne /\ ~(w \in Consumers /\ w \in Clients)
           /\ \A w \in Workers : w \in Consumers \/ w \in Clients
BY WorkersAssumption DEF IInv, TypeOK, JobsOK, Workers

-----------------------------------------------------------------------------
(* One lemma per action.                                                   *)

\* The first state.
LEMMA InitIInv == Init => IInv
<1> SUFFICES ASSUME Init PROVE IInv
  OBVIOUS
<1> USE DEF Init
<1>1. JobsOK
  BY DEF JobsOK, Workers, Idle
<1>2. TypeOK
  <2>1. Range(<<>>) = {}
    BY DEF Range
  <2> QED  BY <2>1 DEF TypeOK
<1>3. RowsFirst /\ RequestPlans /\ HandlerPlans
  BY DEF RowsFirst, RequestPlans, HandlerPlans, Workers
<1> QED  BY <1>1, <1>2, <1>3 DEF IInv

LEMMA BeginCreateKeeps ==
    ASSUME IInv, NEW w \in Clients, NEW t \in Transfers, BeginCreate(w, t)
    PROVE  IInv'
<1>1. /\ w \in Workers /\ job[w] = Idle /\ status[t] = "ABSENT"
      /\ \A v \in Workers : job[v] # Create(t)
      /\ job' = [job EXCEPT ![w] = Create(t)]
      /\ plan' = [plan EXCEPT ![w] = CreateTransferRows(t)]
      /\ UNCHANGED <<holder, status>>
  BY DEF BeginCreate, Begin, Create, Workers
<1>2. Create(t).kind = "create" /\ Create(t).transfer = t /\ Create(t) # Idle
  BY DEF Create, Idle
<1>3. CreateTransferRows(t) \in Seq(Rows)
  <2> DEFINE r == BalanceRow(From[t])
  <2>1. r \in Rows
    BY PartiesAssumption DEF Rows
  <2> HIDE DEF r
  <2>2. <<r>> \in Seq(Rows)
    BY <2>1
  <2> QED  BY <2>2 DEF CreateTransferRows, r
<1>4. \A v \in Workers : /\ job'[v] = IF v = w THEN Create(t) ELSE job[v]
                         /\ plan'[v] = IF v = w THEN CreateTransferRows(t) ELSE plan[v]
  BY <1>1, OfIInv
<1>5. JobsOK'
  <2>1. plan' \in [Workers -> Seq(Rows)]
    BY <1>1, <1>3, OfIInv
  <2> QED  BY <1>2, <1>4, <2>1, OfIInv DEF JobsOK, Workers
<1>6. TypeOK'
  <2>1. job' \in [Workers -> {Idle} \cup UNION {{Create(x), Settle(x), Fail(x)} : x \in Transfers}]
    BY <1>1, OfIInv
  <2>2. holder' \in [Rows -> {v \in Workers : job'[v] # Idle} \cup {NoOne}]
    BY <1>1, <1>2, <1>4, OfIInv
  <2> QED  BY <1>1, <1>2, <1>4, <1>5, <2>1, <2>2, OfIInv, TypeParts
<1>7. RowsFirst'
  <2>1. \A v \in Clients : job[v] # Idle => job[v].transfer # t
    BY <1>1, OfIInv, JobIs DEF Workers
  <2> QED  BY <1>1, <1>2, <1>4, <2>1, OfIInv DEF RowsFirst, Workers
<1>8. RequestPlans'
  BY <1>1, <1>2, <1>4, OfIInv DEF RequestPlans, CreateTransferRows, Workers
<1>9. HandlerPlans'
  BY <1>1, <1>4, OfIInv DEF HandlerPlans, HandlerRows, SettleTransferRows, FailTransferRows, Workers
<1> QED  BY <1>5, <1>6, <1>7, <1>8, <1>9 DEF IInv

LEMMA BeginEventKeeps ==
    ASSUME IInv, NEW w \in Consumers, NEW t \in Transfers, NEW j \in {Settle(t), Fail(t)},
           BeginEvent(w, j)
    PROVE  IInv'
<1>1. j.kind # "create" /\ j.transfer = t /\ j # Idle
  BY DEF Settle, Fail, Idle
<1>2. /\ w \in Workers /\ job[w] = Idle /\ status[t] # "ABSENT"
      /\ job' = [job EXCEPT ![w] = j]
      /\ plan' = [plan EXCEPT ![w] = <<TransferRow(t)>>]
      /\ UNCHANGED <<holder, status>>
  BY <1>1 DEF BeginEvent, Begin, Workers
<1>3. <<TransferRow(t)>> \in Seq(Rows)
  <2> DEFINE r == TransferRow(t)
  <2>1. r \in Rows
    BY DEF Rows
  <2> HIDE DEF r
  <2>2. <<r>> \in Seq(Rows)
    BY <2>1
  <2> QED  BY <2>2 DEF r
<1>4. \A v \in Workers : /\ job'[v] = IF v = w THEN j ELSE job[v]
                         /\ plan'[v] = IF v = w THEN <<TransferRow(t)>> ELSE plan[v]
  BY <1>2, OfIInv
<1>5. JobsOK'
  <2>1. plan' \in [Workers -> Seq(Rows)]
    BY <1>2, <1>3, OfIInv
  <2> QED  BY <1>1, <1>2, <1>4, <2>1, OfIInv DEF JobsOK, Workers
<1>6. TypeOK'
  <2>1. job' \in [Workers -> {Idle} \cup UNION {{Create(x), Settle(x), Fail(x)} : x \in Transfers}]
    BY <1>2, OfIInv
  <2>2. holder' \in [Rows -> {v \in Workers : job'[v] # Idle} \cup {NoOne}]
    BY <1>1, <1>2, <1>4, OfIInv
  <2> QED  BY <1>1, <1>2, <1>4, <1>5, <2>1, <2>2, OfIInv, TypeParts
<1>7. RowsFirst'
  BY <1>1, <1>2, <1>4, OfIInv DEF RowsFirst, Workers
<1>8. RequestPlans'
  BY <1>2, <1>4, OfIInv DEF RequestPlans, CreateTransferRows, Workers
<1>9. HandlerPlans'
  BY <1>1, <1>2, <1>4, OfIInv
     DEF HandlerPlans, HandlerRows, SettleTransferRows, FailTransferRows, Workers
<1> QED  BY <1>5, <1>6, <1>7, <1>8, <1>9 DEF IInv

LEMMA LoadForUpdateKeeps ==
    ASSUME IInv, NEW w \in Workers, LoadForUpdate(w)
    PROVE  IInv'
<1> DEFINE t == job[w].transfer
           r == TransferRow(t)
           rows == HandlerRows(job[w])
<1>1. /\ plan[w] # <<>> /\ Head(plan[w]) = r /\ holder[r] = NoOne
      /\ holder' = [holder EXCEPT ![r] = w]
      /\ plan' = [plan EXCEPT ![w] = rows]
      /\ UNCHANGED <<job, status>>
  BY DEF LoadForUpdate
<1>2. job[w] # Idle /\ t \in Transfers /\ r \in Rows
  BY <1>1, OfIInv, JobIs
<1>3. w \in Consumers
  <2> SUFFICES ASSUME w \in Clients PROVE FALSE
    BY OfIInv
  <2>1. plan[w] = <<BalanceRow(From[t])>>
    BY <1>1, <1>2, OfIInv DEF RequestPlans, CreateTransferRows
  <2>2. Head(plan[w]) = BalanceRow(From[t])
    BY <2>1
  <2> QED  BY <1>1, <2>2, RowsDiffer
<1>4. rows \in Seq(Rows) /\ IsSuffix(rows, rows)
  BY <1>2, HandlerRowsAre, SuffixOfItself
<1>5. \A v \in Workers : plan'[v] = IF v = w THEN rows ELSE plan[v]
  BY <1>1, OfIInv
<1>6. \A x \in Rows : holder'[x] = IF x = r THEN w ELSE holder[x]
  BY <1>1, OfIInv
<1>7. JobsOK'
  <2>1. plan' \in [Workers -> Seq(Rows)]
    BY <1>1, <1>4, OfIInv
  <2> QED  BY <1>1, <2>1, OfIInv DEF JobsOK
<1>8. TypeOK'
  <2>1. holder' \in [Rows -> {v \in Workers : job'[v] # Idle} \cup {NoOne}]
    BY <1>1, <1>2, OfIInv
  <2> QED  BY <1>1, <1>2, <1>5, <1>7, <2>1, OfIInv, TypeParts
<1>9. RowsFirst'
  BY <1>1, OfIInv DEF RowsFirst
<1>10. RequestPlans'
  BY <1>1, <1>3, <1>5, OfIInv DEF RequestPlans, CreateTransferRows, Workers
<1>11. HandlerPlans'
  <2> SUFFICES ASSUME NEW v \in Consumers, job[v] # Idle,
                      plan'[v] # <<TransferRow(job[v].transfer)>>
               PROVE  /\ holder'[TransferRow(job[v].transfer)] = v
                      /\ IsSuffix(plan'[v], HandlerRows(job[v]))
    BY <1>1 DEF HandlerPlans, HandlerRows, SettleTransferRows, FailTransferRows
  <2>1. v \in Workers /\ TransferRow(job[v].transfer) \in Rows
    BY OfIInv, JobIs DEF Workers
  <2>2. CASE v = w
    BY <1>2, <1>4, <1>5, <1>6, <2>2
  <2>3. CASE v # w
    <3>1. /\ holder[TransferRow(job[v].transfer)] = v
          /\ IsSuffix(plan[v], HandlerRows(job[v])) /\ plan'[v] = plan[v]
      BY <1>5, <2>1, <2>3, OfIInv DEF HandlerPlans
    <3>2. TransferRow(job[v].transfer) # r
      BY <1>1, <2>1, <3>1, OfIInv
    <3> QED  BY <1>6, <2>1, <3>1, <3>2
  <2> QED  BY <2>2, <2>3
<1> QED  BY <1>7, <1>8, <1>9, <1>10, <1>11 DEF IInv

LEMMA LockBalanceKeeps ==
    ASSUME IInv, NEW w \in Workers, LockBalance(w)
    PROVE  IInv'
<1> DEFINE t == job[w].transfer
           r == Head(plan[w])
<1>1. /\ plan[w] # <<>> /\ r # TransferRow(t) /\ holder[r] \in {NoOne, w}
      /\ holder' = [holder EXCEPT ![r] = w]
      /\ plan' = [plan EXCEPT ![w] = Tail(plan[w])]
      /\ UNCHANGED <<job, status>>
  BY DEF LockBalance
<1>2. job[w] # Idle /\ t \in Transfers /\ plan[w] \in Seq(Rows)
  BY <1>1, OfIInv, JobIs
<1>3. r \in Rows /\ Tail(plan[w]) \in Seq(Rows)
  BY <1>1, <1>2
<1>4. w \in Clients => \E u \in Users : r = BalanceRow(u) /\ Tail(plan[w]) = <<>>
  <2> SUFFICES ASSUME w \in Clients
               PROVE  \E u \in Users : r = BalanceRow(u) /\ Tail(plan[w]) = <<>>
    OBVIOUS
  <2>1. plan[w] = <<BalanceRow(From[t])>>
    BY <1>1, <1>2, OfIInv DEF RequestPlans, CreateTransferRows
  <2>2. From[t] \in Users
    BY <1>2, PartiesAssumption
  <2>3. r = BalanceRow(From[t]) /\ Tail(plan[w]) = <<>>
    BY <2>1
  <2> QED  BY <2>2, <2>3
<1>5. w \in Consumers => /\ \E u \in Users : r = BalanceRow(u)
                         /\ holder[TransferRow(t)] = w
                         /\ IsSuffix(Tail(plan[w]), HandlerRows(job[w]))
  <2> SUFFICES ASSUME w \in Consumers
               PROVE  /\ \E u \in Users : r = BalanceRow(u)
                      /\ holder[TransferRow(t)] = w
                      /\ IsSuffix(Tail(plan[w]), HandlerRows(job[w]))
    OBVIOUS
  <2> DEFINE rows == HandlerRows(job[w])
             s == plan[w]
  <2>1. plan[w] # <<TransferRow(t)>>
    <3>1. Head(<<TransferRow(t)>>) = TransferRow(t)
      OBVIOUS
    <3> QED  BY <1>1, <3>1
  <2>2. holder[TransferRow(t)] = w /\ IsSuffix(s, rows)
    BY <1>2, <2>1, OfIInv DEF HandlerPlans
  <2>3. /\ rows \in Seq(Rows)
        /\ \A i \in 1 .. Len(rows) : \E u \in Users : rows[i] = BalanceRow(u)
    BY <1>2, HandlerRowsAre
  <2> HIDE DEF rows
  <2>4. /\ Len(s) <= Len(rows)
        /\ \A i \in 1 .. Len(s) : s[Len(s) - i + 1] = rows[Len(rows) - i + 1]
    BY <1>2, <2>2, <2>3, SuffixIs
  <2>5. Len(s) \in Nat \ {0} /\ Len(rows) \in Nat /\ r = s[1]
    BY <1>1, <1>2, <2>3
  <2>6. r = rows[Len(rows) - Len(s) + 1] /\ Len(rows) - Len(s) + 1 \in 1 .. Len(rows)
    <3>1. Len(s) \in 1 .. Len(s) /\ Len(s) - Len(s) + 1 = 1
      BY <2>5
    <3>2. s[1] = rows[Len(rows) - Len(s) + 1]
      BY <2>4, <3>1
    <3>3. Len(rows) - Len(s) + 1 \in 1 .. Len(rows)
      BY <2>4, <2>5
    <3> QED  BY <2>5, <3>2, <3>3
  <2>7. \E u \in Users : r = BalanceRow(u)
    BY <2>3, <2>6
  <2>8. IsSuffix(Tail(s), rows)
    BY <1>1, <1>2, <2>2, <2>3, TailOfSuffix
  <2> QED  BY <2>2, <2>7, <2>8 DEF rows
<1>6. \A x \in Transfers : TransferRow(x) # r
  BY <1>4, <1>5, OfIInv, RowsDiffer
<1> HIDE DEF r
<1>7. \A v \in Workers : plan'[v] = IF v = w THEN Tail(plan[w]) ELSE plan[v]
  BY <1>1, OfIInv
<1>8. \A x \in Rows : holder'[x] = IF x = r THEN w ELSE holder[x]
  BY <1>1, OfIInv
<1>9. JobsOK'
  <2>1. plan' \in [Workers -> Seq(Rows)]
    BY <1>1, <1>3, OfIInv
  <2> QED  BY <1>1, <2>1, OfIInv DEF JobsOK
<1>10. TypeOK'
  <2>1. holder' \in [Rows -> {v \in Workers : job'[v] # Idle} \cup {NoOne}]
    BY <1>1, <1>2, OfIInv
  <2> QED  BY <1>1, <1>2, <1>7, <1>9, <2>1, OfIInv, TypeParts
<1>11. RowsFirst'
  BY <1>1, OfIInv DEF RowsFirst
<1>12. RequestPlans'
  BY <1>1, <1>4, <1>7, OfIInv DEF RequestPlans, CreateTransferRows, Workers
<1>13. HandlerPlans'
  <2> SUFFICES ASSUME NEW v \in Consumers, job[v] # Idle,
                      plan'[v] # <<TransferRow(job[v].transfer)>>
               PROVE  /\ holder'[TransferRow(job[v].transfer)] = v
                      /\ IsSuffix(plan'[v], HandlerRows(job[v]))
    BY <1>1 DEF HandlerPlans, HandlerRows, SettleTransferRows, FailTransferRows
  <2>1. v \in Workers /\ job[v].transfer \in Transfers /\ TransferRow(job[v].transfer) \in Rows
    BY OfIInv, JobIs DEF Workers
  <2>2. holder'[TransferRow(job[v].transfer)] = holder[TransferRow(job[v].transfer)]
    BY <1>6, <1>8, <2>1
  <2>3. CASE v = w
    BY <1>5, <1>7, <2>1, <2>2, <2>3
  <2>4. CASE v # w
    BY <1>7, <2>1, <2>2, <2>4, OfIInv DEF HandlerPlans
  <2> QED  BY <2>3, <2>4
<1> QED  BY <1>9, <1>10, <1>11, <1>12, <1>13 DEF IInv

\* A transaction ends: its worker is idle, its locks are free.
LEMMA EndKeeps ==
    ASSUME IInv, NEW w \in Workers,
           job' = [job EXCEPT ![w] = Idle], plan' = [plan EXCEPT ![w] = <<>>],
           holder' = Unlocked(w)
    PROVE  /\ JobsOK'
           /\ \A v \in Workers : /\ job'[v] = IF v = w THEN Idle ELSE job[v]
                                 /\ plan'[v] = IF v = w THEN <<>> ELSE plan[v]
           /\ \A r \in Rows : holder'[r] = IF holder[r] = w THEN NoOne ELSE holder[r]
           /\ status' \in [Transfers -> {"ABSENT", "OPEN", "SETTLED", "FAILED"}] => TypeOK'
<1>1. \A v \in Workers : /\ job'[v] = IF v = w THEN Idle ELSE job[v]
                         /\ plan'[v] = IF v = w THEN <<>> ELSE plan[v]
  BY OfIInv
<1>2. \A r \in Rows : holder'[r] = IF holder[r] = w THEN NoOne ELSE holder[r]
  BY DEF Unlocked
<1>3. JobsOK'
  <2>1. plan' \in [Workers -> Seq(Rows)]
    BY OfIInv
  <2>2. Idle.kind # "create"
    BY DEF Idle
  <2> QED  BY <1>1, <2>1, <2>2, OfIInv DEF JobsOK, Workers
<1>4. job' \in [Workers -> {Idle} \cup UNION {{Create(x), Settle(x), Fail(x)} : x \in Transfers}]
  BY OfIInv
<1>5. holder' \in [Rows -> {v \in Workers : job'[v] # Idle} \cup {NoOne}]
  <2>1. \A r \in Rows : holder'[r] \in {v \in Workers : job'[v] # Idle} \cup {NoOne}
    BY <1>1, <1>2, OfIInv
  <2>2. holder' = [r \in Rows |-> holder'[r]]
    BY DEF Unlocked
  <2> QED  BY <2>1, <2>2
<1>6. ASSUME status' \in [Transfers -> {"ABSENT", "OPEN", "SETTLED", "FAILED"}]
      PROVE  TypeOK'
  BY <1>1, <1>3, <1>4, <1>5, <1>6, OfIInv, TypeParts
<1> QED  BY <1>1, <1>2, <1>3, <1>6

LEMMA RolledBackKeeps ==
    ASSUME IInv, NEW w \in Workers, RolledBack(w)
    PROVE  IInv'
<1>1. /\ job' = [job EXCEPT ![w] = Idle] /\ plan' = [plan EXCEPT ![w] = <<>>]
      /\ holder' = Unlocked(w) /\ UNCHANGED status
  BY DEF RolledBack
<1>2. /\ JobsOK' /\ TypeOK'
      /\ \A v \in Workers : /\ job'[v] = IF v = w THEN Idle ELSE job[v]
                            /\ plan'[v] = IF v = w THEN <<>> ELSE plan[v]
      /\ \A r \in Rows : holder'[r] = IF holder[r] = w THEN NoOne ELSE holder[r]
  BY <1>1, EndKeeps, OfIInv
<1>3. RowsFirst' /\ RequestPlans'
  BY <1>1, <1>2, OfIInv DEF RowsFirst, RequestPlans, CreateTransferRows, Workers
<1>4. HandlerPlans'
  <2>1. \A v \in Consumers : job[v] # Idle => TransferRow(job[v].transfer) \in Rows
    BY OfIInv, JobIs DEF Workers
  <2> QED
    BY <1>1, <1>2, <2>1, OfIInv
       DEF HandlerPlans, HandlerRows, SettleTransferRows, FailTransferRows, Workers
<1> QED  BY <1>2, <1>3, <1>4 DEF IInv

LEMMA CommitKeeps ==
    ASSUME IInv, NEW w \in Workers, Commit(w)
    PROVE  IInv'
<1> DEFINE t == job[w].transfer
<1>1. /\ job[w] # Idle /\ plan[w] = <<>>
      /\ status' = [status EXCEPT ![t] = Outcome(job[w])]
      /\ holder' = Unlocked(w) /\ job' = [job EXCEPT ![w] = Idle] /\ plan' = plan
  BY DEF Commit
<1>2. plan' = [plan EXCEPT ![w] = <<>>]
  BY <1>1, OfIInv
<1>3. t \in Transfers
  BY <1>1, OfIInv, JobIs
<1>4. Outcome(job[w]) \in {"OPEN", "SETTLED", "FAILED"}
  <2>1. CASE w \in Clients
    <3>1. job[w].kind = "create"
      BY <1>1, <2>1, OfIInv DEF JobsOK
    <3> QED  BY <3>1 DEF Outcome
  <2>2. CASE w \in Consumers
    <3>1. job[w] = Settle(t) \/ job[w] = Fail(t)
      BY <1>1, <2>2, OfIInv, JobIs
    <3>2. job[w].kind = "settle" \/ job[w].kind = "fail"
      BY <3>1 DEF Settle, Fail
    <3>3. status[t] \in {"OPEN", "SETTLED", "FAILED"}
      BY <1>1, <1>3, <2>2, OfIInv DEF RowsFirst
    <3>4. CASE job[w].kind = "settle"
      BY <3>3, <3>4 DEF Outcome
    <3>5. CASE job[w].kind = "fail"
      BY <3>5 DEF Outcome
    <3> QED  BY <3>2, <3>4, <3>5
  <2> QED  BY <2>1, <2>2, OfIInv
<1>5. /\ status' \in [Transfers -> {"ABSENT", "OPEN", "SETTLED", "FAILED"}]
      /\ status'[t] # "ABSENT"
      /\ \A x \in Transfers : x # t => status'[x] = status[x]
  BY <1>1, <1>3, <1>4, OfIInv
<1>6. /\ JobsOK' /\ TypeOK'
      /\ \A v \in Workers : /\ job'[v] = IF v = w THEN Idle ELSE job[v]
                            /\ plan'[v] = IF v = w THEN <<>> ELSE plan[v]
      /\ \A r \in Rows : holder'[r] = IF holder[r] = w THEN NoOne ELSE holder[r]
  BY <1>1, <1>2, <1>5, EndKeeps
<1>7. \A v \in Workers : job[v] # Idle =>
         job[v].transfer \in Transfers /\ TransferRow(job[v].transfer) \in Rows
  BY OfIInv, JobIs
<1>8. RowsFirst'
  <2>1. \A v \in Clients : v # w /\ job[v] # Idle => job[v].transfer # t
    BY <1>1, OfIInv DEF RowsFirst, Workers
  <2> QED  BY <1>5, <1>6, <1>7, <2>1, OfIInv DEF RowsFirst, Workers
<1>9. RequestPlans'
  BY <1>6, OfIInv DEF RequestPlans, CreateTransferRows, Workers
<1>10. HandlerPlans'
  <2> SUFFICES ASSUME NEW v \in Consumers, v # w, job[v] # Idle,
                      plan[v] # <<TransferRow(job[v].transfer)>>
               PROVE  /\ holder'[TransferRow(job[v].transfer)] = v
                      /\ status'[job[v].transfer] = status[job[v].transfer]
                      /\ IsSuffix(plan[v], HandlerRows(job[v]))
    BY <1>6 DEF HandlerPlans, HandlerRows, SettleTransferRows, FailTransferRows, Workers
  <2>1. v \in Workers
    BY DEF Workers
  <2>2. holder[TransferRow(job[v].transfer)] = v /\ IsSuffix(plan[v], HandlerRows(job[v]))
    BY OfIInv DEF HandlerPlans
  <2>3. job[v].transfer # t
    <3>1. CASE w \in Clients
      BY <1>1, <3>1, OfIInv DEF RowsFirst
    <3>2. CASE w \in Consumers
      <4>1. <<>> # <<TransferRow(t)>>
        BY SMT
      <4>2. holder[TransferRow(t)] = w
        BY <1>1, <3>2, <4>1, OfIInv DEF HandlerPlans
      <4> QED  BY <2>2, <4>2
    <3> QED  BY <3>1, <3>2, OfIInv
  <2> QED  BY <1>5, <1>6, <1>7, <2>1, <2>2, <2>3
<1> QED  BY <1>6, <1>8, <1>9, <1>10 DEF IInv

-----------------------------------------------------------------------------
(* The order in which rows are locked.                                     *)

\* Who waits for a transfer row, or is a waiting request, holds nothing; a
\* handler holds the balance rows of its decision that it no longer plans to lock.
LocksFollowPlans ==
    /\ \A w \in Workers, t \in Transfers : holder[TransferRow(t)] = w =>
          w \in Consumers /\ plan[w] # <<TransferRow(job[w].transfer)>>
    /\ \A w \in Workers, u \in Users : holder[BalanceRow(u)] = w =>
          /\ w \in Clients => plan[w] = <<>>
          /\ w \in Consumers =>
                /\ plan[w] # <<TransferRow(job[w].transfer)>>
                /\ \E i \in 1 .. Len(HandlerRows(job[w])) - Len(plan[w]) :
                      HandlerRows(job[w])[i] = BalanceRow(u)

\* Rows are what their names say.
LEMMA RowsAre ==
    /\ \A t \in Transfers : TransferRow(t) \in Rows
    /\ \A u \in Users : BalanceRow(u) \in Rows
    /\ \A u, v : BalanceRow(u) = BalanceRow(v) => u = v
BY DEF Rows, TransferRow, BalanceRow

\* The next row of a handler that has read the transfer row.
LEMMA NextRowIs ==
    ASSUME IInv, NEW w \in Consumers, job[w] # Idle, plan[w] # <<>>,
           plan[w] # <<TransferRow(job[w].transfer)>>
    PROVE  LET rows == HandlerRows(job[w]) IN
           /\ rows \in Seq(Rows) /\ Len(plan[w]) <= Len(rows)
           /\ Head(plan[w]) = rows[Len(rows) - Len(plan[w]) + 1]
           /\ \E u \in Users : Head(plan[w]) = BalanceRow(u)
<1> DEFINE rows == HandlerRows(job[w])
           s == plan[w]
<1>1. w \in Workers /\ job[w].transfer \in Transfers /\ s \in Seq(Rows)
  BY OfIInv, JobIs DEF Workers
<1>2. IsSuffix(s, rows)
  BY OfIInv DEF HandlerPlans
<1>3. /\ rows \in Seq(Rows)
      /\ \A i \in 1 .. Len(rows) : \E u \in Users : rows[i] = BalanceRow(u)
  BY <1>1, HandlerRowsAre
<1> HIDE DEF rows
<1>4. /\ Len(s) <= Len(rows)
      /\ \A i \in 1 .. Len(s) : s[Len(s) - i + 1] = rows[Len(rows) - i + 1]
  BY <1>1, <1>2, <1>3, SuffixIs
<1>5. Len(s) \in Nat \ {0} /\ Len(rows) \in Nat /\ Head(s) = s[1]
  BY <1>1, <1>3
<1>6. Len(s) \in 1 .. Len(s) /\ Len(s) - Len(s) + 1 = 1
  BY <1>5
<1>7. s[1] = rows[Len(rows) - Len(s) + 1]
  BY <1>4, <1>6
<1>8. Len(rows) - Len(s) + 1 \in 1 .. Len(rows)
  BY <1>4, <1>5
<1> QED  BY <1>3, <1>4, <1>5, <1>7, <1>8 DEF rows

\* A handler is at its transfer row exactly when that is all it plans to lock.
LEMMA AtTransferRow ==
    ASSUME IInv, NEW w \in Workers, plan[w] # <<>>, NEW t \in Transfers,
           Head(plan[w]) = TransferRow(t)
    PROVE  w \in Consumers /\ plan[w] = <<TransferRow(job[w].transfer)>>
<1>1. job[w] # Idle
  BY OfIInv
<1>2. ASSUME w \in Clients PROVE FALSE
  <2>1. plan[w] = <<BalanceRow(From[job[w].transfer])>>
    BY <1>1, <1>2, OfIInv DEF RequestPlans, CreateTransferRows
  <2>2. Head(plan[w]) = BalanceRow(From[job[w].transfer])
    BY <2>1
  <2> QED  BY <2>2, RowsDiffer
<1>3. w \in Consumers
  BY <1>2, OfIInv
<1> QED  BY <1>1, <1>3, NextRowIs, RowsDiffer

LEMMA LocksFollowPlansStep ==
    ASSUME IInv, IInv', LocksFollowPlans, Next
    PROVE  LocksFollowPlans'
<1>1. \A v \in Workers : v \in Consumers \/ v \in Clients
  BY OfIInv
\* It is enough to look at the worker that moves.
<1>2. ASSUME NEW w \in Workers,
             \A v \in Workers : v # w => job'[v] = job[v] /\ plan'[v] = plan[v],
             \A v \in Workers, t \in Transfers : v # w /\ holder'[TransferRow(t)] = v =>
                 holder[TransferRow(t)] = v,
             \A v \in Workers, u \in Users : v # w /\ holder'[BalanceRow(u)] = v =>
                 holder[BalanceRow(u)] = v /\ HandlerRows(job[v])' = HandlerRows(job[v]),
             \A t \in Transfers : holder'[TransferRow(t)] = w =>
                 w \in Consumers /\ plan'[w] # <<TransferRow(job'[w].transfer)>>,
             \A u \in Users : holder'[BalanceRow(u)] = w =>
                 /\ w \in Clients => plan'[w] = <<>>
                 /\ w \in Consumers =>
                       /\ plan'[w] # <<TransferRow(job'[w].transfer)>>
                       /\ \E i \in 1 .. Len(HandlerRows(job[w])') - Len(plan'[w]) :
                             (HandlerRows(job[w])')[i] = BalanceRow(u)
      PROVE  LocksFollowPlans'
  <2>1. ASSUME NEW v \in Workers, NEW t \in Transfers, holder'[TransferRow(t)] = v
        PROVE  v \in Consumers /\ plan'[v] # <<TransferRow(job'[v].transfer)>>
    <3>1. CASE v = w
      BY <1>2, <2>1, <3>1
    <3>2. CASE v # w
      BY <1>2, <2>1, <3>2 DEF LocksFollowPlans
    <3> QED  BY <3>1, <3>2
  <2>2. ASSUME NEW v \in Workers, NEW u \in Users, holder'[BalanceRow(u)] = v
        PROVE  /\ v \in Clients => plan'[v] = <<>>
               /\ v \in Consumers =>
                     /\ plan'[v] # <<TransferRow(job'[v].transfer)>>
                     /\ \E i \in 1 .. Len(HandlerRows(job[v])') - Len(plan'[v]) :
                           (HandlerRows(job[v])')[i] = BalanceRow(u)
    <3>1. CASE v = w
      BY <1>2, <2>2, <3>1
    <3>2. CASE v # w
      <4>1. /\ holder[BalanceRow(u)] = v /\ HandlerRows(job[v])' = HandlerRows(job[v])
            /\ job'[v] = job[v] /\ plan'[v] = plan[v]
        BY <1>2, <2>2, <3>2
      <4> QED  BY <4>1 DEF LocksFollowPlans
    <3> QED  BY <3>1, <3>2
  <2> QED  BY <2>1, <2>2 DEF LocksFollowPlans
\* A worker outside a transaction holds nothing.
<1>3. ASSUME NEW w \in Workers, job[w] = Idle
      PROVE  \A r \in Rows : holder[r] # w
  BY <1>3, OfIInv
<1>4. ASSUME status' = status, NEW v \in Workers, job'[v] = job[v]
      PROVE  HandlerRows(job[v])' = HandlerRows(job[v])
  BY <1>4 DEF HandlerRows, SettleTransferRows, FailTransferRows
<1>5. ASSUME NEW w \in Workers, job[w] = Idle, holder' = holder, status' = status,
             \A v \in Workers : v # w => job'[v] = job[v] /\ plan'[v] = plan[v]
      PROVE  LocksFollowPlans'
  BY <1>2, <1>3, <1>4, <1>5, RowsAre
<1>6. CASE \E w \in Clients, t \in Transfers : BeginCreate(w, t)
  <2>1. PICK w \in Clients : job[w] = Idle /\ holder' = holder /\ status' = status
                             /\ \A v \in Workers : v # w => job'[v] = job[v] /\ plan'[v] = plan[v]
    BY <1>6, OfIInv DEF BeginCreate, Begin
  <2> QED  BY <1>5, <2>1 DEF Workers
<1>7. CASE \E w \in Consumers, t \in Transfers :
              BeginEvent(w, Settle(t)) \/ BeginEvent(w, Fail(t))
  <2>1. PICK w \in Consumers : job[w] = Idle /\ holder' = holder /\ status' = status
                               /\ \A v \in Workers : v # w => job'[v] = job[v] /\ plan'[v] = plan[v]
    BY <1>7, OfIInv DEF BeginEvent, Begin
  <2> QED  BY <1>5, <2>1 DEF Workers
<1>8. ASSUME NEW w \in Workers, LoadForUpdate(w) PROVE LocksFollowPlans'
  <2> DEFINE r == TransferRow(job[w].transfer)
             rows == HandlerRows(job[w])
  <2>1. /\ plan[w] # <<>> /\ Head(plan[w]) = r /\ job' = job /\ status' = status
        /\ holder' = [holder EXCEPT ![r] = w] /\ plan' = [plan EXCEPT ![w] = rows]
    BY <1>8 DEF LoadForUpdate
  <2>2. job[w] # Idle /\ job[w].transfer \in Transfers
    BY <2>1, OfIInv, JobIs
  <2>3. w \in Consumers /\ plan[w] = <<r>>
    BY <2>1, <2>2, AtTransferRow
  <2>4. \A u \in Users : holder[BalanceRow(u)] # w
    BY <2>3 DEF LocksFollowPlans
  <2>5. \A x \in Rows : holder'[x] = IF x = r THEN w ELSE holder[x]
    BY <2>1, OfIInv
  <2>6. /\ \A v \in Workers : v # w => plan'[v] = plan[v]
        /\ plan'[w] = rows
    BY <2>1, OfIInv
  <2>7. rows # <<r>>
    <3>1. /\ rows \in Seq(Rows)
          /\ \A i \in 1 .. Len(rows) : \E u \in Users : rows[i] = BalanceRow(u)
      BY <2>2, HandlerRowsAre
    <3> HIDE DEF rows
    <3>2. ASSUME rows = <<r>> PROVE FALSE
      <4>1. Len(rows) = 1 /\ rows[1] = r
        BY <3>2
      <4>2. 1 \in 1 .. Len(rows)
        BY <4>1
      <4> QED  BY <3>1, <4>1, <4>2, RowsDiffer
    <3> QED  BY <3>2
  <2>8. \A u \in Users : holder'[BalanceRow(u)] = holder[BalanceRow(u)]
    BY <2>5, RowsAre, RowsDiffer
  <2>9. \A t \in Transfers, v \in Workers : v # w /\ holder'[TransferRow(t)] = v =>
           holder[TransferRow(t)] = v
    BY <2>5, RowsAre
  <2>10. \A v \in Workers : HandlerRows(job[v])' = HandlerRows(job[v])
    BY <1>4, <2>1
  <2>11. \A u \in Users : holder'[BalanceRow(u)] # w
    BY <2>4, <2>8
  <2>12. plan'[w] # <<TransferRow(job'[w].transfer)>>
    BY <2>1, <2>6, <2>7
  <2> HIDE DEF rows, r
  <2> QED  BY <1>2, <2>1, <2>3, <2>6, <2>8, <2>9, <2>10, <2>11, <2>12
<1>9. ASSUME NEW w \in Workers, LockBalance(w) PROVE LocksFollowPlans'
  <2> DEFINE r == Head(plan[w])
             rows == HandlerRows(job[w])
  <2>1. /\ plan[w] # <<>> /\ r # TransferRow(job[w].transfer) /\ job' = job /\ status' = status
        /\ holder' = [holder EXCEPT ![r] = w] /\ plan' = [plan EXCEPT ![w] = Tail(plan[w])]
    BY <1>9 DEF LockBalance
  <2>2. job[w] # Idle /\ plan[w] \in Seq(Rows)
    BY <2>1, OfIInv, JobIs
  <2>3. plan[w] # <<TransferRow(job[w].transfer)>>
    <3>1. Head(<<TransferRow(job[w].transfer)>>) = TransferRow(job[w].transfer)
      OBVIOUS
    <3> QED  BY <2>1, <3>1
  <2>4. r \in Rows /\ \A t \in Transfers : r # TransferRow(t)
    <3>1. r \in Rows
      BY <2>1, <2>2
    <3> QED  BY <2>1, <2>3, <3>1, AtTransferRow
  <2>5. \A x \in Rows : holder'[x] = IF x = r THEN w ELSE holder[x]
    BY <2>1, OfIInv
  <2>6. /\ \A v \in Workers : v # w => plan'[v] = plan[v]
        /\ plan'[w] = Tail(plan[w])
    BY <2>1, OfIInv
  <2>7. \A t \in Transfers : holder'[TransferRow(t)] = holder[TransferRow(t)]
    BY <2>4, <2>5, RowsAre
  <2>8. \A u \in Users, v \in Workers : v # w /\ holder'[BalanceRow(u)] = v =>
           holder[BalanceRow(u)] = v
    BY <2>5, RowsAre
  <2>9. w \in Clients => plan'[w] = <<>>
    <3>1. ASSUME w \in Clients PROVE plan'[w] = <<>>
      <4>1. plan[w] = <<BalanceRow(From[job[w].transfer])>>
        BY <2>1, <2>2, <3>1, OfIInv DEF RequestPlans, CreateTransferRows
      <4>2. Tail(plan[w]) = <<>>
        BY <4>1
      <4> QED  BY <2>6, <4>2
    <3> QED  BY <3>1
  <2>10. ASSUME w \in Consumers
         PROVE  /\ plan'[w] # <<TransferRow(job[w].transfer)>>
                /\ \A u \in Users : holder'[BalanceRow(u)] = w =>
                      \E i \in 1 .. Len(rows) - Len(plan'[w]) : rows[i] = BalanceRow(u)
    <3>1. /\ rows \in Seq(Rows) /\ Len(plan[w]) <= Len(rows)
          /\ r = rows[Len(rows) - Len(plan[w]) + 1]
      BY <2>1, <2>2, <2>3, <2>10, NextRowIs
    <3>2. /\ Len(plan[w]) \in Nat \ {0} /\ Len(rows) \in Nat
          /\ Len(plan'[w]) = Len(plan[w]) - 1
      <4>1. Len(rows) \in Nat
        BY <3>1
      <4>2. Len(plan[w]) \in Nat \ {0} /\ Len(Tail(plan[w])) = Len(plan[w]) - 1
        BY <2>1, <2>2
      <4> QED  BY <2>6, <4>1, <4>2
    <3>3. ASSUME plan'[w] = <<TransferRow(job[w].transfer)>> PROVE FALSE
      <4> DEFINE x == TransferRow(job[w].transfer)
      <4>0. job[w].transfer \in Transfers /\ x \in Rows
        BY <2>2, OfIInv, JobIs
      <4>1. IsSuffix(Tail(plan[w]), rows)
        BY <2>1, <2>2, <2>3, <2>10, <3>1, OfIInv, TailOfSuffix DEF HandlerPlans
      <4>2. \A i \in 1 .. Len(rows) : \E u \in Users : rows[i] = BalanceRow(u)
        BY <4>0, HandlerRowsAre
      <4> HIDE DEF rows, x
      <4> DEFINE y == Tail(plan[w])
      <4>3. y \in Seq(Rows) /\ Len(y) = 1 /\ y[1] = x
        <5>1. y = <<x>>
          BY <2>6, <3>3 DEF x
        <5>2. <<x>> \in Seq(Rows) /\ Len(<<x>>) = 1 /\ <<x>>[1] = x
          BY <4>0
        <5> QED  BY <5>1, <5>2
      <4> HIDE DEF y
      <4>4. x = rows[Len(rows)] /\ 1 <= Len(rows)
        <5>1. /\ Len(y) <= Len(rows)
              /\ \A i \in 1 .. Len(y) : y[Len(y) - i + 1] = rows[Len(rows) - i + 1]
          <6>1. IsSuffix(y, rows)
            BY <4>1 DEF y
          <6>2. y \in Seq(Rows)
            BY <4>3
          <6>3. rows \in Seq(Rows)
            BY <3>1
          <6> QED  BY <6>1, <6>2, <6>3, SuffixIs
        <5>2. y[1 - 1 + 1] = rows[Len(rows) - 1 + 1]
          BY <4>3, <5>1
        <5>3. Len(rows) - 1 + 1 = Len(rows) /\ 1 - 1 + 1 = 1
          BY <3>2
        <5> QED  BY <4>3, <5>1, <5>2, <5>3
      <4>5. Len(rows) \in 1 .. Len(rows)
        BY <3>2, <4>4
      <4> QED  BY <4>2, <4>4, <4>5, RowsDiffer DEF x
    <3>4. ASSUME NEW u \in Users, holder'[BalanceRow(u)] = w
          PROVE  \E i \in 1 .. Len(rows) - Len(plan'[w]) : rows[i] = BalanceRow(u)
      <4>1. CASE BalanceRow(u) = r
        <5>1. Len(rows) - Len(plan[w]) + 1 \in 1 .. Len(rows) - Len(plan'[w])
          BY <3>1, <3>2
        <5> QED  BY <3>1, <4>1, <5>1
      <4>2. CASE BalanceRow(u) # r
        <5>1. holder[BalanceRow(u)] = w
          BY <2>5, <3>4, <4>2, RowsAre
        <5>2. PICK i \in 1 .. Len(rows) - Len(plan[w]) : rows[i] = BalanceRow(u)
          BY <2>10, <5>1 DEF LocksFollowPlans
        <5>3. i \in 1 .. Len(rows) - Len(plan'[w])
          BY <3>1, <3>2
        <5> QED  BY <5>2, <5>3
      <4> QED  BY <4>1, <4>2
    <3> QED  BY <3>3, <3>4
  <2>11. \A t \in Transfers : holder'[TransferRow(t)] = w => w \in Consumers
    BY <2>7 DEF LocksFollowPlans
  <2>12. HandlerRows(job[w])' = rows
    BY <1>4, <2>1
  <2> HIDE DEF rows
  <2> QED  BY <1>2, <1>4, <2>1, <2>6, <2>7, <2>8, <2>9, <2>10, <2>11, <2>12
\* The end of a transaction.
<1>10. ASSUME NEW w \in Workers, holder' = Unlocked(w),
              \A v \in Workers : v # w => job'[v] = job[v] /\ plan'[v] = plan[v],
              \A v \in Consumers : v # w /\ job[v] # Idle
                  /\ holder[TransferRow(job[v].transfer)] = v =>
                     status'[job[v].transfer] = status[job[v].transfer]
       PROVE  LocksFollowPlans'
  <2>1. \A r \in Rows : holder'[r] = IF holder[r] = w THEN NoOne ELSE holder[r]
    BY <1>10 DEF Unlocked
  <2>2. \A r \in Rows : holder'[r] # w /\ (holder'[r] \in Workers => holder[r] = holder'[r])
    BY <2>1, OfIInv
  <2>3. ASSUME NEW v \in Workers, v # w, NEW u \in Users, holder'[BalanceRow(u)] = v
        PROVE  holder[BalanceRow(u)] = v /\ HandlerRows(job[v])' = HandlerRows(job[v])
    <3>1. holder[BalanceRow(u)] = v
      BY <2>2, <2>3, RowsAre
    <3>2. job[v] # Idle
      BY <1>3, <3>1, RowsAre
    <3>3. CASE v \in Consumers
      <4>1. plan[v] # <<TransferRow(job[v].transfer)>>
        BY <3>1, <3>3 DEF LocksFollowPlans
      <4>2. holder[TransferRow(job[v].transfer)] = v
        BY <3>2, <3>3, <4>1, OfIInv DEF HandlerPlans
      <4>3. job'[v] = job[v] /\ status'[job[v].transfer] = status[job[v].transfer]
        BY <1>10, <2>3, <3>2, <3>3, <4>2
      <4> QED  BY <3>1, <4>3 DEF HandlerRows, SettleTransferRows, FailTransferRows
    <3>4. CASE v \in Clients
      <4>1. job'[v] = job[v] /\ job[v].kind = "create"
        BY <1>10, <2>3, <3>2, <3>4, OfIInv DEF JobsOK
      <4>2. status'[job[v].transfer] = status[job[v].transfer]
        <5>1. status[job[v].transfer] = "ABSENT"
          BY <3>2, <3>4, OfIInv DEF RowsFirst
        <5>2. status'[job'[v].transfer] = "ABSENT"
          <6>1. RowsFirst'
            BY DEF IInv
          <6> QED  BY <3>2, <3>4, <4>1, <6>1 DEF RowsFirst
        <5> QED  BY <4>1, <5>1, <5>2
      <4> QED  BY <3>1, <4>1, <4>2 DEF HandlerRows, SettleTransferRows, FailTransferRows
    <3> QED  BY <1>1, <3>3, <3>4
  <2>4. \A v \in Workers, t \in Transfers : v # w /\ holder'[TransferRow(t)] = v =>
           holder[TransferRow(t)] = v
    BY <2>2, RowsAre
  <2>5. /\ \A t \in Transfers : holder'[TransferRow(t)] # w
        /\ \A u \in Users : holder'[BalanceRow(u)] # w
    BY <2>2, RowsAre
  <2> QED  BY <1>2, <1>10, <2>3, <2>4, <2>5
<1>11. ASSUME NEW w \in Workers, Commit(w) PROVE LocksFollowPlans'
  <2> DEFINE t == job[w].transfer
  <2>1. /\ job[w] # Idle /\ plan[w] = <<>> /\ status' = [status EXCEPT ![t] = Outcome(job[w])]
        /\ holder' = Unlocked(w) /\ job' = [job EXCEPT ![w] = Idle] /\ plan' = plan
    BY <1>11 DEF Commit
  <2>2. ASSUME NEW v \in Consumers, v # w, job[v] # Idle,
               holder[TransferRow(job[v].transfer)] = v
        PROVE  status'[job[v].transfer] = status[job[v].transfer]
    <3>1. job[v].transfer # t
      <4>1. CASE w \in Clients
        BY <2>1, <2>2, <4>1, OfIInv DEF RowsFirst
      <4>2. CASE w \in Consumers
        <5>1. <<>> # <<TransferRow(t)>>
          BY SMT
        <5>2. holder[TransferRow(t)] = w
          BY <2>1, <4>2, <5>1, OfIInv DEF HandlerPlans
        <5> QED  BY <2>2, <5>2
      <4> QED  BY <1>1, <4>1, <4>2
    <3>2. job[v].transfer \in Transfers
      BY <2>2, OfIInv, JobIs DEF Workers
    <3> QED  BY <2>1, <3>1, <3>2, OfIInv
  <2>3. \A v \in Workers : v # w => job'[v] = job[v] /\ plan'[v] = plan[v]
    BY <2>1, OfIInv
  <2> QED  BY <1>10, <2>1, <2>2, <2>3
<1>12. ASSUME NEW w \in Workers, RolledBack(w) PROVE LocksFollowPlans'
  <2>1. /\ holder' = Unlocked(w) /\ status' = status
        /\ \A v \in Workers : v # w => job'[v] = job[v] /\ plan'[v] = plan[v]
    BY <1>12, OfIInv DEF RolledBack
  <2> QED  BY <1>10, <2>1
<1> QED  BY <1>6, <1>7, <1>8, <1>9, <1>11, <1>12 DEF Next, RejectTransfer, RaiseOnCheck, Abort

-----------------------------------------------------------------------------
(* The theorems.                                                           *)

\* The strengthened invariant holds in every reachable state.
LEMMA Invariant == Spec => []IInv
<1>1. IInv /\ [Next]_vars => IInv'
  <2> SUFFICES ASSUME IInv, [Next]_vars PROVE IInv'
    OBVIOUS
  <2>1. CASE \E w \in Clients, t \in Transfers : BeginCreate(w, t)
    BY <2>1, BeginCreateKeeps
  <2>2. CASE \E w \in Consumers, t \in Transfers :
                BeginEvent(w, Settle(t)) \/ BeginEvent(w, Fail(t))
    BY <2>2, BeginEventKeeps
  <2>3. CASE \E w \in Workers : \/ LoadForUpdate(w) \/ LockBalance(w) \/ Commit(w)
                                \/ RejectTransfer(w) \/ RaiseOnCheck(w) \/ Abort(w)
    BY <2>3, LoadForUpdateKeeps, LockBalanceKeeps, CommitKeeps, RolledBackKeeps
       DEF RejectTransfer, RaiseOnCheck, Abort
  <2>4. CASE UNCHANGED vars
    <3> USE <2>4 DEF vars
    <3>1. TypeOK' /\ JobsOK'
      BY DEF IInv, TypeOK, JobsOK
    <3>2. RowsFirst' /\ RequestPlans' /\ HandlerPlans'
      BY DEF IInv, RowsFirst, RequestPlans, HandlerPlans, CreateTransferRows, HandlerRows,
             SettleTransferRows, FailTransferRows
    <3> QED  BY <3>1, <3>2 DEF IInv
  <2> QED  BY <2>1, <2>2, <2>3, <2>4 DEF Next
<1> QED  BY <1>1, InitIInv, PTL DEF Spec

\* A row has one holder, and a worker outside a transaction holds and wants none.
THEOREM TypeCorrect == Spec => []TypeOK
<1>1. IInv => TypeOK
  BY DEF IInv
<1> QED  BY <1>1, Invariant, PTL

\* What settle_transfer and fail_transfer decided under the lock of the transfer
\* row is right until they commit, with any number of replicas.
THEOREM DecisionsHold == Spec => []DecisionsStayValid
<1>1. IInv => DecisionsStayValid
  BY DEF IInv, HandlerPlans, DecisionsStayValid
<1> QED  BY <1>1, Invariant, PTL

\* The first state holds no locks, and every step keeps them in line with plans.
LEMMA LocksInvariant == Spec => []LocksFollowPlans
<1>1. Init => LocksFollowPlans
  <2> SUFFICES ASSUME Init PROVE LocksFollowPlans
    OBVIOUS
  <2>1. \A r \in Rows, w \in Workers : holder[r] # w
    BY WorkersAssumption DEF Init
  <2> QED  BY <2>1, RowsAre DEF LocksFollowPlans
<1>2. IInv /\ IInv' /\ LocksFollowPlans /\ [Next]_vars => LocksFollowPlans'
  <2> SUFFICES ASSUME IInv, IInv', LocksFollowPlans, [Next]_vars PROVE LocksFollowPlans'
    OBVIOUS
  <2>1. CASE UNCHANGED vars
    BY <2>1 DEF vars, LocksFollowPlans, HandlerRows, SettleTransferRows, FailTransferRows
  <2> QED  BY <2>1, LocksFollowPlansStep
<1> QED  BY <1>1, <1>2, Invariant, PTL DEF Spec

\* Who waits for a balance row holds smaller ones only, unless it settles a
\* transfer whose sender has the larger id.
LEMMA WaitsAscend ==
    ASSUME IInv, LocksFollowPlans, NEW w \in Consumers, NEW u \in Users, NEW v \in Users,
           holder[BalanceRow(u)] = w, plan[w] # <<>>, Head(plan[w]) = BalanceRow(v),
           holder[BalanceRow(v)] # w,
           ~(job[w].kind = "settle" /\ From[job[w].transfer] > To[job[w].transfer])
    PROVE  u < v
<1> DEFINE t == job[w].transfer
           rows == HandlerRows(job[w])
           f == BalanceRow(From[t])
           g == BalanceRow(To[t])
           k == Len(rows) - Len(plan[w])
<1>1. w \in Workers /\ job[w] # Idle /\ t \in Transfers /\ plan[w] \in Seq(Rows)
  BY OfIInv, JobIs DEF Workers
<1>2. plan[w] # <<TransferRow(t)>> /\ \E i \in 1 .. k : rows[i] = BalanceRow(u)
  BY <1>1 DEF LocksFollowPlans
<1>3. Len(plan[w]) <= Len(rows) /\ BalanceRow(v) = rows[k + 1] /\ rows \in Seq(Rows)
  BY <1>1, <1>2, NextRowIs
<1>4. PICK i \in 1 .. k : rows[i] = BalanceRow(u)
  BY <1>2
<1>5. Len(plan[w]) \in Nat \ {0} /\ Len(rows) \in Nat
  BY <1>1, <1>3
<1>6. k \in 1 .. Len(rows) - 1 /\ i \in 1 .. k
  BY <1>3, <1>4, <1>5
<1>7. /\ From[t] \in Nat /\ To[t] \in Nat /\ From[t] # To[t]
      /\ BalanceRow(u) # BalanceRow(v)
  BY <1>1, PartiesAssumption, UsersAreNumbers
<1>8. \/ rows = <<>> \/ rows = <<f>>
      \/ From[t] < To[t] /\ rows \in {<<f, g>>, <<f>> \o <<f, g>>}
      \/ To[t] < From[t] /\ rows = <<g, f>>
  <2>1. PostEntriesRows(t) = IF From[t] < To[t] THEN <<f, g>> ELSE <<g, f>>
    BY DEF PostEntriesRows
  <2>2. From[t] < To[t] \/ To[t] < From[t]
    BY <1>7
  <2>3. job[w].kind \in {"settle", "fail"}
    BY <1>1, OfIInv, JobIs DEF Settle, Fail
  <2>4. CASE job[w].kind = "settle"
    <3>1. From[t] < To[t]
      BY <1>7, <2>4
    <3>2. rows \in {<<>>, <<f>> \o <<f, g>>}
      BY <2>1, <2>4, <3>1 DEF HandlerRows, SettleTransferRows, ReleaseHoldRows
    <3> QED  BY <3>1, <3>2
  <2>5. CASE job[w].kind = "fail"
    <3>1. rows \in {<<>>, <<f>>, PostEntriesRows(t)}
      BY <2>5 DEF HandlerRows, FailTransferRows, ReleaseHoldRows
    <3> QED  BY <2>1, <2>2, <3>1
  <2> QED  BY <2>3, <2>4, <2>5
<1> HIDE DEF rows, f, g
<1>9. CASE rows = <<>> \/ rows = <<f>>
  <2>1. Len(rows) = 0 \/ Len(rows) = 1
    BY <1>9
  <2> HIDE DEF k
  <2>2. k \in Int /\ k >= 1 /\ k <= Len(rows) - 1
    BY <1>6, <2>1
  <2>3. CASE Len(rows) = 0
    <3>1. k <= 0 - 1
      BY <2>2, <2>3
    <3> QED  BY ONLY <2>2, <3>1
  <2>4. CASE Len(rows) = 1
    <3>1. k <= 1 - 1
      BY <2>2, <2>4
    <3> QED  BY ONLY <2>2, <3>1
  <2> QED  BY <2>1, <2>3, <2>4
<1>10. CASE From[t] < To[t] /\ rows = <<f, g>>
  <2>1. k = 1 /\ i = 1 /\ rows[1] = f /\ rows[2] = g
    <3>1. Len(rows) = 2 /\ rows[1] = f /\ rows[2] = g
      BY <1>10
    <3> QED  BY <1>6, <3>1
  <2>2. BalanceRow(u) = f /\ BalanceRow(v) = g
    <3>1. k + 1 = 2
      BY <2>1
    <3> HIDE DEF k
    <3> QED  BY <1>3, <1>4, <2>1, <3>1
  <2> QED  BY <1>10, <2>2, RowsAre DEF f, g
<1>11. CASE To[t] < From[t] /\ rows = <<g, f>>
  <2>1. k = 1 /\ i = 1 /\ rows[1] = g /\ rows[2] = f
    <3>1. Len(rows) = 2 /\ rows[1] = g /\ rows[2] = f
      BY <1>11
    <3> QED  BY <1>6, <3>1
  <2>2. BalanceRow(u) = g /\ BalanceRow(v) = f
    <3>1. k + 1 = 2
      BY <2>1
    <3> HIDE DEF k
    <3> QED  BY <1>3, <1>4, <2>1, <3>1
  <2> QED  BY <1>11, <2>2, RowsAre DEF f, g
<1>12. CASE From[t] < To[t] /\ rows = <<f>> \o <<f, g>>
  <2>1. <<f>> \in Seq({f, g}) /\ <<f, g>> \in Seq({f, g})
    OBVIOUS
  <2>2. Len(rows) = 3 /\ rows[1] = f /\ rows[2] = f /\ rows[3] = g
    BY <1>12, <2>1
  <2>3. k \in {1, 2} /\ i \in {1, 2}
    BY <1>6, <2>2
  <2>4. BalanceRow(u) = f
    BY <1>4, <2>2, <2>3
  <2>5. BalanceRow(v) = f \/ BalanceRow(v) = g
    BY <1>3, <2>2, <2>3
  <2>6. BalanceRow(v) = g
    BY <1>7, <2>4, <2>5
  <2> QED  BY <1>12, <2>4, <2>6, RowsAre DEF f, g
<1> QED  BY <1>8, <1>9, <1>10, <1>11, <1>12

\* A set of natural numbers has a smallest one: the intervals that end in its
\* members are finite sets, and one of them has none of the others inside.
LEMMA SmallestExists ==
    ASSUME NEW T \in SUBSET Nat, T # {}
    PROVE  \E x \in T : \A y \in T : x <= y
<1> DEFINE R == StrictSubsetOrdering(Nat)
           F == FiniteSubsetsOf(Nat)
           I == {0 .. x : x \in T}
<1>1. IsWellFoundedOn(R, F)
  BY FS_StrictSubsetOrderingWellFounded
<1>2. I \subseteq F /\ I # {}
  <2>1. \A x \in T : 0 .. x \in SUBSET Nat /\ IsFiniteSet(0 .. x)
    BY FS_Interval
  <2> QED  BY <2>1 DEF FiniteSubsetsOf
<1>3. \E a \in I : \A b \in I : ~(<<b, a>> \in R)
  <2> HIDE DEF R, F, I
  <2> QED  BY <1>1, <1>2, WFMin
<1>4. PICK x \in T : \A y \in T : ~(<<0 .. y, 0 .. x>> \in R)
  BY <1>3
<1>5. \A y \in T : y < x => <<0 .. y, 0 .. x>> \in R
  <2> SUFFICES ASSUME NEW y \in T, y < x PROVE <<0 .. y, 0 .. x>> \in R
    OBVIOUS
  <2>1. 0 .. y \in SUBSET Nat /\ 0 .. x \in SUBSET Nat /\ 0 .. y \subseteq 0 .. x
    OBVIOUS
  <2>2. x \in 0 .. x /\ x \notin 0 .. y
    OBVIOUS
  <2>3. 0 .. y # 0 .. x
    BY <2>2
  <2> DEFINE a == 0 .. y
             b == 0 .. x
  <2> HIDE DEF a, b
  <2>4. <<a, b>> \in R
    BY <2>1, <2>3 DEF a, b, StrictSubsetOrdering
  <2> QED  BY <2>4 DEF a, b
<1>6. \A y \in T : x \in Nat /\ y \in Nat /\ ~(y < x)
  BY <1>4, <1>5
<1> QED  BY <1>6

\* Every cycle of waits goes through a settlement whose sender has the larger id,
\* and no request is part of one: take away such settlements, and of the rows the
\* members wait for, who waits for the smallest holds a smaller one still.
THEOREM OtherLocksAscend == Spec => []OnlySettlementsDeadlock
<1>1. IInv /\ LocksFollowPlans => OnlySettlementsDeadlock
  <2> SUFFICES ASSUME IInv, LocksFollowPlans, NEW S \in SUBSET Workers, Cycle(S)
               PROVE  /\ S \subseteq Consumers
                      /\ \E w \in S : job[w].kind = "settle" /\ From[job[w].transfer] > To[job[w].transfer]
    BY DEF OnlySettlementsDeadlock
  <2>1. \A w \in S : /\ plan[w] # <<>> /\ holder[Head(plan[w])] # w /\ Head(plan[w]) \in Rows
                     /\ \E p \in S : plan[p] # <<>> /\ holder[Head(plan[p])] = w
    <3>1. \A w \in S : plan[w] # <<>> /\ holder[Head(plan[w])] # w
      BY DEF Cycle, WaitsFor
    <3>2. \A w \in S : \E p \in S : w \in WaitsFor(p)
      BY DEF Cycle
    <3>3. \A w \in S : \E p \in S : plan[p] # <<>> /\ holder[Head(plan[p])] = w
      BY <3>2 DEF WaitsFor
    <3>4. \A w \in S : Head(plan[w]) \in Rows
      <4>1. \A w \in S : plan[w] \in Seq(Rows)
        BY OfIInv
      <4> QED  BY <3>1, <4>1
    <3> QED  BY <3>1, <3>3, <3>4
  <2>2. \A r \in Rows : \/ \E t \in Transfers : r = TransferRow(t)
                        \/ \E u \in Users : r = BalanceRow(u)
    BY DEF Rows
  <2>3. ASSUME NEW w \in S
        PROVE  w \in Consumers /\ plan[w] # <<TransferRow(job[w].transfer)>>
    <3>1. PICK p \in S : holder[Head(plan[p])] = w
      BY <2>1
    <3>2. w \in Workers /\ plan[w] # <<>> /\ Head(plan[p]) \in Rows
      BY <2>1
    <3>3. CASE \E t \in Transfers : Head(plan[p]) = TransferRow(t)
      BY <3>1, <3>2, <3>3 DEF LocksFollowPlans
    <3>4. CASE \E u \in Users : Head(plan[p]) = BalanceRow(u)
      BY <3>1, <3>2, <3>4, OfIInv DEF LocksFollowPlans
    <3> QED  BY <2>2, <3>2, <3>3, <3>4
  <2>4. \A w \in S : \E u \in Users : Head(plan[w]) = BalanceRow(u)
    BY <2>1, <2>2, <2>3, AtTransferRow
  <2>5. ASSUME ~\E w \in S : job[w].kind = "settle" /\ From[job[w].transfer] > To[job[w].transfer]
        PROVE  FALSE
    <3> DEFINE T == {u \in Users : \E p \in S : Head(plan[p]) = BalanceRow(u)}
    <3>1. T \in SUBSET Nat /\ T # {}
      BY <2>4, UsersAreNumbers DEF Cycle
    <3>2. PICK v \in T : \A y \in T : v <= y
      BY <3>1, SmallestExists
    <3>3. PICK p \in S : Head(plan[p]) = BalanceRow(v)
      BY <3>2
    <3>4. PICK q \in S : holder[Head(plan[q])] = p
      BY <2>1
    <3>5. PICK u \in Users : Head(plan[q]) = BalanceRow(u)
      BY <2>4
    <3>6. u \in T /\ v \in Users
      BY <3>5
    <3>7. u < v
      BY <2>1, <2>3, <2>5, <3>3, <3>4, <3>5, <3>6, WaitsAscend
    <3> QED  BY <3>1, <3>2, <3>6, <3>7
  <2> QED  BY <2>3, <2>5
<1> QED  BY <1>1, Invariant, LocksInvariant, PTL
=============================================================================
