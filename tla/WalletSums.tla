----------------------------- MODULE WalletSums -----------------------------
(***************************************************************************)
(* The sums of Wallet for every set of users, transfers, deposits and       *)
(* amounts: the snapshots are the sums of the ledger, the holds are the     *)
(* sums of the open transfers, and therefore no settlement can fail.        *)
(***************************************************************************)
EXTENDS WalletProofs, FiniteSetTheorems, WellFoundedInduction

-----------------------------------------------------------------------------
(* Sums over finite sets.                                                  *)

\* Induction on finite sets, over a set of sets instead of a predicate: from the
\* well-foundedness of the strict subsets of a finite set.
LEMMA SetInduction ==
  ASSUME NEW S, IsFiniteSet(S), NEW G,
         \A T \in SUBSET S : (\A U \in SUBSET T : U # T => U \in G) => T \in G
  PROVE  SUBSET S \subseteq G
<1> DEFINE B == (SUBSET S) \ G
<1> SUFFICES ASSUME B # {} PROVE FALSE
  OBVIOUS
<1>1. IsWellFoundedOn(StrictSubsetOrdering(S), SUBSET S)
  <2>1. IsWellFoundedOn(StrictSubsetOrdering(S), FiniteSubsetsOf(S))
    BY FS_StrictSubsetOrderingWellFounded
  <2>2. FiniteSubsetsOf(S) = SUBSET S
    BY FS_FiniteSubsetsOfFinite
  <2> QED BY <2>1, <2>2
<1>2. B \subseteq SUBSET S
  OBVIOUS
<1> HIDE DEF B
<1>3. \E x \in B : \A y \in B : ~(<<y, x>> \in StrictSubsetOrdering(S))
  BY <1>1, <1>2, WFMin
<1>4. PICK T \in B : \A U \in B : ~(<<U, T>> \in StrictSubsetOrdering(S))
  BY <1>3
<1>5. \A U \in SUBSET T : U # T => <<U, T>> \in StrictSubsetOrdering(S)
  BY <1>2, <1>4 DEF StrictSubsetOrdering
<1>6. \A U \in SUBSET T : U \in SUBSET S
  BY <1>2, <1>4
<1>7. ASSUME NEW U \in SUBSET T, U # T PROVE U \in G
  <2>1. <<U, T>> \in StrictSubsetOrdering(S) /\ U \in SUBSET S
    BY <1>5, <1>6, <1>7
  <2>2. U \notin B
    BY <1>4, <2>1
  <2> QED BY <2>1, <2>2 DEF B
<1>8. T \in SUBSET S /\ T \notin G
  BY <1>4 DEF B
<1> QED BY <1>7, <1>8

\* The fold behind Total takes the elements in the order CHOOSE gives.
Pick(s) == CHOOSE x \in s : TRUE
Solves(g, f, S) == g = [s \in SUBSET S |-> IF s = {} THEN 0 ELSE f[Pick(s)] + g[s \ {Pick(s)}]]

LEMMA TotalIs ==
  ASSUME NEW f, NEW S
  PROVE Total(f, S) = (CHOOSE g : Solves(g, f, S))[S]
BY DEF Total, SumFunctionOnSet, FoldFunctionOnSet, MapThenFoldSet, Solves, Pick

LEMMA Picked ==
  ASSUME NEW s, s # {}
  PROVE  Pick(s) \in s /\ s \ {Pick(s)} \in SUBSET s /\ s \ {Pick(s)} # s
BY DEF Pick

LEMMA SolvesAt ==
  ASSUME NEW f, NEW S, NEW g, Solves(g, f, S), NEW s \in SUBSET S
  PROVE  g[s] = IF s = {} THEN 0 ELSE f[Pick(s)] + g[s \ {Pick(s)}]
<1>1. g = [t \in SUBSET S |-> IF t = {} THEN 0 ELSE f[Pick(t)] + g[t \ {Pick(t)}]]
  BY DEF Solves
<1> DEFINE val(t) == IF t = {} THEN 0 ELSE f[Pick(t)] + g[t \ {Pick(t)}]
<1>2. g = [t \in SUBSET S |-> val(t)]
  BY <1>1
<1> HIDE DEF val
<1>3. g[s] = val(s)
  BY <1>2
<1> QED BY <1>3 DEF val

\* The recursion has one solution at most on every finite set, ...
LEMMA SolutionsAgree ==
  ASSUME NEW f, NEW S, NEW T, NEW g, NEW h, Solves(g, f, S), Solves(h, f, T),
         NEW A \in SUBSET (S \cap T), IsFiniteSet(A)
  PROVE  g[A] = h[A]
<1> DEFINE G == {s \in SUBSET A : g[s] = h[s]}
<1>1. ASSUME NEW s \in SUBSET A, \A U \in SUBSET s : U # s => U \in G
      PROVE  s \in G
  <2>0. s \in SUBSET S /\ s \in SUBSET T
    OBVIOUS
  <2>1. /\ g[s] = IF s = {} THEN 0 ELSE f[Pick(s)] + g[s \ {Pick(s)}]
        /\ h[s] = IF s = {} THEN 0 ELSE f[Pick(s)] + h[s \ {Pick(s)}]
    BY <2>0, SolvesAt
  <2>2. s # {} => g[s \ {Pick(s)}] = h[s \ {Pick(s)}]
    BY <1>1, Picked
  <2>3. g[s] = h[s]
    BY <2>1, <2>2
  <2> QED BY <2>3
<1> HIDE DEF G
<1>2. SUBSET A \subseteq G
  BY <1>1, SetInduction
<1> QED BY <1>2 DEF G

\* ... and it has one.
LEMMA SolutionExists ==
  ASSUME NEW f, NEW S, IsFiniteSet(S)
  PROVE  \E g : Solves(g, f, S)
<1> DEFINE G == {T \in SUBSET S : \E g : Solves(g, f, T)}
<1>1. ASSUME NEW T \in SUBSET S, \A U \in SUBSET T : U # T => U \in G
      PROVE  T \in G
  <2> DEFINE V(s) == (CHOOSE g : Solves(g, f, s))[s]
             val(s) == IF s = {} THEN 0 ELSE f[Pick(s)] + V(s \ {Pick(s)})
             g == [s \in SUBSET T |-> val(s)]
  <2>1. ASSUME NEW U \in SUBSET T, U # T
        PROVE  V(U) = val(U)
    <3> DEFINE h == CHOOSE h : Solves(h, f, U)
    <3>1. Solves(h, f, U)
      BY <1>1, <2>1
    <3>2. V(U) = h[U]
      OBVIOUS
    <3> HIDE DEF h
    <3>3. h[U] = IF U = {} THEN 0 ELSE f[Pick(U)] + h[U \ {Pick(U)}]
      BY <3>1, SolvesAt
    <3>4. ASSUME U # {} PROVE h[U \ {Pick(U)}] = V(U \ {Pick(U)})
      <4> DEFINE W == U \ {Pick(U)}
                 k == CHOOSE k : Solves(k, f, W)
      <4>1. W \in SUBSET U /\ W \in SUBSET T /\ W # T
        BY <2>1, <3>4, Picked
      <4>2. \E x : Solves(x, f, W)
        BY <1>1, <4>1
      <4>3. Solves(k, f, W)
        BY <4>2
      <4>4. V(W) = k[W]
        OBVIOUS
      <4>5. IsFiniteSet(W)
        BY <4>1, FS_Subset
      <4>6. W \in SUBSET (U \cap W)
        BY <4>1
      <4> HIDE DEF W, k
      <4>7. h[W] = k[W]
        BY <3>1, <4>3, <4>5, <4>6, SolutionsAgree
      <4> QED BY <4>4, <4>7 DEF W
    <3> QED BY <3>2, <3>3, <3>4
  <2>2. ASSUME NEW s \in SUBSET T
        PROVE  val(s) = IF s = {} THEN 0 ELSE f[Pick(s)] + g[s \ {Pick(s)}]
    <3>1. CASE s = {}
      BY <3>1
    <3>2. CASE s # {}
      <4> DEFINE U == s \ {Pick(s)}
      <4>1. U \in SUBSET T /\ U # T
        BY <3>2, Picked
      <4>2. g[U] = val(U)
        BY <4>1
      <4>3. V(U) = val(U)
        BY <4>1, <2>1
      <4>4. val(s) = f[Pick(s)] + V(U)
        BY <3>2
      <4> HIDE DEF V, val, g
      <4> QED BY <3>2, <4>2, <4>3, <4>4
    <3> QED BY <3>1, <3>2
  <2>3. Solves(g, f, T)
    <3> SUFFICES g = [s \in SUBSET T |-> IF s = {} THEN 0 ELSE f[Pick(s)] + g[s \ {Pick(s)}]]
      BY DEF Solves
    <3>1. PICK gg : gg = g
      OBVIOUS
    <3>2. \A s \in SUBSET T : val(s) = IF s = {} THEN 0 ELSE f[Pick(s)] + gg[s \ {Pick(s)}]
      <4> HIDE DEF val, g
      <4> QED BY <2>2, <3>1
    <3>3. gg = [s \in SUBSET T |-> val(s)]
      BY <3>1
    <3> HIDE DEF val
    <3>4. gg = [s \in SUBSET T |-> IF s = {} THEN 0 ELSE f[Pick(s)] + gg[s \ {Pick(s)}]]
      BY <3>2, <3>3
    <3> QED BY <3>1, <3>4
  <2> HIDE DEF g
  <2> QED BY <2>3
<1> HIDE DEF G
<1>2. SUBSET S \subseteq G
  BY <1>1, SetInduction
<1> QED BY <1>2 DEF G

\* Total is what its recursive definition says, one element at a time.
LEMMA TotalUnfolds ==
  ASSUME NEW f, NEW S, IsFiniteSet(S)
  PROVE  Total(f, S) =
           IF S = {} THEN 0 ELSE f[Pick(S)] + Total(f, S \ {Pick(S)})
<1> DEFINE g == CHOOSE g : Solves(g, f, S)
<1>1. Solves(g, f, S)
  BY SolutionExists
<1>2. Total(f, S) = g[S]
  BY TotalIs
<1> HIDE DEF g
<1>3. g[S] = IF S = {} THEN 0 ELSE f[Pick(S)] + g[S \ {Pick(S)}]
  BY <1>1, SolvesAt
<1>4. ASSUME S # {} PROVE g[S \ {Pick(S)}] = Total(f, S \ {Pick(S)})
  <2> DEFINE W == S \ {Pick(S)}
             k == CHOOSE k : Solves(k, f, W)
  <2>1. W \in SUBSET S /\ IsFiniteSet(W)
    BY FS_Subset
  <2>2. W \in SUBSET (S \cap W)
    BY <2>1
  <2> HIDE DEF W
  <2>3. Solves(k, f, W)
    BY <2>1, SolutionExists
  <2>4. Total(f, W) = k[W]
    BY TotalIs
  <2> HIDE DEF k
  <2>5. g[W] = k[W]
    BY <1>1, <2>1, <2>2, <2>3, SolutionsAgree
  <2> QED BY <2>4, <2>5 DEF W
<1> QED BY <1>2, <1>3, <1>4

LEMMA TotalOfNone == ASSUME NEW f PROVE Total(f, {}) = 0
BY TotalUnfolds, FS_EmptySet

LEMMA TotalType ==
  ASSUME NEW f, NEW S, IsFiniteSet(S), \A x \in S : f[x] \in Int
  PROVE  Total(f, S) \in Int
<1> DEFINE G == {T \in SUBSET S : Total(f, T) \in Int}
<1>1. ASSUME NEW T \in SUBSET S, \A U \in SUBSET T : U # T => U \in G
      PROVE  T \in G
  <2>1. IsFiniteSet(T)
    BY FS_Subset
  <2>2. Total(f, T) =
           IF T = {} THEN 0 ELSE f[Pick(T)] + Total(f, T \ {Pick(T)})
    BY <2>1, TotalUnfolds
  <2>3. T # {} => f[Pick(T)] \in Int /\ Total(f, T \ {Pick(T)}) \in Int
    BY <1>1, Picked
  <2>4. Total(f, T) \in Int
    BY <2>2, <2>3
  <2> QED BY <2>4
<1> HIDE DEF G
<1>2. SUBSET S \subseteq G
  BY <1>1, SetInduction
<1> QED BY <1>2 DEF G

\* It depends on the values over the set and on nothing else.
LEMMA TotalSame ==
  ASSUME NEW f, NEW g, NEW S, IsFiniteSet(S), \A x \in S : f[x] = g[x]
  PROVE  Total(f, S) = Total(g, S)
<1> DEFINE G == {T \in SUBSET S : Total(f, T) = Total(g, T)}
<1>1. ASSUME NEW T \in SUBSET S, \A U \in SUBSET T : U # T => U \in G
      PROVE  T \in G
  <2>1. IsFiniteSet(T)
    BY FS_Subset
  <2>2. /\ Total(f, T) =
             IF T = {} THEN 0 ELSE f[Pick(T)] + Total(f, T \ {Pick(T)})
        /\ Total(g, T) =
             IF T = {} THEN 0 ELSE g[Pick(T)] + Total(g, T \ {Pick(T)})
    BY <2>1, TotalUnfolds
  <2>3. T # {} => /\ f[Pick(T)] = g[Pick(T)]
                  /\ Total(f, T \ {Pick(T)}) = Total(g, T \ {Pick(T)})
    BY <1>1, Picked
  <2>4. Total(f, T) = Total(g, T)
    BY <2>2, <2>3
  <2> QED BY <2>4
<1> HIDE DEF G
<1>2. SUBSET S \subseteq G
  BY <1>1, SetInduction
<1> QED BY <1>2 DEF G

LEMMA TotalNonNegative ==
  ASSUME NEW f, NEW S, IsFiniteSet(S), \A x \in S : f[x] \in Int /\ f[x] >= 0
  PROVE  Total(f, S) >= 0
<1> DEFINE G == {T \in SUBSET S : Total(f, T) \in Int /\ Total(f, T) >= 0}
<1>1. ASSUME NEW T \in SUBSET S, \A U \in SUBSET T : U # T => U \in G
      PROVE  T \in G
  <2>1. IsFiniteSet(T)
    BY FS_Subset
  <2>2. Total(f, T) =
           IF T = {} THEN 0 ELSE f[Pick(T)] + Total(f, T \ {Pick(T)})
    BY <2>1, TotalUnfolds
  <2>3. T # {} => /\ f[Pick(T)] \in Int /\ f[Pick(T)] >= 0
                  /\ Total(f, T \ {Pick(T)}) \in Int
                  /\ Total(f, T \ {Pick(T)}) >= 0
    BY <1>1, Picked
  <2>4. Total(f, T) \in Int /\ Total(f, T) >= 0
    BY <2>2, <2>3
  <2> QED BY <2>4
<1> HIDE DEF G
<1>2. SUBSET S \subseteq G
  BY <1>1, SetInduction
<1> QED BY <1>2 DEF G

\* Any element may be taken out first: the order does not matter.
LEMMA TotalTakes ==
  ASSUME NEW f, NEW S, IsFiniteSet(S), \A x \in S : f[x] \in Int, NEW x \in S
  PROVE  Total(f, S) = f[x] + Total(f, S \ {x})
<1> DEFINE G == {T \in SUBSET S :
                   \A y \in T : Total(f, T) = f[y] + Total(f, T \ {y})}
<1>1. ASSUME NEW T \in SUBSET S, \A U \in SUBSET T : U # T => U \in G, NEW y \in T
      PROVE  Total(f, T) = f[y] + Total(f, T \ {y})
  <2> DEFINE p == Pick(T)
  <2>0. p \in T
    BY <1>1, Picked
  <2>1. IsFiniteSet(T)
    BY FS_Subset
  <2>2. Total(f, T) = f[p] + Total(f, T \ {p})
    BY <1>1, <2>1, TotalUnfolds
  <2> HIDE DEF p
  <2>3. CASE y = p
    BY <2>2, <2>3
  <2>4. CASE y # p
    <3> DEFINE W == (T \ {p}) \ {y}
    <3>1. T \ {p} \in G /\ T \ {y} \in G
      BY <1>1, <2>0
    <3>2. Total(f, T \ {p}) = f[y] + Total(f, W)
      BY <1>1, <2>4, <3>1
    <3>3. (T \ {y}) \ {p} = W
      OBVIOUS
    <3>4. Total(f, T \ {y}) = f[p] + Total(f, (T \ {y}) \ {p})
      BY <2>0, <2>4, <3>1
    <3>5. W \in SUBSET S
      OBVIOUS
    <3> HIDE DEF W
    <3>6. Total(f, W) \in Int /\ f[p] \in Int /\ f[y] \in Int
      BY <1>1, <2>0, <3>5, FS_Subset, TotalType
    <3>7. Total(f, T \ {y}) = f[p] + Total(f, W)
      BY <3>3, <3>4, Zenon
    <3>8. Total(f, T) = f[p] + (f[y] + Total(f, W))
      BY <2>2, <3>2, Zenon
    <3>9. f[p] + (f[y] + Total(f, W)) = f[y] + (f[p] + Total(f, W))
      BY <3>6
    <3> QED BY <3>7, <3>8, <3>9, Zenon
  <2> QED BY <2>3, <2>4
<1>2. \A T \in SUBSET S : (\A U \in SUBSET T : U # T => U \in G) => T \in G
  BY <1>1
<1> HIDE DEF G
<1>3. SUBSET S \subseteq G
  BY <1>2, SetInduction
<1> QED BY <1>3 DEF G

LEMMA TotalAdds ==
  ASSUME NEW f, NEW S, IsFiniteSet(S), NEW x, x \notin S, \A y \in S \cup {x} : f[y] \in Int
  PROVE  /\ IsFiniteSet(S \cup {x})
         /\ Total(f, S \cup {x}) = f[x] + Total(f, S)
<1>1. IsFiniteSet(S \cup {x})
  BY FS_AddElement
<1>2. (S \cup {x}) \ {x} = S
  OBVIOUS
<1> QED BY <1>1, <1>2, TotalTakes

-----------------------------------------------------------------------------
(* Strengthenings.                                                         *)

\* Both tables are finite at every moment: a sum over them is a number.
RowsFinite ==
    /\ IsFiniteSet(ledger)
    /\ IsFiniteSet({t \in TransferIds : status[t] # "ABSENT"})

\* create_transfer refused the transfers of a user to himself.
TwoParties ==
    \A t \in TransferIds : status[t] # "ABSENT" => body[t].from # body[t].to

\* Every step keeps TwoParties: the columns of a row never change.
LEMMA NextTwoParties == TypeOK /\ TwoParties /\ [Next]_vars => TwoParties'
<1> SUFFICES ASSUME TypeOK, TwoParties, [Next]_vars PROVE TwoParties'
  OBVIOUS
<1>0. ASSUME UNCHANGED body,
             \A t \in TransferIds : (status'[t] = "ABSENT") <=> (status[t] = "ABSENT")
      PROVE  TwoParties'
  BY <1>0 DEF TwoParties
<1>1. ASSUME NEW k \in Keys, NEW r \in Requests, NEW t \in TransferIds, PostTransfer(k, r, t)
      PROVE  TwoParties'
  <2>1. /\ r.from # r.to
        /\ status' = [status EXCEPT ![t] = "CREATED"]
        /\ body' = [body EXCEPT ![t] =
                      [from |-> r.from, to |-> r.to, amount |-> r.amount, key |-> k]]
    BY <1>1 DEF PostTransfer, Refused
  <2> QED  BY <2>1 DEF TwoParties, TypeOK
<1>2. ASSUME AdvanceProgress PROVE TwoParties'
  BY <1>2, <1>0 DEF AdvanceProgress, TypeOK
<1>3. ASSUME NEW e \in Events, Dispatch(e) PROVE TwoParties'
  BY <1>3, <1>0, HandleTypes DEF Dispatch
<1>4. \/ UNCHANGED <<body, status>>
      \/ \E k \in Keys, r \in Requests, t \in TransferIds : PostTransfer(k, r, t)
      \/ AdvanceProgress
      \/ \E e \in Events : Dispatch(e)
  BY DEF Next, vars, transferRows, IssueAddress, CreateWallet, RefuseTransfer, ReplayTransfer,
         RelayPublish, DispatchDuplicate, DispatchRaises
<1> QED  BY <1>0, <1>1, <1>2, <1>3, <1>4

-----------------------------------------------------------------------------
(* The snapshots are the sums of the ledger.                               *)

\* What reconcile() adds up for user u in the rows L, and his row among W.
SumOf(L, u) == Total([l \in L |-> l.amount], {l \in L : l.user = u})
RowOf(W, u) == CHOOSE p \in W : p.user = u

\* New rows W, one per user at most, move the sum of user u by the amount of
\* the row that is his.
LEMMA SumMoves ==
  ASSUME NEW L \in SUBSET LedgerEntries, IsFiniteSet(L),
         NEW W \in SUBSET LedgerEntries, W \cap L = {},
         \A p, q \in W : p.user = q.user => p = q,
         NEW u
  PROVE  SumOf(L \cup W, u) = IF \E p \in W : p.user = u
                              THEN SumOf(L, u) + RowOf(W, u).amount
                              ELSE SumOf(L, u)
<1> DEFINE f == [l \in L |-> l.amount]
           g == [l \in L \cup W |-> l.amount]
           A == {l \in L : l.user = u}
           B == {l \in L \cup W : l.user = u}
<1>1. IsFiniteSet(A)
  BY FS_Subset
<1>2. A \subseteq L /\ \A l \in L : f[l] = l.amount
  OBVIOUS
<1>3. \A l \in L \cup W : g[l] = l.amount /\ g[l] \in Int
  BY DEF LedgerEntries
<1>4. Total(f, A) = Total(g, A)
  <2>1. \A x \in A : f[x] = g[x]
    BY <1>2, <1>3
  <2> HIDE DEF f, g, A
  <2> QED  BY <1>1, <2>1, TotalSame
<1>5. CASE \E p \in W : p.user = u
  <2> DEFINE q == CHOOSE p \in W : p.user = u
  <2>1. q \in W /\ q.user = u
    BY <1>5
  <2> HIDE DEF q
  <2>2. B = A \cup {q} /\ q \notin A
    BY <2>1
  <2>3. g[q] = q.amount /\ \A y \in A \cup {q} : g[y] \in Int
    BY <1>3, <2>1
  <2> HIDE DEF f, g, A, B
  <2>4. Total(g, A \cup {q}) = g[q] + Total(g, A)
    BY <1>1, <2>2, <2>3, TotalAdds
  <2>5. Total(g, A) \in Int /\ q.amount \in Int
    BY <1>1, <2>3, TotalType
  <2>6. Total(g, B) = Total(f, A) + q.amount
    BY <1>4, <2>2, <2>3, <2>4, <2>5
  <2> QED  BY <1>5, <2>6 DEF f, g, A, B, q, SumOf, RowOf
<1>6. CASE ~\E p \in W : p.user = u
  <2>1. B = A
    BY <1>6
  <2> HIDE DEF f, g, A, B
  <2>2. Total(g, B) = Total(f, A)
    BY <2>1, <1>4
  <2> QED  BY <1>6, <2>2 DEF f, g, A, B, SumOf
<1> QED  BY <1>5, <1>6

\* post_entries keeps the snapshots equal to the sums: a row that is not written
\* because its key is taken moves no snapshot either.
LEMMA PostReconciles ==
  ASSUME TypeOK, Reconciled, IsFiniteSet(ledger),
         NEW ps \in SUBSET LedgerEntries, IsFiniteSet(ps),
         \A p, q \in ps : p.user = q.user => p = q,
         NEW r, Post(ps, r)
  PROVE  Reconciled' /\ IsFiniteSet(ledger')
<1>1. PICK W : W = Written(ps)
  OBVIOUS
<1>2. PICK L : L = ledger
  OBVIOUS
<1>3. /\ W \in SUBSET LedgerEntries /\ L \in SUBSET LedgerEntries
      /\ \A p, q \in W : p.user = q.user => p = q
      /\ W \subseteq ps
  BY <1>1, <1>2 DEF Written, TypeOK
<1>4. W \cap L = {}
  BY <1>1, <1>2 DEF Written, SameKey
<1>5. ledger' = L \cup W
  BY <1>1, <1>2 DEF Post
<1>6. IsFiniteSet(L) /\ IsFiniteSet(L \cup W)
  BY <1>2, <1>3, FS_Subset, FS_Union
<1>7. ASSUME NEW u \in Users
      PROVE  posted'[u] = SumOf(ledger', u)
  <2>1. posted[u] = SumOf(L, u)
    BY <1>2, Zenon DEF Reconciled, SumOf
  <2>2. posted'[u] = IF \E p \in W : p.user = u
                     THEN posted[u] + RowOf(W, u).amount
                     ELSE posted[u]
    BY <1>1 DEF Post, PostEntries, RowOf
  <2>3. SumOf(L \cup W, u) = IF \E p \in W : p.user = u
                             THEN SumOf(L, u) + RowOf(W, u).amount
                             ELSE SumOf(L, u)
    BY <1>3, <1>4, <1>6, SumMoves
  <2>4. posted'[u] = SumOf(L \cup W, u)
    BY <2>1, <2>2, <2>3
  <2> QED  BY <2>4, <1>5
<1> QED  BY <1>5, <1>6, <1>7 DEF Reconciled, SumOf

LEMMA FewAreFinite == ASSUME NEW x, NEW y PROVE IsFiniteSet({x}) /\ IsFiniteSet({x, y})
<1>1. IsFiniteSet({x})
  BY FS_Singleton
<1>2. IsFiniteSet({x} \cup {y})
  BY <1>1, FS_AddElement
<1>3. {x} \cup {y} = {x, y}
  OBVIOUS
<1> QED  BY <1>1, <1>2, <1>3

\* No handler leaves a snapshot that differs from the sum.
LEMMA HandleReconciles ==
  ASSUME TypeOK, TwoParties, Reconciled, IsFiniteSet(ledger), NEW e \in Events, Handle(e)
  PROVE  Reconciled' /\ IsFiniteSet(ledger')
<1>0. ASSUME UNCHANGED <<posted, ledger>> PROVE Reconciled' /\ IsFiniteSet(ledger')
  BY <1>0 DEF Reconciled
<1>1. ASSUME NEW p \in LedgerEntries, NEW r, Post({p}, r)
      PROVE  Reconciled' /\ IsFiniteSet(ledger')
  <2>1. PICK ps : ps = {p}
    OBVIOUS
  <2>2. ps \in SUBSET LedgerEntries /\ \A x, y \in ps : x.user = y.user => x = y
    BY <2>1
  <2>3. IsFiniteSet(ps)
    BY <2>1, FewAreFinite
  <2> QED  BY <1>1, <2>1, <2>2, <2>3, PostReconciles
<1>2. ASSUME NEW p \in LedgerEntries, NEW q \in LedgerEntries, p.user # q.user,
             NEW r, Post({p, q}, r)
      PROVE  Reconciled' /\ IsFiniteSet(ledger')
  <2>1. PICK ps : ps = {p, q}
    OBVIOUS
  <2>2. ps \in SUBSET LedgerEntries /\ \A x, y \in ps : x.user = y.user => x = y
    BY <1>2, <2>1
  <2>3. IsFiniteSet(ps)
    BY <2>1, FewAreFinite
  <2> QED  BY <1>2, <2>1, <2>2, <2>3, PostReconciles
<1>3. ASSUME NEW d \in Deposits, NEW b \in Blocks,
             \/ e = Detected(d, b)
             \/ e = Confirmed(d, b)
             \/ \E w \in BOOLEAN : e = Reorged(d, b, w)
      PROVE  Reconciled' /\ IsFiniteSet(ledger')
  <2>1. CreditPosting(d, b) \in LedgerEntries /\ ClawbackPosting(d, b) \in LedgerEntries
    BY PostingTypes, DepositsAssumption
  <2>2. \/ UNCHANGED <<posted, ledger>>
        \/ Post({CreditPosting(d, b)}, reserved)
        \/ Post({ClawbackPosting(d, b)}, reserved)
    BY <1>3, OnDetected, OnConfirmed, OnReorged DEF money
  <2> QED  BY <1>0, <1>1, <2>1, <2>2
<1>4. ASSUME NEW t \in TransferIds,
             \/ e = TxBroadcasted(t)
             \/ e = TxConfirmed(t)
             \/ \E c \in FailureCodes : e = TxFailed(t, c)
      PROVE  Reconciled' /\ IsFiniteSet(ledger')
  <2>1. \/ UNCHANGED <<posted, ledger>>
        \/ status[t] # "ABSENT" /\ Post(SettlementPostings(t), ReleaseHold(t))
        \/ status[t] # "ABSENT" /\ Post(ReversalPostings(t), reserved)
    BY <1>4, OnTxBroadcasted, OnTxConfirmed, OnTxFailed DEF money
  <2>2. CASE status[t] # "ABSENT" /\ Post(SettlementPostings(t), ReleaseHold(t))
    <3> DEFINE p == Posting(body[t].from, -body[t].amount, "TRANSFER_DEBIT", TransferRef(t))
               q == Posting(body[t].to, body[t].amount, "TRANSFER_CREDIT", TransferRef(t))
    <3>1. SettlementPostings(t) = {p, q}
      BY DEF SettlementPostings
    <3>2. p \in LedgerEntries /\ q \in LedgerEntries
      BY <2>2, <3>1, PostingTypes
    <3>3. p.user # q.user
      BY <2>2 DEF Posting, TwoParties
    <3> HIDE DEF p, q
    <3> QED  BY <1>2, <2>2, <3>1, <3>2, <3>3
  <2>3. CASE status[t] # "ABSENT" /\ Post(ReversalPostings(t), reserved)
    <3> DEFINE p == Posting(body[t].from, body[t].amount, "REVERSAL", TransferRef(t))
               q == Posting(body[t].to, -body[t].amount, "REVERSAL", TransferRef(t))
    <3>1. ReversalPostings(t) = {p, q}
      BY DEF ReversalPostings
    <3>2. p \in LedgerEntries /\ q \in LedgerEntries
      BY <2>3, <3>1, PostingTypes
    <3>3. p.user # q.user
      BY <2>3 DEF Posting, TwoParties
    <3> HIDE DEF p, q
    <3> QED  BY <1>2, <2>3, <3>1, <3>2, <3>3
  <2> QED  BY <1>0, <2>1, <2>2, <2>3
<1> QED  BY <1>3, <1>4, EventKinds

\* Every step keeps the books reconciled and the tables finite.
LEMMA NextReconciled ==
  TypeOK /\ TwoParties /\ Reconciled /\ RowsFinite /\ [Next]_vars => Reconciled' /\ RowsFinite'
<1> SUFFICES ASSUME TypeOK, TwoParties, Reconciled, RowsFinite, [Next]_vars
             PROVE  Reconciled' /\ RowsFinite'
  OBVIOUS
<1> DEFINE Rows == {t \in TransferIds : status[t] # "ABSENT"}
<1>0. ASSUME UNCHANGED <<posted, ledger>> PROVE Reconciled' /\ IsFiniteSet(ledger')
  BY <1>0 DEF Reconciled, RowsFinite
<1>a. ASSUME \A t \in TransferIds : (status'[t] = "ABSENT") <=> (status[t] = "ABSENT")
      PROVE  IsFiniteSet(Rows')
  <2>1. Rows' = Rows
    BY <1>a
  <2> QED  BY <2>1 DEF RowsFinite
<1>1. ASSUME NEW k \in Keys, NEW r \in Requests, NEW t \in TransferIds, PostTransfer(k, r, t)
      PROVE  IsFiniteSet(Rows')
  <2>1. Rows' = Rows \cup {t}
    BY <1>1 DEF PostTransfer, TypeOK
  <2>2. IsFiniteSet(Rows)
    BY DEF RowsFinite
  <2> HIDE DEF Rows
  <2> QED  BY <2>1, <2>2, FS_AddElement
<1>2. ASSUME NEW e \in Events, Dispatch(e)
      PROVE  Reconciled' /\ IsFiniteSet(ledger') /\ IsFiniteSet(Rows')
  <2>1. Handle(e)
    BY <1>2 DEF Dispatch
  <2>2. Reconciled' /\ IsFiniteSet(ledger')
    BY <2>1, HandleReconciles DEF RowsFinite
  <2>3. IsFiniteSet(Rows')
    BY <2>1, <1>a, HandleTypes
  <2> QED  BY <2>2, <2>3
<1>3. ASSUME AdvanceProgress PROVE IsFiniteSet(Rows')
  BY <1>3, <1>a DEF AdvanceProgress, TypeOK
<1>4. \/ UNCHANGED <<posted, ledger, status>>
      \/ /\ UNCHANGED <<posted, ledger>>
         /\ \/ AdvanceProgress
            \/ \E k \in Keys, r \in Requests, t \in TransferIds : PostTransfer(k, r, t)
      \/ \E e \in Events : Dispatch(e)
  BY DEF Next, vars, money, transferRows, IssueAddress, CreateWallet, PostTransfer,
         RefuseTransfer, ReplayTransfer, RelayPublish, AdvanceProgress, DispatchDuplicate,
         DispatchRaises
<1> HIDE DEF Rows
<1>5. Reconciled' /\ IsFiniteSet(ledger') /\ IsFiniteSet(Rows')
  BY <1>0, <1>a, <1>1, <1>2, <1>3, <1>4
<1> QED  BY <1>5 DEF RowsFinite, Rows

\* The invariant of the sums.
SumsInv == TypeOK /\ TwoParties /\ RowsFinite /\ Reconciled

LEMMA InitSums == Init => SumsInv
<1> SUFFICES ASSUME Init PROVE TypeOK /\ TwoParties /\ RowsFinite /\ Reconciled
  BY DEF SumsInv
<1>1. TypeOK
  BY InitTypes
<1>2. TwoParties
  BY DEF Init, TwoParties
<1>3. ledger = {} /\ {t \in TransferIds : status[t] # "ABSENT"} = {}
  BY DEF Init
<1>4. RowsFinite
  BY <1>3, FS_EmptySet DEF RowsFinite
<1>5. ASSUME NEW u \in Users PROVE posted[u] = SumOf(ledger, u)
  <2>1. {l \in ledger : l.user = u} = {}
    BY <1>3
  <2>2. SumOf(ledger, u) = 0
    BY <2>1, TotalOfNone DEF SumOf
  <2> QED  BY <2>2 DEF Init
<1> QED  BY <1>1, <1>2, <1>4, <1>5 DEF Reconciled, SumOf

\* reconcile() never finds a balance that differs from its ledger: whatever is
\* credited, settled, reversed, replayed or refused by an idempotency key.
THEOREM BooksReconcile == Spec => []Reconciled
<1>1. SumsInv /\ [Next]_vars => SumsInv'
  BY NextTypes, NextTwoParties, NextReconciled DEF SumsInv
<1>2. SumsInv => Reconciled
  BY DEF SumsInv
<1> QED  BY InitSums, <1>1, <1>2, PTL DEF Spec

-----------------------------------------------------------------------------
(* The holds are the sums of the open transfers.                           *)

\* What the open transfers of user u hold, for statuses st and columns bd.
HeldRows(st, bd, u) == {t \in TransferIds : st[t] \in Open /\ bd[t].from = u}
HeldSum(st, bd, u) == Total([t \in TransferIds |-> bd[t].amount], HeldRows(st, bd, u))

\* The open rows are few and hold whole amounts.
OpenOK(st, bd) ==
    /\ IsFiniteSet({t \in TransferIds : st[t] \in Open})
    /\ \A t \in TransferIds : st[t] \in Open => bd[t].amount \in Int /\ bd[t].amount > 0

LEMMA HeldSumType ==
  ASSUME NEW st, NEW bd, NEW u, OpenOK(st, bd)
  PROVE  /\ IsFiniteSet(HeldRows(st, bd, u))
         /\ HeldSum(st, bd, u) \in Int
         /\ HeldSum(st, bd, u) >= 0
<1> DEFINE f == [t \in TransferIds |-> bd[t].amount]
           A == HeldRows(st, bd, u)
<1>1. A \subseteq {t \in TransferIds : st[t] \in Open}
  BY DEF HeldRows
<1>2. \A x \in A : f[x] \in Int /\ f[x] >= 0
  BY DEF OpenOK, HeldRows
<1>3. IsFiniteSet(A)
  BY <1>1, FS_Subset DEF OpenOK
<1> HIDE DEF f, A
<1>4. Total(f, A) \in Int /\ Total(f, A) >= 0
  BY <1>2, <1>3, TotalType, TotalNonNegative
<1> QED  BY <1>3, <1>4 DEF f, A, HeldSum

\* Only which rows are open counts, not how far they are.
LEMMA HeldSame ==
  ASSUME NEW st, NEW bd, NEW sn, NEW u,
         \A t \in TransferIds : sn[t] \in Open <=> st[t] \in Open
  PROVE  HeldSum(sn, bd, u) = HeldSum(st, bd, u)
<1>1. HeldRows(sn, bd, u) = HeldRows(st, bd, u)
  BY DEF HeldRows
<1> QED  BY <1>1 DEF HeldSum

\* A row that becomes open adds its amount to what its sender holds.
LEMMA HeldMore ==
  ASSUME NEW st, NEW bd, NEW sn, NEW bn, NEW t \in TransferIds, NEW u,
         OpenOK(st, bd), OpenOK(sn, bn),
         st[t] \notin Open, sn[t] \in Open,
         \A v \in TransferIds : v # t => sn[v] = st[v] /\ bn[v] = bd[v]
  PROVE  HeldSum(sn, bn, u) = IF u = bn[t].from
                              THEN HeldSum(st, bd, u) + bn[t].amount
                              ELSE HeldSum(st, bd, u)
<1> DEFINE f == [v \in TransferIds |-> bd[v].amount]
           g == [v \in TransferIds |-> bn[v].amount]
           A == HeldRows(st, bd, u)
           B == HeldRows(sn, bn, u)
<1>1. IsFiniteSet(A) /\ Total(f, A) \in Int
  BY HeldSumType DEF HeldSum
<1>2. \A x \in A : f[x] = g[x]
  BY DEF HeldRows
<1>3. t \notin A
  BY DEF HeldRows
<1>4. \A x \in A \cup {t} : g[x] \in Int
  BY DEF HeldRows, OpenOK
<1>5. g[t] = bn[t].amount
  OBVIOUS
<1>6. B = IF u = bn[t].from THEN A \cup {t} ELSE A
  BY DEF HeldRows
<1>7. HeldSum(sn, bn, u) = Total(g, B) /\ HeldSum(st, bd, u) = Total(f, A)
  BY DEF HeldSum
<1> HIDE DEF f, g, A, B
<1>8. Total(f, A) = Total(g, A)
  BY <1>1, <1>2, TotalSame
<1>9. Total(g, A \cup {t}) = g[t] + Total(g, A)
  BY <1>1, <1>3, <1>4, TotalAdds
<1>10. g[t] \in Int
  BY <1>4
<1>11. CASE u = bn[t].from
  BY <1>1, <1>5, <1>6, <1>7, <1>8, <1>9, <1>10, <1>11
<1>12. CASE u # bn[t].from
  BY <1>6, <1>7, <1>8, <1>12
<1> QED  BY <1>11, <1>12

\* A row that ends takes its amount from what its sender holds.
LEMMA HeldLess ==
  ASSUME NEW st, NEW bd, NEW sn, NEW t \in TransferIds, NEW u,
         OpenOK(st, bd), st[t] \in Open, sn[t] \notin Open,
         \A v \in TransferIds : v # t => sn[v] = st[v]
  PROVE  HeldSum(sn, bd, u) = IF u = bd[t].from
                              THEN HeldSum(st, bd, u) - bd[t].amount
                              ELSE HeldSum(st, bd, u)
<1>1. OpenOK(sn, bd)
  <2>1. {v \in TransferIds : sn[v] \in Open} \subseteq {v \in TransferIds : st[v] \in Open}
    OBVIOUS
  <2>2. IsFiniteSet({v \in TransferIds : sn[v] \in Open})
    BY <2>1, FS_Subset DEF OpenOK
  <2> QED  BY <2>2 DEF OpenOK
<1>2. HeldSum(st, bd, u) = IF u = bd[t].from
                           THEN HeldSum(sn, bd, u) + bd[t].amount
                           ELSE HeldSum(sn, bd, u)
  BY <1>1, HeldMore
<1>3. HeldSum(sn, bd, u) \in Int /\ bd[t].amount \in Int
  BY <1>1, HeldSumType DEF OpenOK
<1> QED  BY <1>2, <1>3

\* The tables as they are satisfy OpenOK.
LEMMA OpenRows == TypeOK /\ RowsFinite => OpenOK(status, body)
<1> SUFFICES ASSUME TypeOK, RowsFinite PROVE OpenOK(status, body)
  OBVIOUS
<1>1. {t \in TransferIds : status[t] \in Open} \subseteq {t \in TransferIds : status[t] # "ABSENT"}
  BY DEF Open
<1>2. IsFiniteSet({t \in TransferIds : status[t] \in Open})
  BY <1>1, FS_Subset DEF RowsFinite
<1>3. ASSUME NEW t \in TransferIds, status[t] \in Open
      PROVE  body[t].amount \in Int /\ body[t].amount > 0
  <2>1. body[t] \in TransferRows
    BY <1>3 DEF TypeOK, Open
  <2> QED  BY <2>1, AmountsAreInts DEF TransferRows
<1> QED  BY <1>2, <1>3 DEF OpenOK

\* No handler leaves a hold that differs from the sum.
LEMMA HandleHolds ==
  ASSUME TypeOK, RowsFinite, HoldsBackOpenTransfers, NEW e \in Events, Handle(e), UNCHANGED body
  PROVE  \A u \in Users : reserved'[u] = HeldSum(status', body, u)
<1>0. OpenOK(status, body) /\ \A u \in Users : reserved[u] = HeldSum(status, body, u)
  BY OpenRows DEF HoldsBackOpenTransfers, HeldSum, HeldRows
<1>1. ASSUME UNCHANGED reserved,
             \A t \in TransferIds : status'[t] \in Open <=> status[t] \in Open
      PROVE  \A u \in Users : reserved'[u] = HeldSum(status', body, u)
  BY <1>0, <1>1, HeldSame
<1>2. ASSUME NEW t \in TransferIds, status[t] \in Open, NEW s, s \notin Open,
             reserved' = ReleaseHold(t), status' = [status EXCEPT ![t] = s],
             NEW u \in Users
      PROVE  reserved'[u] = HeldSum(status', body, u)
  <2>1. /\ status'[t] \notin Open
        /\ \A v \in TransferIds : v # t => status'[v] = status[v]
    BY <1>2 DEF TypeOK
  <2>2. HeldSum(status', body, u) = IF u = body[t].from
                                    THEN HeldSum(status, body, u) - body[t].amount
                                    ELSE HeldSum(status, body, u)
    <3>1. PICK st : st = status
      OBVIOUS
    <3>2. PICK sn : sn = status'
      OBVIOUS
    <3>3. PICK bd : bd = body
      OBVIOUS
    <3>4. /\ OpenOK(st, bd) /\ st[t] \in Open /\ sn[t] \notin Open
          /\ \A v \in TransferIds : v # t => sn[v] = st[v]
      BY <1>0, <1>2, <2>1, <3>1, <3>2, <3>3
    <3>5. HeldSum(sn, bd, u) = IF u = bd[t].from
                               THEN HeldSum(st, bd, u) - bd[t].amount
                               ELSE HeldSum(st, bd, u)
      BY <3>4, HeldLess
    <3> QED  BY <3>1, <3>2, <3>3, <3>5
  <2>3. reserved'[u] = IF u = body[t].from THEN reserved[u] - body[t].amount ELSE reserved[u]
    BY <1>2 DEF ReleaseHold, TypeOK
  <2> QED  BY <1>0, <2>2, <2>3
<1>3. ASSUME NEW d \in Deposits, NEW b \in Blocks,
             \/ e = Detected(d, b)
             \/ e = Confirmed(d, b)
             \/ \E w \in BOOLEAN : e = Reorged(d, b, w)
      PROVE  \A u \in Users : reserved'[u] = HeldSum(status', body, u)
  <2>1. UNCHANGED <<reserved, status>>
    BY <1>3, OnDetected, OnConfirmed, OnReorged DEF money
  <2> QED  BY <1>1, <2>1
<1>4. ASSUME NEW t \in TransferIds, e = TxBroadcasted(t)
      PROVE  \A u \in Users : reserved'[u] = HeldSum(status', body, u)
  <2>1. /\ UNCHANGED reserved
        /\ \/ UNCHANGED status
           \/ /\ status[t] \notin Terminal \cup {"ABSENT"}
              /\ status' = [status EXCEPT ![t] = "BROADCASTED"]
    BY <1>4, OnTxBroadcasted DEF money
  <2>2. \A v \in TransferIds : status'[v] \in Open <=> status[v] \in Open
    BY <2>1 DEF TypeOK, TransferStatus, Open, Terminal
  <2> QED  BY <1>1, <2>1, <2>2
<1>5. ASSUME NEW t \in TransferIds, e = TxConfirmed(t)
      PROVE  \A u \in Users : reserved'[u] = HeldSum(status', body, u)
  <2>1. CASE status[t] \in Terminal \cup {"ABSENT"}
    <3>1. UNCHANGED <<reserved, status>>
      BY <1>5, <2>1, OnTxConfirmed DEF money
    <3> QED  BY <1>1, <3>1
  <2>2. CASE status[t] \notin Terminal \cup {"ABSENT"}
    <3>1. reserved' = ReleaseHold(t) /\ status' = [status EXCEPT ![t] = "CONFIRMED"]
      BY <1>5, <2>2, OnTxConfirmed
    <3>2. status[t] \in Open /\ "CONFIRMED" \notin Open
      BY <2>2 DEF TypeOK, TransferStatus, Open, Terminal
    <3> QED  BY <1>2, <3>1, <3>2
  <2> QED  BY <2>1, <2>2
<1>6. ASSUME NEW t \in TransferIds, NEW c \in FailureCodes, e = TxFailed(t, c)
      PROVE  \A u \in Users : reserved'[u] = HeldSum(status', body, u)
  <2>1. CASE status[t] \in {"FAILED", "ABSENT"}
    <3>1. UNCHANGED <<reserved, status>>
      BY <1>6, <2>1, OnTxFailed DEF money
    <3> QED  BY <1>1, <3>1
  <2>2. CASE status[t] = "CONFIRMED"
    <3>1. UNCHANGED reserved /\ status' = [status EXCEPT ![t] = "FAILED"]
      BY <1>6, <2>2, OnTxFailed
    <3>2. \A v \in TransferIds : status'[v] \in Open <=> status[v] \in Open
      BY <2>2, <3>1 DEF TypeOK, Open
    <3> QED  BY <1>1, <3>1, <3>2
  <2>3. CASE status[t] \notin {"FAILED", "ABSENT", "CONFIRMED"}
    <3>1. reserved' = ReleaseHold(t) /\ status' = [status EXCEPT ![t] = "FAILED"]
      BY <1>6, <2>3, OnTxFailed
    <3>2. status[t] \in Open /\ "FAILED" \notin Open
      BY <2>3 DEF TypeOK, TransferStatus, Open, Terminal
    <3> QED  BY <1>2, <3>1, <3>2
  <2> QED  BY <2>1, <2>2, <2>3
<1> QED  BY <1>3, <1>4, <1>5, <1>6, EventKinds

\* Every step keeps the holds equal to the sums.
LEMMA NextHolds ==
  TypeOK /\ TypeOK' /\ RowsFinite /\ RowsFinite' /\ HoldsBackOpenTransfers /\ [Next]_vars
    => HoldsBackOpenTransfers'
<1> SUFFICES ASSUME TypeOK, TypeOK', RowsFinite, RowsFinite', HoldsBackOpenTransfers, [Next]_vars,
                    NEW u \in Users
             PROVE  reserved'[u] = HeldSum(status', body', u)
  BY DEF HoldsBackOpenTransfers, HeldSum, HeldRows
<1>0. OpenOK(status, body) /\ reserved[u] = HeldSum(status, body, u)
  BY OpenRows DEF HoldsBackOpenTransfers, HeldSum, HeldRows
<1>1. OpenOK(status, body)'
  BY OpenRows, PTL
<1>2. ASSUME UNCHANGED <<reserved, body>>,
             \A t \in TransferIds : status'[t] \in Open <=> status[t] \in Open
      PROVE  reserved'[u] = HeldSum(status', body', u)
  BY <1>0, <1>2, HeldSame
<1>3. ASSUME NEW k \in Keys, NEW r \in Requests, NEW t \in TransferIds, PostTransfer(k, r, t)
      PROVE  reserved'[u] = HeldSum(status', body', u)
  <2>1. /\ status[t] \notin Open /\ status'[t] \in Open
        /\ body'[t].from = r.from /\ body'[t].amount = r.amount
        /\ \A v \in TransferIds : v # t => status'[v] = status[v] /\ body'[v] = body[v]
    BY <1>3 DEF PostTransfer, TypeOK, Open
  <2>2. HeldSum(status', body', u) = IF u = body'[t].from
                                     THEN HeldSum(status, body, u) + body'[t].amount
                                     ELSE HeldSum(status, body, u)
    <3>1. PICK st : st = status
      OBVIOUS
    <3>2. PICK bd : bd = body
      OBVIOUS
    <3>3. PICK sn : sn = status'
      OBVIOUS
    <3>4. PICK bn : bn = body'
      OBVIOUS
    <3>5. OpenOK(st, bd) /\ OpenOK(sn, bn)
      BY <1>0, <1>1, <3>1, <3>2, <3>3, <3>4 DEF OpenOK
    <3>6. /\ st[t] \notin Open /\ sn[t] \in Open
          /\ \A v \in TransferIds : v # t => sn[v] = st[v] /\ bn[v] = bd[v]
      BY <2>1, <3>1, <3>2, <3>3, <3>4
    <3>7. HeldSum(sn, bn, u) = IF u = bn[t].from
                               THEN HeldSum(st, bd, u) + bn[t].amount
                               ELSE HeldSum(st, bd, u)
      BY <3>5, <3>6, HeldMore
    <3> QED  BY <3>1, <3>2, <3>3, <3>4, <3>7
  <2>3. reserved'[u] = IF u = r.from THEN reserved[u] + r.amount ELSE reserved[u]
    BY <1>3 DEF PostTransfer, PlaceHold, TypeOK
  <2> QED  BY <1>0, <2>1, <2>2, <2>3
<1>4. ASSUME AdvanceProgress PROVE reserved'[u] = HeldSum(status', body', u)
  BY <1>4, <1>2 DEF AdvanceProgress, money, TypeOK, Open
<1>5. ASSUME NEW e \in Events, Dispatch(e) PROVE reserved'[u] = HeldSum(status', body', u)
  <2>1. Handle(e) /\ UNCHANGED body
    BY <1>5 DEF Dispatch
  <2> QED  BY <2>1, HandleHolds
<1>6. \/ UNCHANGED <<reserved, body, status>>
      \/ AdvanceProgress
      \/ \E k \in Keys, r \in Requests, t \in TransferIds : PostTransfer(k, r, t)
      \/ \E e \in Events : Dispatch(e)
  BY DEF Next, vars, money, transferRows, IssueAddress, CreateWallet, RefuseTransfer,
         ReplayTransfer, RelayPublish, DispatchDuplicate, DispatchRaises
<1> QED  BY <1>2, <1>3, <1>4, <1>5, <1>6

LEMMA InitHolds == Init => HoldsBackOpenTransfers
<1> SUFFICES ASSUME Init, NEW u \in Users PROVE reserved[u] = HeldSum(status, body, u)
  BY DEF HoldsBackOpenTransfers, HeldSum, HeldRows
<1>1. HeldRows(status, body, u) = {}
  BY DEF Init, HeldRows, Open
<1>2. HeldSum(status, body, u) = 0
  BY <1>1, TotalOfNone DEF HeldSum
<1> QED  BY <1>2 DEF Init

\* No hold leaks and none is released twice: what is reserved is what the open
\* transfers hold, after every order of settlements, failures and replays.
THEOREM HoldsExact == Spec => []HoldsBackOpenTransfers
<1>1. Init => SumsInv /\ HoldsBackOpenTransfers
  BY InitSums, InitHolds
<1>2. SumsInv /\ HoldsBackOpenTransfers /\ [Next]_vars => (SumsInv /\ HoldsBackOpenTransfers)'
  BY NextTypes, NextTwoParties, NextReconciled, NextHolds DEF SumsInv
<1> QED  BY <1>1, <1>2, PTL DEF Spec

-----------------------------------------------------------------------------
(* Only taking money back can raise.                                       *)

\* The CHECK constraints a handler of each kind can run into.
LEMMA RaisesConfirmed ==
  ASSUME NEW d, NEW b, Raises(Confirmed(d, b))
  PROVE  /\ Owner[d] \in wallets
         /\ ~CheckRows(PostEntries({CreditPosting(d, b)}), reserved)
BY DEF Raises, Confirmed

LEMMA RaisesTxConfirmed ==
  ASSUME NEW t, Raises(TxConfirmed(t))
  PROVE  /\ status[t] \in Open
         /\ ~(/\ CheckRows(posted, ReleaseHold(t))
              /\ CheckRows(PostEntries(SettlementPostings(t)), ReleaseHold(t)))
BY DEF Raises, TxConfirmed

LEMMA RaisesTxFailed ==
  ASSUME NEW t, NEW c, Raises(TxFailed(t, c)), status[t] # "CONFIRMED"
  PROVE  status[t] \in Open /\ ~CheckRows(posted, ReleaseHold(t))
BY DEF Raises, TxFailed

LEMMA RaisesNever ==
  ASSUME NEW x, NEW b
  PROVE  ~Raises(Detected(x, b)) /\ ~Raises(TxBroadcasted(x))
BY DEF Raises, Detected, TxBroadcasted

\* An open transfer is covered by what its sender holds back.
LEMMA HoldCovers ==
  ASSUME TypeOK, RowsFinite, HoldsBackOpenTransfers, NEW t \in TransferIds, status[t] \in Open
  PROVE  /\ body[t].from \in Users /\ body[t].to \in Users
         /\ body[t].amount \in Int /\ body[t].amount > 0
         /\ reserved[body[t].from] >= body[t].amount
<1>1. body[t].from \in Users /\ body[t].to \in Users
  <2>1. body[t] \in TransferRows
    BY DEF TypeOK, Open
  <2> QED  BY <2>1 DEF TransferRows
<1>2. OpenOK(status, body)
  BY OpenRows
<1>3. PICK st : st = status
  OBVIOUS
<1>4. PICK bd : bd = body
  OBVIOUS
<1>5. PICK u : u = bd[t].from
  OBVIOUS
<1> DEFINE f == [v \in TransferIds |-> bd[v].amount]
           A == HeldRows(st, bd, u)
<1>6. IsFiniteSet(A)
  BY <1>2, <1>3, <1>4, HeldSumType
<1>7. \A x \in A : f[x] \in Int /\ f[x] >= 0
  BY <1>2, <1>3, <1>4 DEF OpenOK, HeldRows
<1>8. t \in A /\ f[t] = bd[t].amount
  BY <1>3, <1>4, <1>5 DEF HeldRows
<1>9. HeldSum(st, bd, u) = Total(f, A)
  BY DEF HeldSum
<1> HIDE DEF f, A
<1>10. Total(f, A) = f[t] + Total(f, A \ {t})
  BY <1>6, <1>7, <1>8, TotalTakes
<1>11. IsFiniteSet(A \ {t})
  BY <1>6, FS_Subset
<1>12. Total(f, A \ {t}) \in Int /\ Total(f, A \ {t}) >= 0
  BY <1>7, <1>11, TotalType, TotalNonNegative
<1>13. HeldSum(st, bd, u) >= bd[t].amount
  BY <1>7, <1>8, <1>9, <1>10, <1>12
<1>14. reserved[u] = HeldSum(st, bd, u)
  <2>1. u \in Users
    BY <1>1, <1>4, <1>5
  <2>2. reserved[u] = HeldSum(status, body, u)
    BY <2>1 DEF HoldsBackOpenTransfers, HeldSum, HeldRows
  <2> QED  BY <2>2, <1>3, <1>4
<1>15. body[t].amount \in Int /\ body[t].amount > 0
  BY <1>2 DEF OpenOK
<1> QED  BY <1>1, <1>4, <1>5, <1>13, <1>14, <1>15

\* What post_entries leaves for user u: his snapshot, or the snapshot moved by
\* one posting of his.
LEMMA PostsOne ==
  ASSUME NEW ps, NEW u \in Users
  PROVE  \/ PostEntries(ps)[u] = posted[u]
         \/ \E p \in ps : p.user = u /\ PostEntries(ps)[u] = posted[u] + p.amount
<1>1. CASE \E p \in Written(ps) : p.user = u
  <2> DEFINE q == CHOOSE p \in Written(ps) : p.user = u
  <2>1. q \in Written(ps) /\ q.user = u
    BY <1>1
  <2>2. PostEntries(ps)[u] = posted[u] + q.amount
    BY <1>1 DEF PostEntries
  <2>3. q \in ps
    BY <2>1 DEF Written
  <2> HIDE DEF q
  <2> QED  BY <2>1, <2>2, <2>3
<1>2. CASE ~\E p \in Written(ps) : p.user = u
  BY <1>2 DEF PostEntries
<1> QED  BY <1>1, <1>2

\* In a state whose holds are exact, crediting and settling never raise.
LEMMA OthersNeverRaise ==
  TypeOK /\ TwoParties /\ RowsFinite /\ HoldsBackOpenTransfers => OnlyReversalsRaise
<1> SUFFICES ASSUME TypeOK, TwoParties, RowsFinite, HoldsBackOpenTransfers,
                    NEW e \in Events, Raises(e)
             PROVE  \/ e.type = "deposit.reorged"
                    \/ e.type = "tx.failed" /\ status[e.transfer] = "CONFIRMED"
  BY DEF OnlyReversalsRaise
<1>1. ASSUME NEW d \in Deposits, NEW b \in Blocks, e = Confirmed(d, b)
      PROVE  FALSE
  <2>1. ~CheckRows(PostEntries({CreditPosting(d, b)}), reserved)
    BY <1>1, RaisesConfirmed
  <2>2. DepositAmount[d] \in Int /\ DepositAmount[d] > 0
    BY DepositsAssumption, AmountsAreInts
  <2>3. ASSUME NEW u \in Users
        PROVE  /\ reserved[u] >= 0
               /\ PostEntries({CreditPosting(d, b)})[u] - reserved[u] >= 0
    <3>1. \/ PostEntries({CreditPosting(d, b)})[u] = posted[u]
          \/ PostEntries({CreditPosting(d, b)})[u] = posted[u] + DepositAmount[d]
      <4>1. CreditPosting(d, b).amount = DepositAmount[d]
        BY DEF CreditPosting, Posting
      <4> QED  BY <4>1, PostsOne
    <3>2. posted[u] \in Int /\ reserved[u] \in Int /\ reserved[u] >= 0 /\ posted[u] >= reserved[u]
      BY DEF TypeOK
    <3> QED  BY <2>2, <3>1, <3>2
  <2> QED  BY <2>1, <2>3 DEF CheckRows
<1>2. ASSUME NEW t \in TransferIds, status[t] \in Open
      PROVE  CheckRows(posted, ReleaseHold(t))
  <2>1. /\ body[t].from \in Users /\ body[t].amount \in Int /\ body[t].amount > 0
        /\ reserved[body[t].from] >= body[t].amount
    BY <1>2, HoldCovers
  <2> QED  BY <2>1 DEF CheckRows, ReleaseHold, TypeOK
<1>3. ASSUME NEW t \in TransferIds, e = TxConfirmed(t)
      PROVE  FALSE
  <2>1. /\ status[t] \in Open
        /\ ~(/\ CheckRows(posted, ReleaseHold(t))
             /\ CheckRows(PostEntries(SettlementPostings(t)), ReleaseHold(t)))
    BY <1>3, RaisesTxConfirmed
  <2>2. ~CheckRows(PostEntries(SettlementPostings(t)), ReleaseHold(t))
    BY <1>2, <2>1
  <2>3. /\ body[t].from \in Users /\ body[t].to \in Users
        /\ body[t].amount \in Int /\ body[t].amount > 0
        /\ reserved[body[t].from] >= body[t].amount
        /\ body[t].from # body[t].to
    BY <2>1, HoldCovers DEF TwoParties, Open
  <2>4. ASSUME NEW u \in Users
        PROVE  /\ ReleaseHold(t)[u] >= 0
               /\ PostEntries(SettlementPostings(t))[u] - ReleaseHold(t)[u] >= 0
    <3>1. posted[u] \in Int /\ reserved[u] \in Int /\ reserved[u] >= 0 /\ posted[u] >= reserved[u]
      BY DEF TypeOK
    <3>2. ReleaseHold(t)[u] = IF u = body[t].from THEN reserved[u] - body[t].amount ELSE reserved[u]
      BY <2>3 DEF ReleaseHold, TypeOK
    <3>3. \/ PostEntries(SettlementPostings(t))[u] = posted[u]
          \/ /\ u = body[t].from
             /\ PostEntries(SettlementPostings(t))[u] = posted[u] + (-body[t].amount)
          \/ /\ u = body[t].to
             /\ PostEntries(SettlementPostings(t))[u] = posted[u] + body[t].amount
      <4>1. \A p \in SettlementPostings(t) :
               \/ p.user = body[t].from /\ p.amount = -body[t].amount
               \/ p.user = body[t].to /\ p.amount = body[t].amount
        BY DEF SettlementPostings, Posting
      <4>2. \/ PostEntries(SettlementPostings(t))[u] = posted[u]
            \/ \E p \in SettlementPostings(t) :
                  p.user = u /\ PostEntries(SettlementPostings(t))[u] = posted[u] + p.amount
        BY PostsOne
      <4> QED  BY <4>1, <4>2
    <3> QED  BY <2>3, <3>1, <3>2, <3>3
  <2> QED  BY <2>2, <2>4 DEF CheckRows
<1>4. ASSUME NEW t \in TransferIds, NEW c \in FailureCodes, e = TxFailed(t, c)
      PROVE  e.type = "tx.failed" /\ status[e.transfer] = "CONFIRMED"
  <2>1. e.type = "tx.failed" /\ e.transfer = t
    BY <1>4 DEF TxFailed
  <2>2. ASSUME status[t] # "CONFIRMED" PROVE FALSE
    <3>1. status[t] \in Open /\ ~CheckRows(posted, ReleaseHold(t))
      BY <1>4, <2>2, RaisesTxFailed
    <3> QED  BY <1>2, <3>1
  <2> QED  BY <2>1, <2>2
<1>5. ASSUME NEW d \in Deposits, NEW b \in Blocks, NEW w \in BOOLEAN, e = Reorged(d, b, w)
      PROVE  e.type = "deposit.reorged"
  BY <1>5 DEF Reorged
<1>6. ASSUME NEW d \in Deposits, NEW b \in Blocks, e = Detected(d, b) PROVE FALSE
  BY <1>6, RaisesNever
<1>7. ASSUME NEW t \in TransferIds, e = TxBroadcasted(t) PROVE FALSE
  BY <1>7, RaisesNever
<1> QED  BY <1>1, <1>3, <1>4, <1>5, <1>6, <1>7, EventKinds

\* A settlement, a credit or the failure of an open transfer never runs into a
\* CHECK constraint, so none of them ends among the dead letters: the hold is
\* there to cover it.
THEOREM SettlementsNeverRaise == Spec => []OnlyReversalsRaise
<1>1. Init => SumsInv /\ HoldsBackOpenTransfers
  BY InitSums, InitHolds
<1>2. SumsInv /\ HoldsBackOpenTransfers /\ [Next]_vars => (SumsInv /\ HoldsBackOpenTransfers)'
  BY NextTypes, NextTwoParties, NextReconciled, NextHolds DEF SumsInv
<1>3. SumsInv /\ HoldsBackOpenTransfers => OnlyReversalsRaise
  BY OthersNeverRaise DEF SumsInv
<1> QED  BY <1>1, <1>2, <1>3, PTL DEF Spec
=============================================================================
