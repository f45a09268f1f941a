---------------------------- MODULE BalanceLocks ----------------------------
(***************************************************************************)
(* The row locks wallet-service's transactions take, statement by statement: *)
(* each of them locks the rows its statements touch, in the order of the     *)
(* statements, and keeps them until it commits or is rolled back, because it *)
(* raised or as the victim of a deadlock. Wallet takes every transaction as  *)
(* one step; this module looks inside.                                       *)
(***************************************************************************)
EXTENDS Naturals, Sequences, FiniteSets
LOCAL INSTANCE SequencesExt

CONSTANTS
    Consumers,  \* replicas of the worker, one event at a time each
    Clients,    \* concurrent POST /transfers requests
    Users,      \* users.id: balance rows are ordered by it
    Transfers,  \* transfers that exist
    From, To    \* their parties

ASSUME UsersAreNumbers == Users \subseteq Nat
ASSUME PartiesAssumption ==
    /\ From \in [Transfers -> Users] /\ To \in [Transfers -> Users]
    /\ \A t \in Transfers : From[t] # To[t]

Workers == Consumers \cup Clients
TransferRow(t) == <<"transfer", t>>
BalanceRow(u) == <<"balance", u>>
Rows == {TransferRow(t) : t \in Transfers} \cup {BalanceRow(u) : u \in Users}
NoOne == "nobody"
ASSUME WorkersAssumption == Consumers \cap Clients = {} /\ NoOne \notin Workers

Idle == [kind |-> "idle"]
Create(t) == [kind |-> "create", transfer |-> t]
Settle(t) == [kind |-> "settle", transfer |-> t]
Fail(t) == [kind |-> "fail", transfer |-> t]

VARIABLES
    job,      \* the transaction a worker runs, or Idle
    plan,     \* the rows its remaining statements lock
    holder,   \* who holds a row lock
    status    \* the transfer row: absent, open, settled or failed

vars == <<job, plan, holder, status>>

Init ==
    /\ job = [w \in Workers |-> Idle]
    /\ plan = [w \in Workers |-> <<>>]
    /\ holder = [r \in Rows |-> NoOne]
    /\ status = [t \in Transfers |-> "ABSENT"]

-----------------------------------------------------------------------------
\* Mutant: the postings are not sorted.
PostEntriesRowsUnsorted(t) == <<BalanceRow(From[t]), BalanceRow(To[t])>>

\* post_entries: ascending user_id.
PostEntriesRows(t) ==
    IF From[t] < To[t] THEN <<BalanceRow(From[t]), BalanceRow(To[t])>>
                       ELSE <<BalanceRow(To[t]), BalanceRow(From[t])>>

\* release_hold updates the sender's row.
ReleaseHoldRows(t) == <<BalanceRow(From[t])>>

\* create_transfer: lock_balance, place_hold; the transfer row is a new one.
CreateTransferRows(t) == <<BalanceRow(From[t])>>

\* What the handler locks after it has read the transfer row under its lock.
SettleTransferRows(t) ==
    IF status[t] = "OPEN" THEN ReleaseHoldRows(t) \o PostEntriesRows(t) ELSE <<>>
FailTransferRows(t) ==
    IF status[t] = "SETTLED" THEN PostEntriesRows(t)
    ELSE IF status[t] = "OPEN" THEN ReleaseHoldRows(t)
    ELSE <<>>

\* A transaction begins: POST /transfers, or an event about an existing one.
Begin(w, j) ==
    /\ job[w] = Idle
    /\ job' = [job EXCEPT ![w] = j]
    /\ plan' = [plan EXCEPT ![w] = IF j.kind = "create" THEN CreateTransferRows(j.transfer)
                                   ELSE <<TransferRow(j.transfer)>>]
    /\ UNCHANGED <<holder, status>>

BeginCreate(w, t) ==
    /\ status[t] = "ABSENT"
    /\ \A v \in Workers : job[v] # Create(t)
    /\ Begin(w, Create(t))

BeginEvent(w, j) ==
    /\ status[j.transfer] # "ABSENT"
    /\ Begin(w, j)

\* What a handler does about its transfer, as the row is now.
HandlerRows(j) ==
    IF j.kind = "settle" THEN SettleTransferRows(j.transfer) ELSE FailTransferRows(j.transfer)

\* Mutant: the handler reads the transfer row without FOR UPDATE.
LoadForUpdateUnlocked(w) ==
    /\ plan[w] # <<>> /\ Head(plan[w]) = TransferRow(job[w].transfer)
    /\ plan' = [plan EXCEPT ![w] = HandlerRows(job[w])]
    /\ UNCHANGED <<job, holder, status>>

\* _load_for_update locks the transfer row; its status decides what follows.
LoadForUpdate(w) ==
    /\ plan[w] # <<>> /\ Head(plan[w]) = TransferRow(job[w].transfer)
    /\ holder[Head(plan[w])] = NoOne
    /\ holder' = [holder EXCEPT ![Head(plan[w])] = w]
    /\ plan' = [plan EXCEPT ![w] = HandlerRows(job[w])]
    /\ UNCHANGED <<job, status>>

\* The next statement gets the lock of its balance row, or has it already.
LockBalance(w) ==
    /\ plan[w] # <<>> /\ Head(plan[w]) # TransferRow(job[w].transfer)
    /\ holder[Head(plan[w])] \in {NoOne, w}
    /\ holder' = [holder EXCEPT ![Head(plan[w])] = w]
    /\ plan' = [plan EXCEPT ![w] = Tail(plan[w])]
    /\ UNCHANGED <<job, status>>

Unlocked(w) == [r \in Rows |-> IF holder[r] = w THEN NoOne ELSE holder[r]]

Outcome(j) ==
    LET s == status[j.transfer] IN
    CASE j.kind = "create" -> "OPEN"
      [] j.kind = "settle" -> IF s = "OPEN" THEN "SETTLED" ELSE s
      [] j.kind = "fail" -> "FAILED"

\* Mutant: the session is not closed, its locks stay.
CommitKeepsLocks(w) ==
    /\ job[w] # Idle /\ plan[w] = <<>>
    /\ status' = [status EXCEPT ![job[w].transfer] = Outcome(job[w])]
    /\ job' = [job EXCEPT ![w] = Idle]
    /\ UNCHANGED <<holder, plan>>

Commit(w) ==
    /\ job[w] # Idle /\ plan[w] = <<>>
    /\ status' = [status EXCEPT ![job[w].transfer] = Outcome(job[w])]
    /\ holder' = Unlocked(w)
    /\ job' = [job EXCEPT ![w] = Idle]
    /\ UNCHANGED plan

\* The transaction of w is rolled back.
RolledBack(w) ==
    /\ holder' = Unlocked(w)
    /\ job' = [job EXCEPT ![w] = Idle]
    /\ plan' = [plan EXCEPT ![w] = <<>>]
    /\ UNCHANGED status

\* place_hold finds too little: InsufficientFundsError.
RejectTransfer(w) ==
    /\ job[w].kind = "create" /\ plan[w] = <<>>
    /\ RolledBack(w)

\* A reversal takes from a recipient who has spent or holds the money: the CHECK
\* constraint refuses the UPDATE that follows the lock of that row. The event is
\* redelivered.
RaiseOnCheck(w) ==
    /\ job[w].kind = "fail" /\ status[job[w].transfer] = "SETTLED"
    /\ holder[TransferRow(job[w].transfer)] = w
    /\ holder[BalanceRow(To[job[w].transfer])] = w
    /\ RolledBack(w)

\* Who a worker waits for.
WaitsFor(w) == IF plan[w] = <<>> THEN {} ELSE {holder[Head(plan[w])]} \ {NoOne, w}

\* A cycle of waits, or several: everyone in S waits, and S is who they wait for.
Cycle(S) ==
    /\ S # {} /\ \A v \in S : WaitsFor(v) # {}
    /\ S = UNION {WaitsFor(v) : v \in S}
Deadlocked(w) == \E S \in SUBSET Workers : w \in S /\ Cycle(S)

\* PostgreSQL rolls a member of a cycle back; an event is redelivered.
Abort(w) == Deadlocked(w) /\ RolledBack(w)

Next ==
    \/ \E w \in Clients, t \in Transfers : BeginCreate(w, t)
    \/ \E w \in Consumers, t \in Transfers :
          BeginEvent(w, Settle(t)) \/ BeginEvent(w, Fail(t))
    \/ \E w \in Workers : \/ LoadForUpdate(w) \/ LockBalance(w) \/ Commit(w)
                         \/ RejectTransfer(w) \/ RaiseOnCheck(w) \/ Abort(w)

Spec == Init /\ [][Next]_vars

-----------------------------------------------------------------------------
\* Every row has one holder, a plan is a list of rows, and a worker outside a
\* transaction wants and holds nothing.
TypeOK ==
    /\ job \in [Workers -> {Idle} \cup UNION {{Create(t), Settle(t), Fail(t)} : t \in Transfers}]
    /\ \A w \in Workers : Range(plan[w]) \subseteq Rows /\ (job[w] = Idle => plan[w] = <<>>)
    /\ holder \in [Rows -> {w \in Workers : job[w] # Idle} \cup {NoOne}]
    /\ status \in [Transfers -> {"ABSENT", "OPEN", "SETTLED", "FAILED"}]

\* "Balance rows are locked in a deterministic order, so two opposite transfers
\* can never deadlock" (ledger.py): no transactions wait for each other.
CannotDeadlock == \A w \in Workers : ~Deadlocked(w)

\* What a handler decided from the status it read is still right when it acts:
\* the rows it has yet to write are the last ones of what it would do about the
\* transfer as it is now. Otherwise two replicas release one hold twice.
DecisionsStayValid ==
    \A w \in Consumers : job[w] # Idle /\ plan[w] # <<TransferRow(job[w].transfer)>> =>
        IsSuffix(plan[w], HandlerRows(job[w]))

\* The lock order of ledger.py is broken in one place only: every cycle of waits
\* goes through a settlement that releases the hold of a sender with the larger id
\* before post_entries locks the other row. Failures, reversals and settlements in
\* the other direction never close a cycle among themselves, and no POST
\* /transfers is ever part of one, so no client sees a deadlock.
OnlySettlementsDeadlock ==
    \A S \in SUBSET Workers : Cycle(S) =>
        /\ S \subseteq Consumers
        /\ \E w \in S : job[w].kind = "settle" /\ From[job[w].transfer] > To[job[w].transfer]
=============================================================================
