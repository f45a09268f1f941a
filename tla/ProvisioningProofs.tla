------------------------- MODULE ProvisioningProofs -------------------------
(***************************************************************************)
(* Invariants of Provisioning proved for every set of users, mailboxes,     *)
(* networks and clients, every number of attempts and of faults.            *)
(***************************************************************************)
EXTENDS Provisioning, TLAPS

-----------------------------------------------------------------------------
(* Strengthenings. None is a goal of its own.                              *)

Custodied(u, a) == [owner |-> u, address |-> a] \in addresses

CallRecords == [step : Steps, address : Accounts \cup {NoAccount}]
Requests(c) ==
    {NoRequest} \cup {Attaching(a) : a \in Accounts} \cup {Inserting(a) : a \in Accounts}
    \cup {Calling(n, k) : n \in 1 .. MaxAttempts, k \in {j \in Calls : j[1] = c}}

\* The processes' memory: a request waits for a call of its own client.
MemoryOK ==
    /\ calls \in [Calls -> CallRecords]
    /\ DOMAIN request = Clients
    /\ \A c \in Clients : request[c] \in Requests(c)

\* An address is kept for the user it was made for, and a call under way will
\* insert its own key pair or has the address of its owner.
CallsCarryCustody ==
    /\ \A r \in addresses : r.owner = OwnerOf(r.address)
    /\ \A k \in Calls :
          /\ calls[k].step = "insert" => calls[k].address = k
          /\ calls[k].step = "answered" => Custodied(OwnerOf(k), calls[k].address)

\* A request under way is that of a user, and what it is about to attach is
\* this user's address.
RequestsCarryCustody ==
    \A c \in Clients :
        /\ request[c].phase # "idle" => AsksFor[c].user \in users
        /\ request[c].phase \in {"attaching", "inserting"} =>
              Custodied(AsksFor[c].user, request[c].address)

\* A wallet that was answered is in custody.
RepliesCarryCustody ==
    \A p \in replies :
        p.client \in Clients /\
        (p.status = "wallet" => Custodied(AsksFor[p.client].user, p.address))

IInv ==
    /\ TypeOK /\ MemoryOK
    /\ CallsCarryCustody /\ RequestsCarryCustody /\ RepliesCarryCustody
    /\ NoStrandedKeys /\ WalletsAreCustodied

\* What a step that writes no table leaves as it is.
TablesOK ==
    /\ users \subseteq Users /\ balances \subseteq users
    /\ wallets \subseteq [user : users, network : Networks, address : Accounts]
    /\ addresses \subseteq [owner : Users, address : Accounts]
    /\ \A v, w \in wallets :
          v.address = w.address \/ (v.user = w.user /\ v.network = w.network) => v = w
    /\ \A p, q \in addresses : p.owner = q.owner \/ p.address = q.address => p = q

-----------------------------------------------------------------------------
(* Facts about requests and calls.                                         *)

\* A request is idle, waits for a call of its client or attaches or inserts an
\* address.
LEMMA RequestFields ==
    ASSUME MemoryOK, NEW c \in Clients
    PROVE  /\ request[c].phase \in {"idle", "calling", "attaching", "inserting"}
           /\ request[c] = NoRequest <=> request[c].phase = "idle"
           /\ request[c].phase = "calling" =>
                 /\ request[c].attempt \in 1 .. MaxAttempts
                 /\ request[c].call \in Calls /\ request[c].call[1] = c
           /\ request[c].phase \in {"attaching", "inserting"} => request[c].address \in Accounts
<1>1. request[c] \in Requests(c)
  BY DEF MemoryOK
<1> QED  BY <1>1 DEF Requests, NoRequest, Attaching, Inserting, Calling

\* The user a call asks an address for.
LEMMA Owners == \A k \in Calls : k[1] \in Clients /\ OwnerOf(k) \in Users
BY ClientsAssumption DEF Calls, OwnerOf

\* TypeOK, split into the tables and the processes' memory.
LEMMA TypeParts ==
    MemoryOK /\ faults \in 0 .. MaxFaults => (TypeOK <=> TablesOK)
BY DEF TypeOK, TablesOK, MemoryOK, CallRecords

\* A step that writes no table and answers no client with a wallet or a 500
\* keeps what is said about tables and answers.
LEMMA TablesKept ==
    ASSUME IInv, UNCHANGED <<walletTables, custodyTables>>,
           NEW c \in Clients, replies' \in {replies, replies \cup {Reply(c, "unavailable", NoAccount)}}
    PROVE  /\ TablesOK' /\ RepliesCarryCustody' /\ NoStrandedKeys'
           /\ WalletsAreCustodied'
<1> USE DEF IInv, walletTables, custodyTables
<1>1. TablesOK'
  BY TypeParts DEF TypeOK, TablesOK
<1>2. RepliesCarryCustody'
  BY DEF RepliesCarryCustody, Custodied, Reply
<1>3. NoStrandedKeys' /\ WalletsAreCustodied'
  BY DEF NoStrandedKeys, WalletsAreCustodied
<1> QED  BY <1>1, <1>2, <1>3

\* What SendCall leaves behind when its client's user exists.
LEMMA SendCallKeeps ==
    ASSUME IInv, UNCHANGED <<walletTables, custodyTables>>,
           NEW c \in Clients, NEW n \in 1 .. MaxAttempts, NEW old, NEW f \in 0 .. MaxFaults,
           AsksFor[c].user \in users, SendCall(c, n, old, f)
    PROVE  MemoryOK' /\ CallsCarryCustody' /\ RequestsCarryCustody'
<1> USE DEF IInv, walletTables, custodyTables
<1> DEFINE j == <<c, f>>
<1>1. j \in Calls /\ j[1] = c
  BY DEF Calls
<1>2. \A k \in Calls :
         \/ k = j /\ calls'[k] = [step |-> "select", address |-> NoAccount]
         \/ k # j /\ calls'[k] = NoCall
         \/ k # j /\ calls'[k] = calls[k]
  BY DEF SendCall
<1>3. calls' \in [Calls -> CallRecords]
  <2>1. \A k \in Calls : calls'[k] \in CallRecords
    BY <1>2 DEF MemoryOK, CallRecords, NoCall, Steps
  <2>2. calls' = [k \in Calls |-> calls'[k]]
    BY DEF SendCall
  <2> QED  BY <2>1, <2>2
<1>4. \A d \in Clients : request'[d] = IF d = c THEN Calling(n, j) ELSE request[d]
  BY DEF SendCall, MemoryOK
<1>5. MemoryOK'
  <2>1. DOMAIN request' = Clients
    BY DEF SendCall, MemoryOK
  <2>2. \A d \in Clients : request'[d] \in Requests(d)
    BY <1>1, <1>4 DEF MemoryOK, Requests
  <2> QED  BY <1>3, <2>1, <2>2 DEF MemoryOK, Requests
<1>6. CallsCarryCustody'
  BY <1>2 DEF CallsCarryCustody, Custodied, OwnerOf, NoCall
<1>7. RequestsCarryCustody'
  BY <1>4 DEF RequestsCarryCustody, Custodied, Calling
<1> QED  BY <1>5, <1>6, <1>7

\* A request ends and no call does.
LEMMA IdleKeeps ==
    ASSUME IInv, NEW c \in Clients, request' = [request EXCEPT ![c] = NoRequest],
           UNCHANGED <<users, addresses, calls>>
    PROVE  MemoryOK' /\ RequestsCarryCustody'
<1> USE DEF IInv
<1>1. \A d \in Clients : request'[d] = IF d = c THEN NoRequest ELSE request[d]
  BY DEF MemoryOK
<1>2. \A d \in Clients : request'[d] \in Requests(d)
  BY <1>1 DEF MemoryOK, Requests
<1>3. DOMAIN request' = Clients /\ calls' \in [Calls -> CallRecords]
  BY DEF MemoryOK
<1>4. MemoryOK'
  BY <1>2, <1>3 DEF MemoryOK, Requests
<1>5. RequestsCarryCustody'
  BY <1>1 DEF RequestsCarryCustody, Custodied, NoRequest
<1> QED  BY <1>4, <1>5

\* A request ends, and with it the calls that have come to their end.
LEMMA RequestEndKeeps ==
    ASSUME IInv, UNCHANGED <<walletTables, custodyTables>>,
           NEW c \in Clients, NEW over,
           request' = [request EXCEPT ![c] = NoRequest],
           calls' = [k \in Calls |-> IF k \in over THEN NoCall ELSE calls[k]]
    PROVE  MemoryOK' /\ CallsCarryCustody' /\ RequestsCarryCustody'
<1> USE DEF IInv, walletTables, custodyTables
<1>1. \A d \in Clients : request'[d] = IF d = c THEN NoRequest ELSE request[d]
  BY DEF MemoryOK
<1>2. MemoryOK'
  <2>1. \A k \in Calls : calls'[k] \in CallRecords
    BY DEF MemoryOK, CallRecords, NoCall, Steps
  <2>2. calls' \in [Calls -> CallRecords]
    BY <2>1
  <2>3. DOMAIN request' = Clients
    BY DEF MemoryOK
  <2>4. \A d \in Clients : request'[d] \in Requests(d)
    BY <1>1 DEF MemoryOK, Requests
  <2> QED  BY <2>2, <2>3, <2>4 DEF MemoryOK, Requests
<1>3. CallsCarryCustody'
  BY DEF CallsCarryCustody, Custodied, OwnerOf, NoCall
<1>4. RequestsCarryCustody'
  BY <1>1 DEF RequestsCarryCustody, Custodied, NoRequest
<1> QED  BY <1>2, <1>3, <1>4

\* A request ends in UpstreamUnavailableError.
LEMMA GiveUpKeeps ==
    ASSUME IInv, UNCHANGED <<walletTables, custodyTables>>,
           NEW c \in Clients, NEW over, GiveUp(c, over), faults' \in 0 .. MaxFaults
    PROVE  IInv'
<1>1. MemoryOK' /\ CallsCarryCustody' /\ RequestsCarryCustody'
  BY RequestEndKeeps DEF GiveUp
<1>2. TablesOK' /\ RepliesCarryCustody' /\ NoStrandedKeys' /\ WalletsAreCustodied'
  BY TablesKept DEF GiveUp
<1>3. TypeOK'
  BY <1>1, <1>2 DEF TypeOK, TablesOK, MemoryOK, CallRecords
<1> QED  BY <1>1, <1>2, <1>3 DEF IInv

\* The next attempt of a request, or its end.
LEMMA RetryKeeps ==
    ASSUME IInv, UNCHANGED <<walletTables, custodyTables>>,
           NEW c \in Clients, NEW over, NEW f \in 0 .. MaxFaults,
           request[c].phase = "calling", RetryOrGiveUp(c, over, f), faults' \in 0 .. MaxFaults
    PROVE  IInv'
<1>1. MemoryOK /\ RequestsCarryCustody
  BY DEF IInv
<1>2. request[c].attempt \in 1 .. MaxAttempts
  BY <1>1, RequestFields
<1>3. CASE request[c].attempt < MaxAttempts
  <2>1. SendCall(c, request[c].attempt + 1, over, f) /\ replies' = replies
    BY <1>3 DEF RetryOrGiveUp
  <2>2. AsksFor[c].user \in users
    BY <1>1 DEF RequestsCarryCustody
  <2>3. request[c].attempt + 1 \in 1 .. MaxAttempts
    BY <1>2, <1>3, BoundsAssumption
  <2>4. MemoryOK' /\ CallsCarryCustody' /\ RequestsCarryCustody'
    BY <2>1, <2>2, <2>3, SendCallKeeps
  <2>5. TablesOK' /\ RepliesCarryCustody' /\ NoStrandedKeys' /\ WalletsAreCustodied'
    BY <2>1, TablesKept
  <2>6. TypeOK'
    BY <2>4, <2>5 DEF TypeOK, TablesOK, MemoryOK, CallRecords
  <2> QED  BY <2>4, <2>5, <2>6 DEF IInv
<1>4. CASE ~(request[c].attempt < MaxAttempts)
  BY <1>4, GiveUpKeeps DEF RetryOrGiveUp
<1> QED  BY <1>3, <1>4

-----------------------------------------------------------------------------
(* One lemma per action.                                                   *)

\* The first state.
LEMMA InitIInv == Init => IInv
<1> SUFFICES ASSUME Init PROVE IInv
  OBVIOUS
<1> USE DEF Init
<1>1. MemoryOK
  BY DEF MemoryOK, CallRecords, NoCall, Requests, Steps
<1>2. TypeOK
  BY <1>1, BoundsAssumption DEF TypeOK, MemoryOK, CallRecords
<1>3. CallsCarryCustody /\ RequestsCarryCustody /\ RepliesCarryCustody
  BY DEF CallsCarryCustody, RequestsCarryCustody, RepliesCarryCustody, NoCall, NoRequest
<1>4. NoStrandedKeys /\ WalletsAreCustodied
  BY DEF NoStrandedKeys, WalletsAreCustodied
<1> QED  BY <1>1, <1>2, <1>3, <1>4 DEF IInv

LEMMA CreateUserKeeps ==
    ASSUME IInv, NEW u \in Users, CreateUser(u)
    PROVE  IInv'
<1> USE DEF CreateUser, custodyTables
<1>1. TypeOK'
  BY DEF IInv, TypeOK
<1>2. MemoryOK' /\ CallsCarryCustody' /\ RepliesCarryCustody'
  BY DEF IInv, MemoryOK, CallsCarryCustody, RepliesCarryCustody, Custodied, OwnerOf
<1>3. RequestsCarryCustody'
  BY DEF IInv, RequestsCarryCustody, Custodied
<1>4. NoStrandedKeys' /\ WalletsAreCustodied'
  BY DEF IInv, NoStrandedKeys, WalletsAreCustodied
<1> QED  BY <1>1, <1>2, <1>3, <1>4 DEF IInv

LEMMA PostWalletKeeps ==
    ASSUME IInv, NEW c \in Clients, PostWallet(c)
    PROVE  IInv'
<1> DEFINE u == AsksFor[c].user
           there == WalletOf(u, AsksFor[c].network)
<1>1. /\ UNCHANGED <<walletTables, custodyTables, faults>>
      /\ u \in users
      /\ TypeOK /\ MemoryOK
  BY DEF PostWallet, IInv
<1>2. CASE there # {}
  <2>1. PICK w \in there : replies' = replies \cup {Reply(c, "wallet", w.address)}
    BY <1>2 DEF PostWallet
  <2>2. UNCHANGED <<request, calls>>
    BY <1>2 DEF PostWallet
  <2>3. Custodied(u, w.address)
    BY <2>1 DEF IInv, WalletsAreCustodied, WalletOf, Custodied
  <2>4. RepliesCarryCustody'
    BY <1>1, <2>1, <2>3 DEF IInv, RepliesCarryCustody, Custodied, Reply, custodyTables
  <2>5. TypeOK' /\ MemoryOK'
    BY <1>1, <2>2 DEF IInv, TypeOK, MemoryOK, walletTables, custodyTables
  <2>6. CallsCarryCustody' /\ RequestsCarryCustody'
    BY <1>1, <2>2 DEF IInv, CallsCarryCustody, RequestsCarryCustody, Custodied, OwnerOf,
                      walletTables, custodyTables
  <2>7. NoStrandedKeys' /\ WalletsAreCustodied'
    BY <1>1 DEF IInv, NoStrandedKeys, WalletsAreCustodied, walletTables, custodyTables
  <2> QED  BY <2>4, <2>5, <2>6, <2>7 DEF IInv
<1>3. CASE there = {}
  <2>1. SendCall(c, 1, {}, faults) /\ replies' = replies
    BY <1>3 DEF PostWallet
  <2>2. faults \in 0 .. MaxFaults /\ 1 \in 1 .. MaxAttempts
    BY <1>1, BoundsAssumption DEF TypeOK
  <2>3. MemoryOK' /\ CallsCarryCustody' /\ RequestsCarryCustody'
    BY <1>1, <2>1, <2>2, SendCallKeeps
  <2>4. /\ TablesOK' /\ RepliesCarryCustody' /\ NoStrandedKeys'
        /\ WalletsAreCustodied'
    BY <1>1, <2>1, TablesKept
  <2>5. TypeOK'
    BY <1>1, <2>2, <2>3, <2>4 DEF TypeOK, TablesOK, MemoryOK, CallRecords
  <2> QED  BY <2>3, <2>4, <2>5 DEF IInv
<1> QED  BY <1>2, <1>3

LEMMA CallTimesOutKeeps ==
    ASSUME IInv, NEW c \in Clients, CallTimesOut(c)
    PROVE  IInv'
<1>1. faults' \in 0 .. MaxFaults
  BY BoundsAssumption DEF IInv, TypeOK, CallTimesOut, Fault
<1> QED  BY <1>1, RetryKeeps DEF CallTimesOut

LEMMA CallFailedKeeps ==
    ASSUME IInv, NEW c \in Clients, CallFailed(c)
    PROVE  IInv'
<1>1. faults \in 0 .. MaxFaults /\ faults' \in 0 .. MaxFaults
  BY DEF IInv, TypeOK, CallFailed
<1> QED  BY <1>1, RetryKeeps DEF CallFailed

LEMMA CallRefusedKeeps ==
    ASSUME IInv, NEW c \in Clients, CallRefused(c)
    PROVE  IInv'
<1>1. faults' \in 0 .. MaxFaults
  BY BoundsAssumption DEF IInv, TypeOK, CallRefused, Fault
<1> QED  BY <1>1, GiveUpKeeps DEF CallRefused

LEMMA CallAnsweredKeeps ==
    ASSUME IInv, NEW c \in Clients, CallAnswered(c)
    PROVE  IInv'
<1> DEFINE k == request[c].call
           a == calls[k].address
<1>1. /\ request[c].phase = "calling" /\ calls[k].step = "answered"
      /\ request' = [request EXCEPT ![c] = Attaching(a)]
      /\ calls' = [calls EXCEPT ![k] = NoCall]
      /\ UNCHANGED <<walletTables, custodyTables, replies, faults>>
      /\ TypeOK /\ MemoryOK /\ CallsCarryCustody /\ RequestsCarryCustody
  BY DEF CallAnswered, IInv
<1>2. k \in Calls /\ k[1] = c
  BY <1>1, RequestFields
<1>3. Custodied(AsksFor[c].user, a) /\ AsksFor[c].user \in users
  BY <1>1, <1>2 DEF CallsCarryCustody, RequestsCarryCustody, OwnerOf
<1>4. a \in Accounts
  BY <1>1, <1>3 DEF TypeOK, Custodied
<1>5. \A d \in Clients : request'[d] = IF d = c THEN Attaching(a) ELSE request[d]
  BY <1>1 DEF MemoryOK
<1>6. \A j \in Calls : calls'[j] = IF j = k THEN NoCall ELSE calls[j]
  BY <1>1 DEF MemoryOK
<1>7. MemoryOK'
  <2>1. calls' \in [Calls -> CallRecords]
    BY <1>1, <1>2 DEF MemoryOK, NoCall, CallRecords, Steps
  <2>2. DOMAIN request' = Clients
    BY <1>1 DEF MemoryOK
  <2>3. \A d \in Clients : request'[d] \in Requests(d)
    BY <1>1, <1>4, <1>5 DEF MemoryOK, Requests
  <2> QED  BY <2>1, <2>2, <2>3 DEF MemoryOK, Requests
<1>8. CallsCarryCustody'
  BY <1>1, <1>6 DEF CallsCarryCustody, Custodied, OwnerOf, NoCall, custodyTables
<1>9. RequestsCarryCustody'
  BY <1>1, <1>3, <1>5 DEF RequestsCarryCustody, Custodied, Attaching, custodyTables, walletTables
<1>10. /\ TablesOK' /\ RepliesCarryCustody' /\ NoStrandedKeys'
       /\ WalletsAreCustodied'
  BY <1>1, TablesKept
<1>11. TypeOK'
  BY <1>1, <1>7, <1>10 DEF TypeOK, TablesOK, MemoryOK, CallRecords
<1> QED  BY <1>7, <1>8, <1>9, <1>10, <1>11 DEF IInv

LEMMA RequestDiesKeeps ==
    ASSUME IInv, NEW c \in Clients, RequestDies(c)
    PROVE  IInv'
<1>1. /\ request' = [request EXCEPT ![c] = NoRequest]
      /\ calls' = [k \in Calls |-> IF k \in Ended(c) THEN NoCall ELSE calls[k]]
      /\ UNCHANGED <<walletTables, custodyTables, replies>>
  BY DEF RequestDies
<1>2. faults' \in 0 .. MaxFaults
  BY BoundsAssumption DEF IInv, TypeOK, RequestDies, Fault
<1>3. MemoryOK' /\ CallsCarryCustody' /\ RequestsCarryCustody'
  BY <1>1, RequestEndKeeps
<1>4. /\ TablesOK' /\ RepliesCarryCustody' /\ NoStrandedKeys'
      /\ WalletsAreCustodied'
  BY <1>1, TablesKept
<1>5. TypeOK'
  BY <1>2, <1>3, <1>4 DEF TypeOK, TablesOK, MemoryOK, CallRecords
<1> QED  BY <1>3, <1>4, <1>5 DEF IInv

LEMMA AttachWalletKeeps ==
    ASSUME IInv, NEW c \in Clients, AttachWallet(c)
    PROVE  IInv'
<1> DEFINE u == AsksFor[c].user
           a == request[c].address
           there == WalletOf(u, AsksFor[c].network)
<1>1. /\ request[c].phase = "attaching"
      /\ UNCHANGED <<users, wallets, custodyTables, calls, faults>>
      /\ TypeOK /\ MemoryOK /\ CallsCarryCustody /\ RequestsCarryCustody
      /\ RepliesCarryCustody /\ NoStrandedKeys /\ WalletsAreCustodied
  BY DEF AttachWallet, IInv
<1>2. u \in users /\ Custodied(u, a) /\ a \in Accounts
  BY <1>1, RequestFields DEF RequestsCarryCustody
<1>3. CallsCarryCustody' /\ NoStrandedKeys'
  BY <1>1 DEF CallsCarryCustody, NoStrandedKeys, Custodied, OwnerOf, custodyTables
<1>4. CASE there # {}
  <2>1. PICK w \in there : replies' = replies \cup {Reply(c, "wallet", w.address)}
    BY <1>4 DEF AttachWallet
  <2>2. balances' = balances \cup {u} /\ request' = [request EXCEPT ![c] = NoRequest]
    BY <1>4 DEF AttachWallet
  <2>3. MemoryOK' /\ RequestsCarryCustody'
    BY <1>1, <2>2, IdleKeeps DEF custodyTables
  <2>4. TypeOK' /\ WalletsAreCustodied'
    BY <1>1, <1>2, <2>2 DEF TypeOK, WalletsAreCustodied, custodyTables
  <2>5. Custodied(u, w.address)
    BY <1>1, <2>1 DEF WalletsAreCustodied, WalletOf, Custodied
  <2>6. RepliesCarryCustody'
    BY <1>1, <2>1, <2>5 DEF RepliesCarryCustody, Custodied, Reply, custodyTables
  <2> QED  BY <1>3, <2>3, <2>4, <2>6 DEF IInv
<1>5. CASE there = {}
  <2>1. request' = [request EXCEPT ![c] = Inserting(a)] /\ UNCHANGED <<balances, replies>>
    BY <1>5 DEF AttachWallet
  <2>2. \A d \in Clients : request'[d] = IF d = c THEN Inserting(a) ELSE request[d]
    BY <1>1, <2>1 DEF MemoryOK
  <2>3. MemoryOK'
    <3>1. \A d \in Clients : request'[d] \in Requests(d)
      BY <1>1, <1>2, <2>2 DEF MemoryOK, Requests
    <3>2. DOMAIN request' = Clients /\ calls' \in [Calls -> CallRecords]
      BY <1>1, <2>1 DEF MemoryOK
    <3> QED  BY <3>1, <3>2 DEF MemoryOK, Requests
  <2>4. RequestsCarryCustody'
    BY <1>1, <1>2, <2>2 DEF RequestsCarryCustody, Custodied, Inserting, custodyTables
  <2>5. TypeOK' /\ WalletsAreCustodied' /\ RepliesCarryCustody'
    BY <1>1, <2>1 DEF TypeOK, WalletsAreCustodied, RepliesCarryCustody, Custodied, custodyTables
  <2> QED  BY <1>3, <2>3, <2>4, <2>5 DEF IInv
<1> QED  BY <1>4, <1>5

\* No wallet of another user has the address that is inserted, and none of this
\* user has another one: both are what blockchain-service keeps for the user.
LEMMA InsertWalletKeeps ==
    ASSUME IInv, NEW c \in Clients, InsertWallet(c)
    PROVE  IInv'
<1> DEFINE u == AsksFor[c].user
           n == AsksFor[c].network
           a == request[c].address
           row == [user |-> u, network |-> n, address |-> a]
<1>1. /\ request[c].phase = "inserting"
      /\ request' = [request EXCEPT ![c] = NoRequest]
      /\ UNCHANGED <<users, custodyTables, calls, faults>>
      /\ TypeOK /\ MemoryOK /\ CallsCarryCustody /\ RequestsCarryCustody
      /\ RepliesCarryCustody /\ NoStrandedKeys /\ WalletsAreCustodied
  BY DEF InsertWallet, IInv
<1>2. a \in Accounts
  BY <1>1, RequestFields
<1>3. u \in users /\ n \in Networks /\ Custodied(u, a)
  BY <1>1, ClientsAssumption DEF RequestsCarryCustody
<1>4. MemoryOK' /\ RequestsCarryCustody'
  BY <1>1, IdleKeeps DEF custodyTables
<1>5. CallsCarryCustody' /\ NoStrandedKeys'
  BY <1>1 DEF CallsCarryCustody, NoStrandedKeys, Custodied, OwnerOf, custodyTables
<1>6. CASE \E w \in wallets : w.address = a
  <2>1. UNCHANGED <<wallets, balances>> /\ replies' = replies \cup {Reply(c, "error", NoAccount)}
    BY <1>6 DEF InsertWallet
  <2>2. TypeOK'
    BY <1>1, <2>1 DEF TypeOK, custodyTables
  <2>3. RepliesCarryCustody' /\ WalletsAreCustodied'
    BY <1>1, <2>1 DEF RepliesCarryCustody, WalletsAreCustodied, Custodied, Reply, custodyTables
  <2> QED  BY <1>4, <1>5, <2>2, <2>3 DEF IInv
<1>7. CASE ~\E w \in wallets : w.address = a
  <2>1. /\ wallets' = wallets \cup {row}
        /\ balances' = balances \cup {u}
        /\ replies' = replies \cup {Reply(c, "wallet", a)}
    BY <1>7 DEF InsertWallet
  <2>2. row \in [user : users, network : Networks, address : Accounts]
    BY <1>2, <1>3
  <2>3. \A w \in wallets : w.user # u
    <3> SUFFICES ASSUME NEW w \in wallets, w.user = u PROVE FALSE
      OBVIOUS
    <3>1. [owner |-> u, address |-> w.address] \in addresses
      BY <1>1 DEF WalletsAreCustodied
    <3>2. [owner |-> u, address |-> w.address] = [owner |-> u, address |-> a]
      BY <1>1, <1>3, <3>1 DEF TypeOK, Custodied
    <3> QED  BY <1>7, <3>2
  <2>4. row.address = a /\ row.user = u
    OBVIOUS
  <2>5. TypeOK'
    <3>1. /\ balances' \subseteq users'
          /\ wallets' \subseteq [user : users', network : Networks, address : Accounts]
      BY <1>1, <1>3, <2>1, <2>2 DEF TypeOK
    <3>2. \A v, w \in wallets' :
             v.address = w.address \/ (v.user = w.user /\ v.network = w.network) => v = w
      <4> HIDE DEF row
      <4> QED  BY <1>1, <1>7, <2>1, <2>3, <2>4 DEF TypeOK
    <3> QED  BY <1>1, <3>1, <3>2 DEF TypeOK, custodyTables
  <2>6. WalletsAreCustodied'
    <3>1. a \in keys
      BY <1>1, <1>3 DEF NoStrandedKeys, Custodied
    <3>2. \A w \in wallets : /\ [owner |-> w.user, address |-> w.address] \in addresses'
                            /\ w.address \in keys' /\ w.user \in balances'
      BY <1>1, <2>1 DEF WalletsAreCustodied, custodyTables
    <3>3. [owner |-> u, address |-> a] \in addresses' /\ a \in keys' /\ u \in balances'
      BY <1>1, <1>3, <2>1, <3>1 DEF custodyTables, Custodied
    <3> HIDE DEF row
    <3> QED  BY <2>1, <2>4, <3>2, <3>3 DEF WalletsAreCustodied
  <2>7. RepliesCarryCustody'
    BY <1>1, <1>3, <2>1 DEF RepliesCarryCustody, Custodied, Reply, custodyTables
  <2> QED  BY <1>4, <1>5, <2>5, <2>6, <2>7 DEF IInv
<1> QED  BY <1>6, <1>7

\* What Advance leaves behind: a step that carries custody, and no other change.
LEMMA AdvanceKeeps ==
    ASSUME MemoryOK, NEW k \in Calls, NEW s \in Steps, NEW a \in Accounts \cup {NoAccount},
           Advance(k, s, a), request' = request
    PROVE  /\ MemoryOK'
           /\ \A j \in Calls :
                 \/ j # k /\ calls'[j] = calls[j]
                 \/ j = k /\ calls'[j] = NoCall
                 \/ j = k /\ calls'[j] = [step |-> s, address |-> a]
<1>1. /\ DOMAIN calls' = Calls
      /\ \A j \in Calls : calls'[j] = IF j # k THEN calls[j]
                          ELSE IF s \in {"answered", "failed"} /\ ~Awaited(k) THEN NoCall
                          ELSE [step |-> s, address |-> a]
  BY DEF Advance, MemoryOK
<1>2. calls' \in [Calls -> CallRecords]
  <2>1. \A j \in Calls : calls'[j] \in CallRecords
    BY <1>1 DEF MemoryOK, CallRecords, NoCall, Steps
  <2>2. calls' = [j \in Calls |-> calls'[j]]
    BY DEF Advance, MemoryOK
  <2> QED  BY <2>1, <2>2
<1>3. MemoryOK'
  BY <1>2 DEF MemoryOK, Requests
<1> QED  BY <1>1, <1>3

\* A call that ends without an answer, or goes on to insert its own key pair.
LEMMA CallOnKeeps ==
    ASSUME IInv, NEW k \in Calls, NEW s \in Steps, NEW a \in Accounts \cup {NoAccount},
           Advance(k, s, a), UNCHANGED <<walletTables, custodyTables, request, replies>>,
           faults' \in 0 .. MaxFaults,
           s = "insert" => a = k, s = "answered" => Custodied(OwnerOf(k), a)
    PROVE  IInv'
<1>1. MemoryOK /\ CallsCarryCustody /\ RequestsCarryCustody
  BY DEF IInv
<1>2. /\ MemoryOK'
      /\ \A j \in Calls :
            \/ j # k /\ calls'[j] = calls[j]
            \/ j = k /\ calls'[j] = NoCall
            \/ j = k /\ calls'[j] = [step |-> s, address |-> a]
  BY <1>1, AdvanceKeeps
<1>3. CallsCarryCustody'
  BY <1>1, <1>2 DEF CallsCarryCustody, Custodied, OwnerOf, NoCall, custodyTables
<1>4. RequestsCarryCustody'
  BY <1>1 DEF RequestsCarryCustody, Custodied, custodyTables, walletTables
<1>5. /\ TablesOK' /\ RepliesCarryCustody' /\ NoStrandedKeys'
      /\ WalletsAreCustodied'
  BY TablesKept, Owners
<1>6. TypeOK'
  BY <1>2, <1>5 DEF TypeOK, TablesOK, MemoryOK, CallRecords
<1> QED  BY <1>2, <1>3, <1>4, <1>5, <1>6 DEF IInv

LEMMA SelectAddressKeeps ==
    ASSUME IInv, NEW k \in Calls, SelectAddress(k)
    PROVE  IInv'
<1>1. /\ UNCHANGED <<walletTables, custodyTables, request, replies>>
      /\ faults' \in 0 .. MaxFaults
      /\ TypeOK
  BY DEF SelectAddress, IInv, TypeOK
<1>2. CASE OwnedBy(OwnerOf(k)) # {}
  <2>1. PICK r \in OwnedBy(OwnerOf(k)) : Advance(k, "answered", r.address)
    BY <1>2 DEF SelectAddress
  <2>2. r \in addresses /\ r.owner = OwnerOf(k)
    BY DEF OwnedBy
  <2>3. r = [owner |-> OwnerOf(k), address |-> r.address] /\ r.address \in Accounts
    BY <1>1, <2>2 DEF TypeOK
  <2>4. Custodied(OwnerOf(k), r.address)
    BY <2>2, <2>3 DEF Custodied
  <2> QED  BY <1>1, <2>1, <2>3, <2>4, CallOnKeeps DEF Steps
<1>3. CASE OwnedBy(OwnerOf(k)) = {}
  <2>1. Advance(k, "insert", k)
    BY <1>3 DEF SelectAddress
  <2> QED  BY <1>1, <2>1, CallOnKeeps DEF Steps, Accounts
<1> QED  BY <1>2, <1>3

LEMMA CallDiesKeeps ==
    ASSUME IInv, NEW k \in Calls, CallDies(k)
    PROVE  IInv'
<1>1. faults' \in 0 .. MaxFaults
  BY BoundsAssumption DEF IInv, TypeOK, CallDies, Fault
<1> QED  BY <1>1, CallOnKeeps DEF CallDies, Steps

LEMMA InsertAddressKeeps ==
    ASSUME IInv, NEW k \in Calls, InsertAddress(k)
    PROVE  IInv'
<1> DEFINE a == calls[k].address
           row == [owner |-> OwnerOf(k), address |-> a]
<1>1. /\ calls[k].step = "insert"
      /\ UNCHANGED <<walletTables, request, replies>> /\ faults' \in 0 .. MaxFaults
      /\ TypeOK /\ MemoryOK /\ CallsCarryCustody /\ RequestsCarryCustody
      /\ RepliesCarryCustody /\ NoStrandedKeys /\ WalletsAreCustodied
  BY DEF InsertAddress, IInv, TypeOK
<1>2. a = k /\ a \in Accounts
  BY <1>1 DEF CallsCarryCustody, Accounts
<1>3. CASE OwnedBy(OwnerOf(k)) # {}
  <2>1. Advance(k, "failed", NoAccount) /\ UNCHANGED custodyTables
    BY <1>3 DEF InsertAddress
  <2> QED  BY <1>1, <2>1, CallOnKeeps DEF Steps
<1>4. CASE OwnedBy(OwnerOf(k)) = {}
  <2>1. /\ addresses' = addresses \cup {row} /\ keys' = keys \cup {a}
        /\ Advance(k, "answered", a)
    BY <1>4 DEF InsertAddress
  <2>2. /\ MemoryOK'
        /\ \A j \in Calls :
              \/ j # k /\ calls'[j] = calls[j]
              \/ j = k /\ calls'[j] = NoCall
              \/ j = k /\ calls'[j] = [step |-> "answered", address |-> a]
    BY <1>1, <1>2, <2>1, AdvanceKeeps DEF Steps
  <2>3. \A r \in addresses : r.owner # OwnerOf(k) /\ r.address # a
    BY <1>1, <1>2, <1>4 DEF OwnedBy, CallsCarryCustody
  <2>4. row.owner = OwnerOf(k) /\ row.address = a /\ OwnerOf(k) \in Users
    BY Owners
  <2>5. row \in [owner : Users, address : Accounts]
    BY <1>2, <2>4
  <2>6. \A p, q \in addresses' : p.owner = q.owner \/ p.address = q.address => p = q
    <3> HIDE DEF row
    <3> QED  BY <1>1, <2>1, <2>3, <2>4 DEF TypeOK
  <2>7. TypeOK'
    <3> HIDE DEF row
    <3>1. addresses' \subseteq [owner : Users, address : Accounts]
      BY <1>1, <2>1, <2>5 DEF TypeOK
    <3>2. \A j \in Calls : calls'[j].step \in Steps
                           /\ calls'[j].address \in Accounts \cup {NoAccount}
      BY <2>2 DEF MemoryOK, CallRecords
    <3> QED  BY <1>1, <2>6, <3>1, <3>2 DEF TypeOK, walletTables
  <2>8. CallsCarryCustody'
    <3>1. \A r \in addresses' : r.owner = OwnerOf(r.address)
      BY <1>1, <1>2, <2>1, <2>4 DEF CallsCarryCustody
    <3>2. \A j \in Calls : /\ calls'[j].step = "insert" => calls'[j].address = j
                           /\ calls'[j].step = "answered" =>
                                 [owner |-> OwnerOf(j), address |-> calls'[j].address] \in addresses'
      BY <1>1, <2>1, <2>2 DEF CallsCarryCustody, Custodied, NoCall
    <3> QED  BY <3>1, <3>2 DEF CallsCarryCustody, Custodied, OwnerOf
  <2>9. RequestsCarryCustody' /\ RepliesCarryCustody'
    BY <1>1, <2>1 DEF RequestsCarryCustody, RepliesCarryCustody, Custodied, walletTables
  <2>10. NoStrandedKeys'
    BY <1>1, <2>1, <2>4 DEF NoStrandedKeys
  <2>11. WalletsAreCustodied'
    BY <1>1, <2>1 DEF WalletsAreCustodied, walletTables
  <2> QED  BY <2>2, <2>7, <2>8, <2>9, <2>10, <2>11 DEF IInv
<1> QED  BY <1>3, <1>4

-----------------------------------------------------------------------------
(* The theorems.                                                           *)

\* The strengthened invariant holds in every reachable state.
LEMMA Invariant == Spec => []IInv
<1>1. IInv /\ [Next]_vars => IInv'
  <2> SUFFICES ASSUME IInv, [Next]_vars PROVE IInv'
    OBVIOUS
  <2>1. CASE \E u \in Users : CreateUser(u)
    BY <2>1, CreateUserKeeps
  <2>2. CASE \E c \in Clients : Client(c) \/ CallTimesOut(c) \/ CallRefused(c) \/ RequestDies(c)
    BY <2>2, PostWalletKeeps, CallFailedKeeps, CallAnsweredKeeps, AttachWalletKeeps,
       InsertWalletKeeps, CallTimesOutKeeps, CallRefusedKeeps, RequestDiesKeeps DEF Client
  <2>3. CASE \E k \in Calls : Handler(k) \/ CallDies(k)
    BY <2>3, SelectAddressKeeps, InsertAddressKeeps, CallDiesKeeps DEF Handler
  <2>4. CASE UNCHANGED vars
    <3> USE <2>4 DEF vars
    <3>1. TypeOK' /\ MemoryOK'
      BY DEF IInv, TypeOK, MemoryOK, Requests
    <3>2. CallsCarryCustody' /\ RequestsCarryCustody' /\ RepliesCarryCustody'
      BY DEF IInv, CallsCarryCustody, RequestsCarryCustody, RepliesCarryCustody, Custodied, OwnerOf
    <3>3. NoStrandedKeys' /\ WalletsAreCustodied'
      BY DEF IInv, NoStrandedKeys, WalletsAreCustodied
    <3> QED  BY <3>1, <3>2, <3>3 DEF IInv
  <2> QED  BY <2>1, <2>2, <2>3, <2>4 DEF Next
<1> QED  BY <1>1, InitIInv, PTL DEF Spec

\* Rows have the columns of their tables and the unique constraints hold.
THEOREM TypeCorrect == Spec => []TypeOK
<1>1. IInv => TypeOK
  BY DEF IInv
<1> QED  BY <1>1, Invariant, PTL

\* The keys in custody are those of the addresses that owners were given,
\* whatever create_address retries and whoever dies.
THEOREM KeysNeverStranded == Spec => []NoStrandedKeys
<1>1. IInv => NoStrandedKeys
  BY DEF IInv
<1> QED  BY <1>1, Invariant, PTL

\* The address of a wallet is the one blockchain-service keeps, with its key,
\* for that user.
THEOREM WalletsCustodied == Spec => []WalletsAreCustodied
<1>1. IInv => WalletsAreCustodied
  BY DEF IInv
<1> QED  BY <1>1, Invariant, PTL

\* Every answer with a wallet, for every request of a user, names one address.
THEOREM AddressesStable == Spec => []AddressIsStable
<1>1. IInv => AddressIsStable
  <2> SUFFICES ASSUME IInv, NEW p \in replies, NEW q \in replies,
                      p.status = "wallet", q.status = "wallet",
                      AsksFor[p.client].user = AsksFor[q.client].user
               PROVE  p.address = q.address
    BY DEF AddressIsStable
  <2> DEFINE u == AsksFor[p.client].user
  <2>1. Custodied(u, p.address) /\ Custodied(u, q.address)
    BY DEF IInv, RepliesCarryCustody
  <2>2. [owner |-> u, address |-> p.address] = [owner |-> u, address |-> q.address]
    BY <2>1 DEF IInv, TypeOK, Custodied
  <2> QED  BY <2>2
<1> QED  BY <1>1, Invariant, PTL
=============================================================================
