---------------------------- MODULE Provisioning ----------------------------
(***************************************************************************)
(* How a user gets a wallet: wallet-service's create_user and create_wallet,*)
(* BlockchainServiceClient.create_address with its retries, and             *)
(* blockchain-service's POST /addresses. A request looks for the wallet,    *)
(* asks the other service for the custody address and commits the wallet    *)
(* row in a transaction of its own. A call the client no longer waits for   *)
(* goes on in the other service; either process may die at any step.        *)
(***************************************************************************)
EXTENDS Integers, FiniteSets

CONSTANTS
    Users,       \* users.id
    Mailbox,     \* Mailbox[u]: the e-mail address of u, in lower case
    Networks,    \* networks of POST /users/{user_id}/wallet
    Clients,     \* callers; each repeats its request until it gets an answer
    AsksFor,     \* AsksFor[c]: the user and the network of its request
    MaxAttempts, \* RetryPolicy.attempts
    MaxFaults    \* bound: timeouts, lost answers and dead processes

ASSUME ClientsAssumption == AsksFor \in [Clients -> [user : Users, network : Networks]]
ASSUME MailboxAssumption == DOMAIN Mailbox = Users
ASSUME BoundsAssumption == MaxAttempts \in Nat \ {0} /\ MaxFaults \in Nat

\* A call of POST /addresses. A client gives up on one call per fault at most, so
\* client and fault count name the calls that are under way at one time.
Calls == Clients \X (0 .. MaxFaults)

\* create_account is random: the key pair is named after the call that makes
\* it. A call that loses its key pair leaves a row, and none is made again.
Accounts == Calls
NoAccount == <<"none", 0>>

NoCall == [step |-> "none", address |-> NoAccount]
Steps == {"none", "select", "insert", "answered", "failed"}

VARIABLES
    users,      \* users
    wallets,    \* wallets: user, network, address
    balances,   \* users with a balances row
    addresses,  \* addresses: owner, address
    keys,       \* key_material: addresses
    request,    \* a client's request inside wallet-service
    calls,      \* the calls inside blockchain-service
    replies,    \* history: the answers clients got
    faults      \* faults so far

vars == <<users, wallets, balances, addresses, keys, request, calls, replies, faults>>
walletTables == <<users, wallets, balances>>
custodyTables == <<addresses, keys>>

NoRequest == [phase |-> "idle"]
Calling(n, k) == [phase |-> "calling", attempt |-> n, call |-> k]
Attaching(a) == [phase |-> "attaching", address |-> a]
Inserting(a) == [phase |-> "inserting", address |-> a]
Reply(c, s, a) == [client |-> c, status |-> s, address |-> a]

Init ==
    /\ users = {} /\ wallets = {} /\ balances = {}
    /\ addresses = {} /\ keys = {}
    /\ request = [c \in Clients |-> NoRequest]
    /\ calls = [k \in Calls |-> NoCall]
    /\ replies = {}
    /\ faults = 0

Fault == faults < MaxFaults /\ faults' = faults + 1

WalletOf(u, n) == {w \in wallets : w.user = u /\ w.network = n}
OwnerOf(k) == AsksFor[k[1]].user

-----------------------------------------------------------------------------
(* wallet-service: api/routes.py, services/users.py, chain_client.py       *)

\* users.email is unique; a second sign-up is a ConflictError.
CreateUser(u) ==
    /\ u \notin users
    /\ \A v \in users : Mailbox[v] # Mailbox[u]
    /\ users' = users \cup {u}
    /\ UNCHANGED <<wallets, balances, custodyTables, request, calls, replies, faults>>

\* A new call with attempt n of the request; whoever answered old is done.
SendCall(c, n, old, f) ==
    /\ request' = [request EXCEPT ![c] = Calling(n, <<c, f>>)]
    /\ calls' = [k \in Calls |->
                   IF k = <<c, f>> THEN [step |-> "select", address |-> NoAccount]
                   ELSE IF k \in old THEN NoCall
                   ELSE calls[k]]

\* create_wallet up to the first call. Without the user's row the answer is a
\* NotFoundError, which changes nothing.
PostWallet(c) ==
    LET ask == AsksFor[c] IN
    /\ request[c] = NoRequest
    /\ ask.user \in users
    /\ IF WalletOf(ask.user, ask.network) # {}
       THEN /\ \E w \in WalletOf(ask.user, ask.network) :
                  replies' = replies \cup {Reply(c, "wallet", w.address)}
            /\ UNCHANGED <<request, calls>>
       ELSE SendCall(c, 1, {}, faults) /\ UNCHANGED replies
    /\ UNCHANGED <<walletTables, custodyTables, faults>>

\* UpstreamUnavailableError. over are the calls that have come to their end.
GiveUp(c, over) ==
    /\ request' = [request EXCEPT ![c] = NoRequest]
    /\ calls' = [k \in Calls |-> IF k \in over THEN NoCall ELSE calls[k]]
    /\ replies' = replies \cup {Reply(c, "unavailable", NoAccount)}

\* retry_async after a retryable failure: the next attempt, or the end.
RetryOrGiveUp(c, over, f) ==
    IF request[c].attempt < MaxAttempts
    THEN SendCall(c, request[c].attempt + 1, over, f) /\ UNCHANGED replies
    ELSE GiveUp(c, over)

\* The call of c whose answer is on its way, if it is.
Ended(c) ==
    {k \in Calls : /\ request[c].phase = "calling" /\ request[c].call = k
                   /\ calls[k].step \in {"answered", "failed"}}

\* The call does not answer in time, or its answer is lost.
CallTimesOut(c) ==
    /\ request[c].phase = "calling"
    /\ Fault
    /\ RetryOrGiveUp(c, Ended(c), faults')
    /\ UNCHANGED <<walletTables, custodyTables>>

\* The call has failed with a 5xx or its connection was closed.
CallFailed(c) ==
    /\ request[c].phase = "calling"
    /\ calls[request[c].call].step = "failed"
    /\ RetryOrGiveUp(c, {request[c].call}, faults)
    /\ UNCHANGED <<walletTables, custodyTables, faults>>

\* The call is refused with a 4xx before its handler runs (the internal key, a
\* request that does not validate): _Permanent, and no further attempt.
CallRefused(c) ==
    /\ request[c].phase = "calling"
    /\ calls[request[c].call].step = "select"
    /\ Fault
    /\ GiveUp(c, {request[c].call})
    /\ UNCHANGED <<walletTables, custodyTables>>

CallAnswered(c) ==
    LET k == request[c].call IN
    /\ request[c].phase = "calling"
    /\ calls[k].step = "answered"
    /\ request' = [request EXCEPT ![c] = Attaching(calls[k].address)]
    /\ calls' = [calls EXCEPT ![k] = NoCall]
    /\ UNCHANGED <<walletTables, custodyTables, replies, faults>>

\* attach_wallet: ON CONFLICT DO NOTHING on uq_wallet_user_network_asset looks for
\* a committed row with that key first. When there is one, ensure_balance and the
\* row as it is are the answer.
AttachWallet(c) ==
    LET ask == AsksFor[c]
        there == WalletOf(ask.user, ask.network)
    IN /\ request[c].phase = "attaching"
       /\ IF there # {}
          THEN /\ balances' = balances \cup {ask.user}
               /\ \E w \in there : replies' = replies \cup {Reply(c, "wallet", w.address)}
               /\ request' = [request EXCEPT ![c] = NoRequest]
          ELSE /\ request' = [request EXCEPT ![c] = Inserting(request[c].address)]
               /\ UNCHANGED <<balances, replies>>
       /\ UNCHANGED <<users, wallets, custodyTables, calls, faults>>

\* Its insertion and the commit, one step: it waits for a transaction that has
\* inserted the same value. The conflict clause covers one unique constraint, and
\* wallets.address is another: a row with this address, also one that came after
\* the look, is an IntegrityError, so the transaction rolls back: a 500. (A row
\* with the same key has the same address.)
InsertWallet(c) ==
    LET ask == AsksFor[c]
        a == request[c].address
    IN /\ request[c].phase = "inserting"
       /\ IF \E w \in wallets : w.address = a
          THEN /\ replies' = replies \cup {Reply(c, "error", NoAccount)}
               /\ UNCHANGED <<wallets, balances>>
          ELSE /\ wallets' = wallets \cup {[user |-> ask.user, network |-> ask.network,
                                            address |-> a]}
               /\ balances' = balances \cup {ask.user}
               /\ replies' = replies \cup {Reply(c, "wallet", a)}
       /\ request' = [request EXCEPT ![c] = NoRequest]
       /\ UNCHANGED <<users, custodyTables, calls, faults>>

\* wallet-service dies, or its answer is lost: the client asks again. A call
\* goes on.
RequestDies(c) ==
    /\ request[c] # NoRequest
    /\ Fault
    /\ request' = [request EXCEPT ![c] = NoRequest]
    /\ calls' = [k \in Calls |-> IF k \in Ended(c) THEN NoCall ELSE calls[k]]
    /\ UNCHANGED <<walletTables, custodyTables, replies>>

-----------------------------------------------------------------------------
(* blockchain-service: api/routes.py, services/addresses.py                *)

\* An answer nobody waits for is gone.
Awaited(k) == \E c \in Clients : request[c].phase = "calling" /\ request[c].call = k
Advance(k, s, a) ==
    calls' = [calls EXCEPT ![k] = IF s \in {"answered", "failed"} /\ ~Awaited(k) THEN NoCall
                                  ELSE [step |-> s, address |-> a]]
OwnedBy(u) == {r \in addresses : r.owner = u}

\* Mutant: an address is created without looking for one.
SelectAddressNever(k) ==
    /\ calls[k].step = "select"
    /\ Advance(k, "insert", k)
    /\ UNCHANGED <<walletTables, custodyTables, request, replies, faults>>

\* get_or_create_address, its SELECT by owner_ref; create_account otherwise.
SelectAddress(k) ==
    /\ calls[k].step = "select"
    /\ IF OwnedBy(OwnerOf(k)) # {}
       THEN \E r \in OwnedBy(OwnerOf(k)) : Advance(k, "answered", r.address)
       ELSE Advance(k, "insert", k)
    /\ UNCHANGED <<walletTables, custodyTables, request, replies, faults>>

\* Mutant: owner_ref is not unique.
InsertAddressAnyway(k) ==
    /\ calls[k].step = "insert"
    /\ addresses' = addresses \cup {[owner |-> OwnerOf(k), address |-> calls[k].address]}
    /\ keys' = keys \cup {calls[k].address}
    /\ Advance(k, "answered", calls[k].address)
    /\ UNCHANGED <<walletTables, request, replies, faults>>

\* Mutant: the key is stored although the address is refused.
InsertAddressKeyFirst(k) ==
    /\ calls[k].step = "insert"
    /\ keys' = keys \cup {calls[k].address}
    /\ IF OwnedBy(OwnerOf(k)) # {}
       THEN Advance(k, "failed", NoAccount) /\ UNCHANGED addresses
       ELSE /\ addresses' = addresses \cup {[owner |-> OwnerOf(k), address |-> calls[k].address]}
            /\ Advance(k, "answered", calls[k].address)
    /\ UNCHANGED <<walletTables, request, replies, faults>>

\* Mutant: ON CONFLICT DO NOTHING, and the new address is the answer all the same.
InsertAddressDoNothing(k) ==
    /\ calls[k].step = "insert"
    /\ IF OwnedBy(OwnerOf(k)) # {} THEN UNCHANGED custodyTables
       ELSE /\ addresses' = addresses \cup {[owner |-> OwnerOf(k), address |-> calls[k].address]}
            /\ keys' = keys \cup {calls[k].address}
    /\ Advance(k, "answered", calls[k].address)
    /\ UNCHANGED <<walletTables, request, replies, faults>>

\* Its INSERTs and the commit of the route's transaction, one step: the INSERT
\* waits for a transaction that has inserted the same owner_ref and fails when
\* that one commits. Address and key commit together.
InsertAddress(k) ==
    /\ calls[k].step = "insert"
    /\ IF OwnedBy(OwnerOf(k)) # {}
       THEN Advance(k, "failed", NoAccount) /\ UNCHANGED custodyTables
       ELSE /\ addresses' = addresses \cup {[owner |-> OwnerOf(k), address |-> calls[k].address]}
            /\ keys' = keys \cup {calls[k].address}
            /\ Advance(k, "answered", calls[k].address)
    /\ UNCHANGED <<walletTables, request, replies, faults>>

\* The call does not arrive, or blockchain-service dies and rolls it back.
CallDies(k) ==
    /\ calls[k].step \in {"select", "insert"}
    /\ Fault
    /\ Advance(k, "failed", NoAccount)
    /\ UNCHANGED <<walletTables, custodyTables, request, replies>>

-----------------------------------------------------------------------------
Handler(k) == SelectAddress(k) \/ InsertAddress(k)
Client(c) ==
    PostWallet(c) \/ CallFailed(c) \/ CallAnswered(c) \/ AttachWallet(c) \/ InsertWallet(c)

Next ==
    \/ \E u \in Users : CreateUser(u)
    \/ \E c \in Clients : Client(c) \/ CallTimesOut(c) \/ CallRefused(c) \/ RequestDies(c)
    \/ \E k \in Calls : Handler(k) \/ CallDies(k)

\* "No wallet was created; retry the request": a client goes on until it gets
\* its wallet. Handlers run; faults are not fair, and a user need not sign up.
Spec ==
    /\ Init /\ [][Next]_vars
    /\ \A c \in Clients : WF_vars(Client(c))
    /\ \A k \in Calls : WF_vars(Handler(k))

-----------------------------------------------------------------------------
(* Properties.                                                             *)

\* Rows have the columns of their tables, and the unique constraints hold.
TypeOK ==
    /\ users \subseteq Users /\ balances \subseteq users
    /\ wallets \subseteq [user : users, network : Networks, address : Accounts]
    /\ addresses \subseteq [owner : Users, address : Accounts]
    /\ \A v, w \in wallets :
          v.address = w.address \/ (v.user = w.user /\ v.network = w.network) => v = w
    /\ \A p, q \in addresses : p.owner = q.owner \/ p.address = q.address => p = q
    /\ \A k \in Calls : calls[k].step \in Steps /\ calls[k].address \in Accounts \cup {NoAccount}
    /\ faults \in 0 .. MaxFaults

\* "A lost response can never strand an orphaned custody key": whatever was
\* retried, timed out or ran at once, the keys in custody are those of the
\* addresses owners were given.
NoStrandedKeys == keys = {r.address : r \in addresses}

\* A wallet never shows an address the platform cannot sign for: its address is
\* the one blockchain-service keeps for that very user, with its key, and the
\* user can hold a balance.
WalletsAreCustodied ==
    \A w \in wallets :
        /\ [owner |-> w.user, address |-> w.address] \in addresses
        /\ w.address \in keys /\ w.user \in balances

\* "Always gets the same address back": every answer with a wallet, for every
\* request of a user, names the same address.
AddressIsStable ==
    \A p, q \in replies :
        /\ p.status = "wallet" /\ q.status = "wallet"
        /\ AsksFor[p.client].user = AsksFor[q.client].user
        => p.address = q.address

\* A user who has signed up gets a wallet in the end, through lost answers, dead
\* processes and 500s of concurrent calls: the request that retries finds what
\* the lost one has left.
EveryUserGetsAWallet ==
    \A c \in Clients :
        AsksFor[c].user \in users ~> \E w \in wallets : w.user = AsksFor[c].user
=============================================================================
