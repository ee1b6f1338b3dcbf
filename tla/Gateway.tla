-------------------------------- MODULE Gateway --------------------------------
(***************************************************************************)
(* The handlers of the API gateway that change state: login challenges and *)
(* sessions (handlers/auth.rs), contract nonces and signing                *)
(* (handlers/contracts.rs), and deposit intake (handlers/transaction.rs).  *)
(* They share two Redis caches, whose calls may fail unnoticed and whose   *)
(* keys expire, and the users and contracts tables, where a transaction    *)
(* keeps the row it changed locked until it ends.                          *)
(*                                                                         *)
(* A request is a process with one step per await of its handler.  A       *)
(* signature is the wallet that made it; a nonce or a token is a UUID, the *)
(* next of a counter.                                                      *)
(***************************************************************************)
EXTENDS Integers, FiniteSets, Functions

CONSTANTS
  Requests,   \* requests in flight at a time
  Wallets,
  Amounts,    \* init_fund of a signed message
  Txs,        \* the hash texts submitted; each names its own transaction here,
              \* and DepositSweeper has the texts of one transaction
  TxFrom, TxAmount,
  TxAccepted, \* successful USDT transfers to the platform wallet
  MaxChallenges, MaxNonces, MaxTokens, MaxFaults,
  None

ASSUME GatewayAssumption ==
  /\ Amounts \subseteq Nat \ {0}
  /\ TxFrom \in [Txs -> Wallets] /\ TxAmount \in [Txs -> Nat]
  /\ IsFiniteSet(Txs) /\ TxAccepted \subseteq Txs
  /\ {MaxChallenges, MaxNonces, MaxTokens, MaxFaults} \subseteq Nat
  /\ None \notin Wallets \cup Requests \cup Nat
  /\ None \notin [balance : Int, locked : Int]

VARIABLES
  loginNonce, \* nonce cache, by wallet
  bound,      \* nonce cache, by nonce: the wallet it was issued to
  session,    \* session cache, by token: a wallet
  user,       \* users rows: [balance, locked], or None
  contracts,  \* contracts rows
  rowLock,    \* the request whose transaction changed the row of a wallet
  ticketed,   \* transactions the deposit worker has a ticket for
  credited,   \* of these, the ones whose amount it credited
  req,        \* the requests
  challenges, nonces, tokens,  \* UUIDs used
  issuedTo,   \* history: the wallet a contract nonce was issued to
  faults

caches == <<loginNonce, bound, session, challenges, nonces, tokens, issuedTo>>
tables == <<user, contracts, rowLock>>
deposits == <<ticketed, credited>>
vars == <<caches, tables, deposits, req, faults>>

Nonces == 1..MaxNonces
Tokens == 1..MaxTokens

Free == [kind |-> "none", pc |-> "free", cookie |-> None, key |-> None, signer |-> None,
         amount |-> 0, wallet |-> None]

Init ==
  /\ loginNonce = [w \in Wallets |-> None]
  /\ bound = [n \in Nonces |-> None]
  /\ session = [t \in Tokens |-> None]
  /\ user = [w \in Wallets |-> None]
  /\ contracts = {}
  /\ rowLock = [w \in Wallets |-> None]
  /\ ticketed = {} /\ credited = {}
  /\ req = [r \in Requests |-> Free]
  /\ challenges = 0 /\ nonces = 0 /\ tokens = 0
  /\ issuedTo = [n \in Nonces |-> None]
  /\ faults = 0

Fault == faults < MaxFaults /\ faults' = faults + 1
Fine == UNCHANGED faults

At(r, kind, pc) == req[r].kind = kind /\ req[r].pc = pc
Goto(r, pc) == req' = [req EXCEPT ![r].pc = pc]
Done(r) == req' = [req EXCEPT ![r] = Free]

\* A Redis write or delete: a failure is logged and the handler goes on.  A
\* lookup that tells the client whether a write went through changes nothing.
Redis(cache, value) ==
  \/ cache' = value /\ Fine
  \/ cache' = cache /\ Fault

-----------------------------------------------------------------------------
(* Requests come with any inputs; a UUID that was never issued is not one  *)
(* a later request could be given.                                         *)

Begin(r, in) == req[r].pc = "free" /\ req' = [req EXCEPT ![r] = in]

Arrive(r) ==
  /\ \/ \E w \in Wallets : Begin(r, [Free EXCEPT !.kind = "challenge", !.pc = "store", !.wallet = w])
     \/ \E w \in Wallets, n \in 0..challenges : \* 0: a message that is no nonce
          Begin(r, [Free EXCEPT !.kind = "login", !.pc = "get", !.wallet = w, !.key = n])
     \/ \E t \in 1..tokens :
          \/ Begin(r, [Free EXCEPT !.kind = "logout", !.pc = "drop", !.cookie = t])
          \/ \E k \in {"nonce", "read"} : Begin(r, [Free EXCEPT !.kind = k, !.pc = "auth", !.cookie = t])
          \/ \E n \in 1..nonces, w \in Wallets, a \in Amounts :
               Begin(r, [Free EXCEPT !.kind = "sign", !.pc = "auth", !.cookie = t, !.key = n,
                                     !.signer = w, !.amount = a])
          \/ \E x \in Txs :
               Begin(r, [Free EXCEPT !.kind = "deposit", !.pc = "auth", !.cookie = t, !.key = x])
  /\ UNCHANGED <<caches, tables, deposits, faults>>

\* authenticate: the wallet of the session cookie; a failed lookup is none.
Authenticate(r, next) ==
  /\ req[r].pc = "auth"
  /\ \/ /\ session[req[r].cookie] # None
        /\ req' = [req EXCEPT ![r].wallet = session[req[r].cookie], ![r].cookie = None,
                              ![r].pc = next]
        /\ Fine
     \/ session[req[r].cookie] = None /\ Done(r) /\ Fine
     \/ Done(r) /\ Fault
  /\ UNCHANGED <<caches, tables, deposits>>

\* The handlers that only read: get_my_contracts, orders, list, user stats.
ReadRows(r) ==
  /\ At(r, "read", "rows")
  /\ Done(r)
  /\ UNCHANGED <<caches, tables, deposits, faults>>

-----------------------------------------------------------------------------
(* handlers/auth.rs                                                        *)

\* request_challenge: store a fresh nonce for the wallet.
StoreChallenge(r) ==
  /\ At(r, "challenge", "store") /\ challenges < MaxChallenges
  /\ challenges' = challenges + 1
  /\ Redis(loginNonce, [loginNonce EXCEPT ![req[r].wallet] = challenges + 1])
  /\ Done(r)
  /\ UNCHANGED <<bound, session, nonces, tokens, issuedTo, tables, deposits>>

\* login: the nonce is compared, then removed, in two calls of the cache.
GetNonce(r) ==
  /\ At(r, "login", "get")
  /\ LET n == loginNonce[req[r].wallet] IN
     \/ n = None /\ Done(r) /\ Fine
     \/ n # None /\ n # req[r].key /\ Goto(r, "reject") /\ Fine
     \/ n = req[r].key /\ Goto(r, "burn") /\ Fine
     \/ Done(r) /\ Fault
  /\ UNCHANGED <<caches, tables, deposits>>

BurnNonce(r) ==
  /\ At(r, "login", "reject") \/ At(r, "login", "burn")
  /\ Redis(loginNonce, [loginNonce EXCEPT ![req[r].wallet] = None])
  /\ IF req[r].pc = "reject" THEN Done(r) ELSE Goto(r, "upsert")
  /\ UNCHANGED <<bound, session, challenges, nonces, tokens, issuedTo, tables, deposits>>

\* User::upsert in its transaction; it waits for the row if that is locked.
UpsertUser(r) ==
  /\ At(r, "login", "upsert")
  /\ \/ /\ rowLock[req[r].wallet] = None
        /\ user' = [user EXCEPT ![req[r].wallet] = IF @ = None THEN [balance |-> 0, locked |-> 0]
                                                  ELSE @]
        /\ Goto(r, "session") /\ Fine
     \/ UNCHANGED user /\ Done(r) /\ Fault
  /\ UNCHANGED <<caches, contracts, rowLock, deposits>>

StoreSession(r) ==
  /\ At(r, "login", "session") /\ tokens < MaxTokens
  /\ tokens' = tokens + 1
  /\ Redis(session, [session EXCEPT ![tokens + 1] = req[r].wallet])
  /\ Done(r)
  /\ UNCHANGED <<loginNonce, bound, challenges, nonces, issuedTo, tables, deposits>>

Logout(r) ==
  /\ At(r, "logout", "drop")
  /\ Redis(session, [session EXCEPT ![req[r].cookie] = None])
  /\ Done(r)
  /\ UNCHANGED <<loginNonce, bound, challenges, nonces, tokens, issuedTo, tables, deposits>>

-----------------------------------------------------------------------------
(* handlers/contracts.rs                                                   *)

\* get_nonce
IssueNonce(r) ==
  /\ At(r, "nonce", "issue") /\ nonces < MaxNonces
  /\ nonces' = nonces + 1
  /\ Redis(bound, [bound EXCEPT ![nonces + 1] = req[r].wallet])
  /\ issuedTo' = [issuedTo EXCEPT ![nonces + 1] = req[r].wallet]
  /\ Done(r)
  /\ UNCHANGED <<loginNonce, session, challenges, tokens, tables, deposits>>

\* sign: the signer is the session's wallet, and the nonce was issued to it.
VerifySign(r) ==
  /\ At(r, "sign", "verify")
  /\ \/ req[r].signer # req[r].wallet /\ Done(r) /\ Fine
     \/ /\ req[r].signer = req[r].wallet
        /\ IF bound[req[r].key] = req[r].wallet
           THEN req' = [req EXCEPT ![r].pc = "user", ![r].signer = None]
           ELSE Done(r)
        /\ Fine
     \/ Done(r) /\ Fault
  /\ UNCHANGED <<caches, tables, deposits>>

\* find_by_wallet and begin.  The row it read is used for its wallet alone.
FindUser(r) ==
  /\ At(r, "sign", "user")
  /\ \/ (IF user[req[r].wallet] = None THEN Done(r) ELSE Goto(r, "lock")) /\ Fine
     \/ Done(r) /\ Fault
  /\ UNCHANGED <<caches, tables, deposits>>

\* Mutant: the update without its balance condition.
LockBalanceUnchecked(r) ==
  /\ At(r, "sign", "lock") /\ rowLock[req[r].wallet] = None
  /\ rowLock' = [rowLock EXCEPT ![req[r].wallet] = r]
  /\ Goto(r, "burn") /\ Fine
  /\ UNCHANGED <<caches, user, contracts, deposits>>

\* lock_balance: the row is changed, visible to others after the commit, and
\* locked until then; no row is changed when the balance is short.
LockBalance(r) ==
  /\ At(r, "sign", "lock")
  /\ LET w == req[r].wallet IN
     \/ /\ rowLock[w] = None
        /\ user[w].balance >= req[r].amount
        /\ rowLock' = [rowLock EXCEPT ![w] = r]
        /\ Goto(r, "burn") /\ Fine
     \/ /\ rowLock[w] = None
        /\ user[w].balance < req[r].amount
        /\ UNCHANGED rowLock
        /\ Done(r) /\ Fine
     \/ Done(r) /\ Fault /\ UNCHANGED rowLock
  /\ UNCHANGED <<caches, user, contracts, deposits>>

BurnSignNonce(r) ==
  /\ At(r, "sign", "burn")
  /\ Redis(bound, [bound EXCEPT ![req[r].key] = None])
  /\ Goto(r, "create")
  /\ UNCHANGED <<loginNonce, session, challenges, nonces, tokens, issuedTo, tables, deposits>>

Rollback(r) ==
  rowLock' = [w \in Wallets |-> IF rowLock[w] = r THEN None ELSE rowLock[w]]

\* Mutant: contracts without the unique index on nonce.
CreateContractAgain(r) ==
  /\ At(r, "sign", "create")
  /\ Goto(r, "commit") /\ UNCHANGED rowLock /\ Fine
  /\ UNCHANGED <<caches, user, contracts, deposits>>

\* Mutant: an error returned before the transaction ends.
CreateContractLeak(r) ==
  /\ At(r, "sign", "create")
  /\ \/ /\ \A c \in contracts : c.nonce # req[r].key
        /\ Goto(r, "commit") /\ Fine
     \/ /\ \E c \in contracts : c.nonce = req[r].key
        /\ Done(r) /\ Fine
     \/ Done(r) /\ Fault
  /\ UNCHANGED <<caches, tables, deposits>>

\* Contracts::create under idx_contracts_nonce; a nonce has one wallet, so the
\* row lock keeps two inserts of a nonce apart.
CreateContract(r) ==
  /\ At(r, "sign", "create")
  /\ \/ /\ \A c \in contracts : c.nonce # req[r].key
        /\ Goto(r, "commit") /\ UNCHANGED rowLock /\ Fine
     \/ /\ \E c \in contracts : c.nonce = req[r].key
        /\ Rollback(r) /\ Done(r) /\ Fine
     \/ Rollback(r) /\ Done(r) /\ Fault
  /\ UNCHANGED <<caches, user, contracts, deposits>>

\* The effect of the transaction that lock_balance and create make up.
SignEffect(r) ==
  LET w == req[r].wallet IN
  /\ user' = [user EXCEPT ![w].balance = @ - req[r].amount, ![w].locked = @ + req[r].amount]
  /\ contracts' = contracts \cup {[by |-> r, nonce |-> req[r].key, wallet |-> w,
                                   fund |-> req[r].amount]}

\* A commit that fails may have been made all the same.
Commit(r) ==
  /\ At(r, "sign", "commit")
  /\ \/ SignEffect(r) /\ Done(r) /\ Fine
     \/ UNCHANGED <<user, contracts>> /\ Done(r) /\ Fault
     \/ SignEffect(r) /\ Done(r) /\ Fault
  /\ Rollback(r)
  /\ UNCHANGED <<caches, deposits>>

-----------------------------------------------------------------------------
(* handlers/transaction.rs and the deposit worker behind it.               *)

\* The transaction is fetched and must be the caller's own, successful, and
\* a USDT transfer to the platform wallet.
CheckTx(r) ==
  /\ At(r, "deposit", "tx")
  /\ \/ TxFrom[req[r].key] # req[r].wallet /\ Done(r) /\ Fine
     \/ /\ TxFrom[req[r].key] = req[r].wallet
        /\ IF req[r].key \in TxAccepted THEN Goto(r, "ticket") ELSE Done(r)
        /\ Fine
     \/ Done(r) /\ Fault
  /\ UNCHANGED <<caches, tables, deposits>>

\* uid_for_wallet and create_ticket0; the worker keeps one row a text.
CreateTicket(r) ==
  /\ At(r, "deposit", "ticket")
  /\ \/ /\ user[req[r].wallet] # None /\ req[r].key \notin ticketed
        /\ ticketed' = ticketed \cup {req[r].key}
        /\ Done(r) /\ Fine
     \/ /\ user[req[r].wallet] = None \/ req[r].key \in ticketed
        /\ UNCHANGED ticketed
        /\ Done(r) /\ Fine
     \/ Done(r) /\ Fault /\ ticketed' \in {ticketed, ticketed \cup {req[r].key}}
  /\ UNCHANGED <<caches, tables, credited>>

\* DepositPromise's Credit: add_balance on the row, once it is not locked.
CreditDeposit(x) ==
  /\ x \in ticketed \ credited
  /\ user[TxFrom[x]] # None /\ rowLock[TxFrom[x]] = None
  /\ credited' = credited \cup {x}
  /\ user' = [user EXCEPT ![TxFrom[x]].balance = @ + TxAmount[x]]
  /\ UNCHANGED <<caches, contracts, rowLock, ticketed, req, faults>>

-----------------------------------------------------------------------------
\* Keys outlive their TTL or are evicted, at any time.
Expire ==
  /\ \/ \E w \in Wallets : /\ loginNonce[w] # None
                           /\ loginNonce' = [loginNonce EXCEPT ![w] = None]
                           /\ UNCHANGED <<bound, session>>
     \/ \E n \in Nonces : /\ bound[n] # None
                          /\ bound' = [bound EXCEPT ![n] = None]
                          /\ UNCHANGED <<loginNonce, session>>
     \/ \E t \in Tokens : /\ session[t] # None
                          /\ session' = [session EXCEPT ![t] = None]
                          /\ UNCHANGED <<loginNonce, bound>>
  /\ UNCHANGED <<challenges, nonces, tokens, issuedTo, tables, deposits, req, faults>>

\* The gateway dies: its transactions end without a commit.
Crash ==
  /\ Fault
  /\ \E r \in Requests : req[r].pc # "free"
  /\ req' = [r \in Requests |-> Free]
  /\ rowLock' = [w \in Wallets |-> None]
  /\ UNCHANGED <<caches, user, contracts, deposits>>

Handler(r) ==
  \/ At(r, "read", "auth") /\ Authenticate(r, "rows")
  \/ At(r, "nonce", "auth") /\ Authenticate(r, "issue")
  \/ At(r, "sign", "auth") /\ Authenticate(r, "verify")
  \/ At(r, "deposit", "auth") /\ Authenticate(r, "tx")
  \/ ReadRows(r) \/ StoreChallenge(r)
  \/ GetNonce(r) \/ BurnNonce(r) \/ UpsertUser(r) \/ StoreSession(r)
  \/ Logout(r)
  \/ IssueNonce(r)
  \/ VerifySign(r) \/ FindUser(r) \/ LockBalance(r) \/ BurnSignNonce(r) \/ CreateContract(r)
  \/ Commit(r)
  \/ CheckTx(r) \/ CreateTicket(r)

Next ==
  \/ \E r \in Requests : Arrive(r) \/ Handler(r)
  \/ \E x \in Txs : CreditDeposit(x)
  \/ Expire \/ Crash

Spec == Init /\ [][Next]_vars /\ \A r \in Requests : SF_vars(Handler(r))

-----------------------------------------------------------------------------
FundColumn == [c \in contracts |-> c.fund]

ContractsOf(w) == {c \in contracts : c.wallet = w}

CreditedOf(w) == {x \in credited : TxFrom[x] = w}

\* A user's money is where the tables say: locked_balance is what their
\* contracts were signed for, and both columns together what their deposits
\* brought, however signings, deposits, failures and crashes interleave
\* (lock_balance and create are one transaction in handlers/contracts.rs).
FundsAccounted ==
  \A w \in {v \in Wallets : user[v] # None} :
    /\ user[w].balance >= 0
    /\ user[w].locked = SumFunctionOnSet(FundColumn, ContractsOf(w))
    /\ user[w].balance + user[w].locked = SumFunctionOnSet(TxAmount, CreditedOf(w))

\* One nonce authorises one contract, of the wallet it was issued to, although
\* the check and the removal of the nonce are two cache calls and a removal
\* may fail: the unique index has the last word (handlers/contracts.rs).
OneContractPerNonce ==
  \A c, d \in contracts : /\ c.nonce = d.nonce => c = d
                          /\ issuedTo[c.nonce] = c.wallet

\* No transaction waits for a row for ever, and none leaves one locked: every
\* signing and deposit is answered, and every login gets its user row or an
\* error, though each may be overtaken by others on the row (the early
\* returns of sign drop the transaction, handlers/contracts.rs).
RequestsEnd ==
  \A r \in Requests :
    (req[r].kind \in {"sign", "deposit"} \/ req[r].pc = "upsert")
      ~> req[r].pc \in {"free", "session"}
=============================================================================
