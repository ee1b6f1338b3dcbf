----------------------------- MODULE GatewayProofs -----------------------------
(***************************************************************************)
(* For any number of requests, wallets and faults, one nonce makes one     *)
(* contract, of the wallet it was issued to.  The unique index is tested   *)
(* when the row is inserted and the contract is there only after the       *)
(* commit: what keeps two inserts of one nonce apart is the lock on the    *)
(* row of the user, which both need because a nonce belongs to one wallet. *)
(***************************************************************************)
EXTENDS Gateway, SumTheorems

Kinds == {"none", "challenge", "login", "logout", "nonce", "read", "sign", "deposit"}
Steps == {"free", "store", "get", "drop", "auth", "rows", "reject", "burn", "upsert", "session",
          "issue", "verify", "user", "lock", "create", "commit", "tx", "ticket"}

RequestStates ==
  [kind : Kinds, pc : Steps, cookie : Tokens \cup {None}, key : Nat \cup Txs \cup {None},
   signer : Wallets \cup {None}, amount : Nat, wallet : Wallets \cup {None}]

GatewayTypes ==
  /\ bound \in [Nonces -> Wallets \cup {None}]
  /\ session \in [Tokens -> Wallets \cup {None}]
  /\ issuedTo \in [Nonces -> Wallets \cup {None}]
  /\ rowLock \in [Wallets -> Requests \cup {None}]
  /\ req \in [Requests -> RequestStates]
  /\ \A r \in Requests : req[r].pc = "auth" => req[r].cookie \in Tokens
  /\ challenges \in Nat /\ nonces \in 0..MaxNonces /\ tokens \in 0..MaxTokens

\* The cache names the wallet a nonce was issued to, or none, and knows no
\* nonce that was not issued.
BoundInv ==
  \A n \in Nonces : /\ bound[n] # None => issuedTo[n] = bound[n]
                    /\ n > nonces => bound[n] = None

\* What a signing has established by the step it is at.
SigningInv ==
  \A r \in Requests : req[r].kind = "sign" =>
    LET q == req[r] IN
    /\ q.key \in 1..nonces
    /\ q.pc # "auth" => q.wallet \in Wallets
    /\ q.pc \in {"user", "lock", "burn", "create", "commit"} => issuedTo[q.key] = q.wallet
    /\ q.pc \in {"burn", "create", "commit"} => rowLock[q.wallet] = r
    /\ q.pc = "commit" => \A c \in contracts : c.nonce # q.key

ContractsInv == OneContractPerNonce /\ \A c \in contracts : c.nonce \in 1..nonces

GatewayInv == GatewayTypes /\ BoundInv /\ SigningInv /\ ContractsInv

-----------------------------------------------------------------------------
\* A step of one request that leaves the tables and the nonces alone, and
\* what that request must know for it.
LEMMA RequestStepKeepsInv ==
  ASSUME GatewayInv, NEW r \in Requests, NEW s \in RequestStates,
         req' = [req EXCEPT ![r] = s],
         UNCHANGED <<bound, issuedTo, nonces, rowLock, contracts>>,
         session' \in [Tokens -> Wallets \cup {None}],
         challenges' \in Nat, tokens' \in 0..MaxTokens,
         s.pc = "auth" => s.cookie \in Tokens,
         s.kind = "sign" =>
           /\ s.key \in 1..nonces
           /\ s.pc # "auth" => s.wallet \in Wallets
           /\ s.pc \in {"user", "lock", "burn", "create", "commit"} => issuedTo[s.key] = s.wallet
           /\ s.pc \in {"burn", "create", "commit"} => rowLock[s.wallet] = r
           /\ s.pc = "commit" => \A c \in contracts : c.nonce # s.key
  PROVE  GatewayInv'
<1>1. GatewayTypes'
  BY DEF GatewayInv, GatewayTypes
<1>2. BoundInv'
  BY DEF GatewayInv, BoundInv
<1>3. SigningInv'
  BY DEF GatewayInv, GatewayTypes, SigningInv
<1>4. ContractsInv'
  BY DEF GatewayInv, ContractsInv, OneContractPerNonce
<1>5. QED
  BY <1>1, <1>2, <1>3, <1>4 DEF GatewayInv

\* The answer to a request frees it.
LEMMA FreeIsAState == Free \in RequestStates /\ Free.kind = "none" /\ Free.pc = "free"
  BY DEF Free, RequestStates, Kinds, Steps

LEMMA DoneKeepsInv ==
  ASSUME GatewayInv, NEW r \in Requests, Done(r),
         UNCHANGED <<bound, issuedTo, nonces, rowLock, contracts>>,
         session' \in [Tokens -> Wallets \cup {None}],
         challenges' \in Nat, tokens' \in 0..MaxTokens
  PROVE  GatewayInv'
  BY FreeIsAState, RequestStepKeepsInv DEF Done

\* A request that is not a signing goes on.
LEMMA GotoKeepsInv ==
  ASSUME GatewayInv, NEW r \in Requests, NEW step \in Steps \ {"auth"}, Goto(r, step),
         req[r].kind # "sign",
         UNCHANGED <<bound, issuedTo, nonces, rowLock, contracts>>,
         session' \in [Tokens -> Wallets \cup {None}],
         challenges' \in Nat, tokens' \in 0..MaxTokens
  PROVE  GatewayInv'
<1> DEFINE s == [req[r] EXCEPT !.pc = step]
<1>1. s \in RequestStates /\ s.kind = req[r].kind /\ s.pc = step
  BY DEF GatewayInv, GatewayTypes, RequestStates
<1>2. req' = [req EXCEPT ![r] = s]
  BY DEF Goto
<1>3. QED
  BY <1>1, <1>2, RequestStepKeepsInv

\* A signing goes on with what it knows at its next step.
LEMMA SignGoesOn ==
  ASSUME GatewayInv, NEW r \in Requests, NEW step \in Steps \ {"auth"}, Goto(r, step),
         req[r].kind = "sign", req[r].pc # "auth",
         UNCHANGED <<bound, issuedTo, nonces, rowLock, contracts>>,
         UNCHANGED <<session, challenges, tokens>>,
         step \in {"user", "lock", "burn", "create", "commit"} =>
           issuedTo[req[r].key] = req[r].wallet,
         step \in {"burn", "create", "commit"} => rowLock[req[r].wallet] = r,
         step = "commit" => \A c \in contracts : c.nonce # req[r].key
  PROVE  GatewayInv'
<1> DEFINE s == [req[r] EXCEPT !.pc = step]
<1>1. /\ s \in RequestStates
      /\ s.kind = req[r].kind /\ s.key = req[r].key /\ s.wallet = req[r].wallet /\ s.pc = step
  BY DEF GatewayInv, GatewayTypes, RequestStates
<1>2. req' = [req EXCEPT ![r] = s]
  BY DEF Goto
<1>3. req[r].key \in 1..nonces /\ req[r].wallet \in Wallets
  BY DEF GatewayInv, SigningInv
<1>4. session' \in [Tokens -> Wallets \cup {None}] /\ challenges' \in Nat /\ tokens' \in 0..MaxTokens
  BY DEF GatewayInv, GatewayTypes
<1> HIDE DEF s
<1>5. QED
  BY <1>1, <1>2, <1>3, <1>4, RequestStepKeepsInv

-----------------------------------------------------------------------------
(* One lemma per group of actions.                                         *)

LEMMA RedisKeepsType ==
  ASSUME NEW cache, NEW value, NEW next, NEW D, NEW R,
         cache \in [D -> R], value \in [D -> R], next = value \/ next = cache
  PROVE  next \in [D -> R]
  OBVIOUS

\* A request arrives before its first step: a signing is not authenticated yet.
LEMMA ArrivingRequest ==
  ASSUME GatewayInv, NEW r \in Requests, Arrive(r), GatewayAssumption
  PROVE  \E s \in RequestStates :
           /\ req' = [req EXCEPT ![r] = s]
           /\ s.pc = "auth" => s.cookie \in Tokens
           /\ s.kind = "sign" => s.key \in 1..nonces /\ s.pc = "auth"
<1>1. /\ 1..tokens \subseteq Tokens /\ 0..challenges \subseteq Nat
      /\ 1..nonces \subseteq Nat /\ Amounts \subseteq Nat
  BY GatewayAssumption DEF GatewayInv, GatewayTypes, Tokens
<1> DEFINE Good(s) == /\ s \in RequestStates
                      /\ s.pc = "auth" => s.cookie \in Tokens
                      /\ s.kind = "sign" => s.key \in 1..nonces /\ s.pc = "auth"
<1>2. \A w \in Wallets : Good([Free EXCEPT !.kind = "challenge", !.pc = "store", !.wallet = w])
  BY DEF Free, RequestStates, Kinds, Steps
<1>3. \A w \in Wallets, n \in 0..challenges :
        Good([Free EXCEPT !.kind = "login", !.pc = "get", !.wallet = w, !.key = n])
  BY <1>1 DEF Free, RequestStates, Kinds, Steps
<1>4. \A t \in 1..tokens : Good([Free EXCEPT !.kind = "logout", !.pc = "drop", !.cookie = t])
  BY <1>1 DEF Free, RequestStates, Kinds, Steps
<1>5. \A t \in 1..tokens, k \in {"nonce", "read"} :
        Good([Free EXCEPT !.kind = k, !.pc = "auth", !.cookie = t])
  BY <1>1 DEF Free, RequestStates, Kinds, Steps
<1>6. ASSUME NEW t \in 1..tokens, NEW n \in 1..nonces, NEW w \in Wallets, NEW a \in Amounts
      PROVE  Good([Free EXCEPT !.kind = "sign", !.pc = "auth", !.cookie = t, !.key = n,
                               !.signer = w, !.amount = a])
  <2> DEFINE f == [Free EXCEPT !.kind = "sign", !.pc = "auth", !.cookie = t]
             g == [f EXCEPT !.key = n, !.signer = w, !.amount = a]
  <2>1. f \in RequestStates /\ f.kind = "sign" /\ f.pc = "auth" /\ f.cookie = t
    BY <1>1 DEF Free, RequestStates, Kinds, Steps
  <2>2. [Free EXCEPT !.kind = "sign", !.pc = "auth", !.cookie = t, !.key = n,
                     !.signer = w, !.amount = a] = g
    BY Zenon
  <2> HIDE DEF f
  <2>3. Good(g)
    BY <1>1, <2>1 DEF RequestStates
  <2>4. QED
    BY <2>2, <2>3, Zenon
<1>7. \A t \in 1..tokens, x \in Txs :
        Good([Free EXCEPT !.kind = "deposit", !.pc = "auth", !.cookie = t, !.key = x])
  BY <1>1 DEF Free, RequestStates, Kinds, Steps
<1> HIDE DEF Good
<1>8. \E s : Good(s) /\ req' = [req EXCEPT ![r] = s]
  BY <1>2, <1>3, <1>4, <1>5, <1>6, <1>7, Zenon DEF Arrive, Begin
<1>9. QED
  BY <1>8, Zenon DEF Good

LEMMA ArriveKeepsInv ==
  ASSUME GatewayInv, NEW r \in Requests, Arrive(r), GatewayAssumption
  PROVE  GatewayInv'
<1>1. /\ UNCHANGED <<bound, issuedTo, nonces, rowLock, contracts>>
      /\ UNCHANGED <<session, challenges, tokens>>
  BY DEF Arrive, caches, tables
<1>2. PICK s \in RequestStates :
        /\ req' = [req EXCEPT ![r] = s]
        /\ s.pc = "auth" => s.cookie \in Tokens
        /\ s.kind = "sign" => s.key \in 1..nonces /\ s.pc = "auth"
  BY ArrivingRequest
<1>3. session \in [Tokens -> Wallets \cup {None}] /\ challenges \in Nat /\ tokens \in 0..MaxTokens
  BY DEF GatewayInv, GatewayTypes
<1>4. QED
  BY <1>1, <1>2, <1>3, RequestStepKeepsInv

LEMMA AuthenticateKeepsInv ==
  ASSUME GatewayInv, NEW r \in Requests, NEW step \in {"rows", "issue", "verify", "tx"},
         req[r].pc = "auth", Authenticate(r, step)
  PROVE  GatewayInv'
<1>1. /\ UNCHANGED <<bound, issuedTo, nonces, rowLock, contracts>>
      /\ UNCHANGED <<session, challenges, tokens>>
      /\ session' \in [Tokens -> Wallets \cup {None}]
      /\ challenges' \in Nat /\ tokens' \in 0..MaxTokens
  BY DEF Authenticate, caches, tables, GatewayInv, GatewayTypes
<1>2. CASE Done(r)
  BY <1>1, <1>2, DoneKeepsInv
<1>3. CASE /\ session[req[r].cookie] # None
           /\ req' = [req EXCEPT ![r].wallet = session[req[r].cookie], ![r].cookie = None,
                                 ![r].pc = step]
  <2> DEFINE s == [req[r] EXCEPT !.wallet = session[req[r].cookie], !.cookie = None, !.pc = step]
  <2>1. req[r] \in RequestStates
    BY DEF GatewayInv, GatewayTypes
  <2>2. session[req[r].cookie] \in Wallets
    BY <1>3 DEF GatewayInv, GatewayTypes
  <2>3. s \in RequestStates /\ s.kind = req[r].kind /\ s.key = req[r].key
        /\ s.wallet \in Wallets /\ s.pc = step
    BY <2>1, <2>2 DEF RequestStates, Steps
  <2>4. req' = [req EXCEPT ![r] = s]
    BY <1>3, <2>1
  <2>5. s.kind = "sign" => s.key \in 1..nonces
    BY <2>3 DEF GatewayInv, SigningInv
  <2> HIDE DEF s
  <2>6. QED
    BY <1>1, <2>3, <2>4, <2>5, RequestStepKeepsInv
<1>4. QED
  BY <1>2, <1>3 DEF Authenticate

\* The steps of handlers that are no signing and issue no nonce.
LEMMA OtherHandlersKeepInv ==
  ASSUME GatewayInv, GatewayAssumption, NEW r \in Requests,
         \/ ReadRows(r) \/ StoreChallenge(r) \/ GetNonce(r) \/ BurnNonce(r) \/ UpsertUser(r)
         \/ StoreSession(r) \/ Logout(r) \/ CheckTx(r) \/ CreateTicket(r)
  PROVE  GatewayInv'
<1>1. /\ UNCHANGED <<bound, issuedTo, nonces, rowLock, contracts>>
  BY DEF ReadRows, StoreChallenge, GetNonce, BurnNonce, UpsertUser, StoreSession, Logout, CheckTx,
         CreateTicket, caches, tables
<1>2. challenges' \in Nat /\ tokens' \in 0..MaxTokens
  BY GatewayAssumption
  DEF ReadRows, StoreChallenge, GetNonce, BurnNonce, UpsertUser, StoreSession, Logout, CheckTx,
      CreateTicket, caches, tables, GatewayInv, GatewayTypes
<1>3. session' \in [Tokens -> Wallets \cup {None}]
  <2>1. CASE StoreSession(r)
    <3>1. [session EXCEPT ![tokens + 1] = req[r].wallet] \in [Tokens -> Wallets \cup {None}]
      BY DEF GatewayInv, GatewayTypes, RequestStates
    <3>2. QED
      BY <2>1, <3>1 DEF StoreSession, Redis, GatewayInv, GatewayTypes
  <2>2. CASE Logout(r)
    BY <2>2 DEF Logout, Redis, GatewayInv, GatewayTypes
  <2>3. CASE UNCHANGED session
    BY <2>3 DEF GatewayInv, GatewayTypes
  <2>4. QED
    BY <2>1, <2>2, <2>3
    DEF ReadRows, StoreChallenge, GetNonce, BurnNonce, UpsertUser, CheckTx, CreateTicket, caches
<1>4. \/ Done(r)
      \/ /\ req[r].kind \in {"login", "deposit"}
         /\ \E step \in {"reject", "burn", "upsert", "session", "ticket"} : Goto(r, step)
  BY Zenon DEF ReadRows, StoreChallenge, GetNonce, BurnNonce, UpsertUser, StoreSession, Logout,
               CheckTx, CreateTicket, At
<1>5. CASE Done(r)
  BY <1>1, <1>2, <1>3, <1>5, DoneKeepsInv
<1>6. CASE /\ req[r].kind \in {"login", "deposit"}
           /\ \E step \in {"reject", "burn", "upsert", "session", "ticket"} : Goto(r, step)
  <2>1. PICK step \in {"reject", "burn", "upsert", "session", "ticket"} : Goto(r, step)
    BY <1>6
  <2>2. step \in Steps \ {"auth"} /\ req[r].kind # "sign"
    BY <1>6 DEF Steps
  <2>3. QED
    BY <1>1, <1>2, <1>3, <2>1, <2>2, GotoKeepsInv
<1>7. QED
  BY <1>4, <1>5, <1>6

\* A nonce that was just issued is in nobody's hand and in no contract.
LEMMA IssueNonceKeepsInv ==
  ASSUME GatewayInv, GatewayAssumption, NEW r \in Requests, IssueNonce(r)
  PROVE  GatewayInv'
<1> DEFINE n == nonces + 1
<1>1. /\ n \in Nonces /\ nonces' = n /\ n \notin 1..nonces
      /\ req[r].wallet \in Wallets \cup {None}
      /\ UNCHANGED <<session, challenges, tokens, rowLock, contracts>>
  BY GatewayAssumption DEF IssueNonce, GatewayInv, GatewayTypes, RequestStates, Nonces, tables
<1>2. /\ issuedTo' = [issuedTo EXCEPT ![n] = req[r].wallet]
      /\ bound' = bound \/ bound' = [bound EXCEPT ![n] = req[r].wallet]
      /\ req' = [req EXCEPT ![r] = Free]
  BY DEF IssueNonce, Redis, Done
<1>3. GatewayTypes'
  <2>1. MaxNonces \in Nat
    BY GatewayAssumption
  <2>2. /\ bound' \in [Nonces -> Wallets \cup {None}]
        /\ issuedTo' \in [Nonces -> Wallets \cup {None}]
    BY <1>1, <1>2 DEF GatewayInv, GatewayTypes
  <2>3. /\ req' \in [Requests -> RequestStates]
        /\ \A v \in Requests : req'[v].pc = "auth" => req'[v].cookie \in Tokens
    BY <1>2, FreeIsAState DEF GatewayInv, GatewayTypes
  <2>4. QED
    BY <1>1, <2>1, <2>2, <2>3 DEF GatewayInv, GatewayTypes, Nonces
<1>4. BoundInv'
  BY <1>1, <1>2 DEF GatewayInv, GatewayTypes, BoundInv, Nonces
<1>5. \A k \in 1..nonces : k \in 1..nonces' /\ issuedTo'[k] = issuedTo[k]
  BY <1>1, <1>2 DEF GatewayInv, GatewayTypes, Nonces
<1>6. SigningInv'
  BY <1>1, <1>2, <1>5, FreeIsAState DEF GatewayInv, GatewayTypes, SigningInv
<1>7. ContractsInv'
  BY <1>1, <1>5 DEF GatewayInv, ContractsInv, OneContractPerNonce
<1>8. QED
  BY <1>3, <1>4, <1>6, <1>7 DEF GatewayInv

-----------------------------------------------------------------------------
(* The steps of a signing.                                                 *)

LEMMA VerifySignKeepsInv ==
  ASSUME GatewayInv, GatewayAssumption, NEW r \in Requests, VerifySign(r)
  PROVE  GatewayInv'
<1>1. /\ UNCHANGED <<bound, issuedTo, nonces, rowLock, contracts, session, challenges, tokens>>
      /\ req[r] \in RequestStates /\ req[r].kind = "sign" /\ req[r].pc = "verify"
      /\ req[r].key \in 1..nonces /\ req[r].wallet \in Wallets
      /\ session \in [Tokens -> Wallets \cup {None}]
      /\ challenges \in Nat /\ tokens \in 0..MaxTokens
  BY DEF VerifySign, At, caches, tables, GatewayInv, GatewayTypes, SigningInv
<1>2. CASE Done(r)
  BY <1>1, <1>2, DoneKeepsInv
<1>3. CASE /\ bound[req[r].key] = req[r].wallet
           /\ req' = [req EXCEPT ![r].pc = "user", ![r].signer = None]
  <2> DEFINE s == [req[r] EXCEPT !.pc = "user", !.signer = None]
  <2>1. /\ s \in RequestStates /\ s.pc = "user" /\ s.kind = "sign"
        /\ s.key = req[r].key /\ s.wallet = req[r].wallet
    BY <1>1 DEF RequestStates, Steps
  <2>2. req' = [req EXCEPT ![r] = s]
    BY <1>1, <1>3
  <2>3. issuedTo[req[r].key] = req[r].wallet
    BY <1>1, <1>3, GatewayAssumption DEF GatewayInv, GatewayTypes, BoundInv, Nonces
  <2> HIDE DEF s
  <2>4. QED
    BY <1>1, <2>1, <2>2, <2>3, RequestStepKeepsInv
<1>4. QED
  BY <1>2, <1>3 DEF VerifySign

LEMMA FindUserKeepsInv ==
  ASSUME GatewayInv, NEW r \in Requests, FindUser(r)
  PROVE  GatewayInv'
<1>1. /\ UNCHANGED <<bound, issuedTo, nonces, rowLock, contracts, session, challenges, tokens>>
      /\ req[r].kind = "sign" /\ req[r].pc = "user"
      /\ session \in [Tokens -> Wallets \cup {None}]
      /\ challenges \in Nat /\ tokens \in 0..MaxTokens
      /\ issuedTo[req[r].key] = req[r].wallet
  BY DEF FindUser, At, caches, tables, GatewayInv, GatewayTypes, SigningInv
<1>2. CASE Done(r)
  BY <1>1, <1>2, DoneKeepsInv
<1>3. CASE Goto(r, "lock")
  <2>1. "lock" \in Steps \ {"auth"}
    BY DEF Steps
  <2>2. QED
    BY <1>1, <1>3, <2>1, SignGoesOn
<1>4. QED
  BY <1>2, <1>3 DEF FindUser

\* Only a row that nobody holds is taken, so no other signing loses its lock.
LEMMA LockBalanceKeepsInv ==
  ASSUME GatewayInv, GatewayAssumption, NEW r \in Requests, LockBalance(r)
  PROVE  GatewayInv'
<1>1. /\ UNCHANGED <<bound, issuedTo, nonces, contracts, session, challenges, tokens>>
      /\ req[r] \in RequestStates /\ req[r].kind = "sign" /\ req[r].pc = "lock"
      /\ req[r].key \in 1..nonces /\ req[r].wallet \in Wallets
      /\ issuedTo[req[r].key] = req[r].wallet
      /\ session \in [Tokens -> Wallets \cup {None}]
      /\ challenges \in Nat /\ tokens \in 0..MaxTokens
  BY DEF LockBalance, At, caches, GatewayInv, GatewayTypes, SigningInv
<1>2. CASE Done(r) /\ UNCHANGED rowLock
  BY <1>1, <1>2, DoneKeepsInv
<1>3. CASE /\ rowLock[req[r].wallet] = None
           /\ rowLock' = [rowLock EXCEPT ![req[r].wallet] = r]
           /\ Goto(r, "burn")
  <2> DEFINE s == [req[r] EXCEPT !.pc = "burn"]
  <2>1. /\ s \in RequestStates /\ s.pc = "burn" /\ s.kind = "sign"
        /\ s.key = req[r].key /\ s.wallet = req[r].wallet
    BY <1>1 DEF RequestStates, Steps
  <2>2. req' = [req EXCEPT ![r] = s]
    BY <1>3 DEF Goto
  <2> HIDE DEF s
  <2>3. \A v \in Requests \ {r} :
          /\ req'[v] = req[v]
          /\ \A w \in Wallets : rowLock[w] = v => rowLock'[w] = v
    BY <1>1, <1>3, <2>2, GatewayAssumption DEF GatewayInv, GatewayTypes
  <2>4. /\ req'[r] = s /\ rowLock'[req[r].wallet] = r
        /\ req' \in [Requests -> RequestStates]
        /\ rowLock' \in [Wallets -> Requests \cup {None}]
    BY <1>1, <1>3, <2>1, <2>2 DEF GatewayInv, GatewayTypes
  <2>5. GatewayTypes'
    BY <1>1, <2>1, <2>3, <2>4 DEF GatewayInv, GatewayTypes
  <2>6. SigningInv'
    BY <1>1, <2>1, <2>3, <2>4 DEF GatewayInv, SigningInv
  <2>7. BoundInv' /\ ContractsInv'
    BY <1>1 DEF GatewayInv, BoundInv, ContractsInv, OneContractPerNonce
  <2>8. QED
    BY <2>5, <2>6, <2>7 DEF GatewayInv
<1>4. QED
  BY <1>2, <1>3 DEF LockBalance

\* What the steps after the lock have in common.
LEMMA HoldsTheRow ==
  ASSUME GatewayInv, NEW r \in Requests, req[r].kind = "sign",
         req[r].pc \in {"burn", "create", "commit"}
  PROVE  /\ req[r] \in RequestStates /\ req[r].key \in 1..nonces /\ req[r].wallet \in Wallets
         /\ issuedTo[req[r].key] = req[r].wallet
         /\ rowLock[req[r].wallet] = r
         /\ session \in [Tokens -> Wallets \cup {None}]
         /\ challenges \in Nat /\ tokens \in 0..MaxTokens
  BY DEF GatewayInv, GatewayTypes, SigningInv

LEMMA BurnSignNonceKeepsInv ==
  ASSUME GatewayInv, GatewayAssumption, NEW r \in Requests, BurnSignNonce(r)
  PROVE  GatewayInv'
<1>1. /\ UNCHANGED <<issuedTo, nonces, rowLock, contracts, session, challenges, tokens>>
      /\ req[r].kind = "sign" /\ req[r].pc = "burn"
      /\ bound' = bound \/ bound' = [bound EXCEPT ![req[r].key] = None]
      /\ req' = [req EXCEPT ![r] = [req[r] EXCEPT !.pc = "create"]]
  BY DEF BurnSignNonce, Redis, Goto, At, tables
<1> DEFINE s == [req[r] EXCEPT !.pc = "create"]
<1>2. /\ s \in RequestStates /\ s.pc = "create" /\ s.kind = "sign"
      /\ s.key = req[r].key /\ s.wallet = req[r].wallet
  BY <1>1, HoldsTheRow DEF RequestStates, Steps
<1>3. req' = [req EXCEPT ![r] = s]
  BY <1>1
<1> HIDE DEF s
<1>4. GatewayTypes'
  BY <1>1, <1>2, <1>3 DEF GatewayInv, GatewayTypes
<1>5. BoundInv'
  BY <1>1, HoldsTheRow DEF GatewayInv, GatewayTypes, BoundInv
<1>6. SigningInv'
  BY <1>1, <1>2, <1>3, HoldsTheRow DEF GatewayInv, GatewayTypes, SigningInv
<1>7. ContractsInv'
  BY <1>1 DEF GatewayInv, ContractsInv, OneContractPerNonce
<1>8. QED
  BY <1>4, <1>5, <1>6, <1>7 DEF GatewayInv

\* The answer to a signing lets go of its row and of no other.
LEMMA RollbackKeepsInv ==
  ASSUME GatewayInv, GatewayAssumption, NEW r \in Requests, Rollback(r), Done(r),
         UNCHANGED <<bound, issuedTo, nonces, session, challenges, tokens>>,
         ContractsInv',
         \A v \in Requests \ {r} : req[v].kind = "sign" /\ req[v].pc = "commit" =>
            \A c \in contracts' : c.nonce # req[v].key
  PROVE  GatewayInv'
<1>1. /\ req'[r] = Free
      /\ \A v \in Requests \ {r} : req'[v] = req[v]
      /\ req' \in [Requests -> RequestStates]
  BY FreeIsAState DEF Done, GatewayInv, GatewayTypes
<1>2. /\ rowLock' \in [Wallets -> Requests \cup {None}]
      /\ \A v \in Requests \ {r}, w \in Wallets : rowLock[w] = v => rowLock'[w] = v
  BY DEF Rollback, GatewayInv, GatewayTypes
<1>3. GatewayTypes'
  BY <1>1, <1>2, FreeIsAState DEF GatewayInv, GatewayTypes
<1>4. BoundInv'
  BY DEF GatewayInv, BoundInv
<1>5. SigningInv'
  BY <1>1, <1>2, FreeIsAState DEF GatewayInv, SigningInv
<1>6. QED
  BY <1>3, <1>4, <1>5 DEF GatewayInv

LEMMA CreateContractKeepsInv ==
  ASSUME GatewayInv, GatewayAssumption, NEW r \in Requests, CreateContract(r)
  PROVE  GatewayInv'
<1>1. /\ UNCHANGED <<bound, issuedTo, nonces, contracts, session, challenges, tokens>>
      /\ req[r].kind = "sign" /\ req[r].pc = "create"
  BY DEF CreateContract, At, caches
<1>2. CASE /\ \A c \in contracts : c.nonce # req[r].key
           /\ Goto(r, "commit") /\ UNCHANGED rowLock
  <2>1. "commit" \in Steps \ {"auth"}
    BY DEF Steps
  <2>2. QED
    BY <1>1, <1>2, <2>1, HoldsTheRow, SignGoesOn
<1>3. CASE Rollback(r) /\ Done(r)
  <2>1. ContractsInv'
    BY <1>1 DEF GatewayInv, ContractsInv, OneContractPerNonce
  <2>2. \A v \in Requests \ {r} : req[v].kind = "sign" /\ req[v].pc = "commit" =>
          \A c \in contracts' : c.nonce # req[v].key
    BY <1>1 DEF GatewayInv, SigningInv
  <2>3. QED
    BY <1>1, <1>3, <2>1, <2>2, RollbackKeepsInv
<1>4. QED
  BY <1>2, <1>3 DEF CreateContract

\* Two signings that commit hold two rows, so their nonces differ.
LEMMA CommitKeepsInv ==
  ASSUME GatewayInv, GatewayAssumption, NEW r \in Requests, Commit(r)
  PROVE  GatewayInv'
<1>1. /\ UNCHANGED <<bound, issuedTo, nonces, session, challenges, tokens>>
      /\ req[r].kind = "sign" /\ req[r].pc = "commit"
      /\ Rollback(r) /\ Done(r)
      /\ contracts' = contracts \/ SignEffect(r)
  BY DEF Commit, At, caches
<1>2. PICK new :
        /\ contracts' = contracts \/ contracts' = contracts \cup {new}
        /\ new.nonce = req[r].key /\ new.wallet = req[r].wallet
  <2> DEFINE new == [by |-> r, nonce |-> req[r].key, wallet |-> req[r].wallet,
                     fund |-> req[r].amount]
  <2>1. new.nonce = req[r].key /\ new.wallet = req[r].wallet
    OBVIOUS
  <2>2. contracts' = contracts \/ contracts' = contracts \cup {new}
    BY <1>1 DEF SignEffect
  <2> HIDE DEF new
  <2>3. QED
    BY <2>1, <2>2
<1>3. \A c \in contracts : c.nonce # req[r].key
  BY <1>1 DEF GatewayInv, SigningInv
<1>4. ContractsInv'
  BY <1>1, <1>2, <1>3, HoldsTheRow DEF GatewayInv, ContractsInv, OneContractPerNonce
<1>5. \A v \in Requests \ {r} : req[v].kind = "sign" /\ req[v].pc = "commit" =>
        \A c \in contracts' : c.nonce # req[v].key
  <2>1. SUFFICES ASSUME NEW v \in Requests \ {r}, req[v].kind = "sign", req[v].pc = "commit"
                 PROVE  \A c \in contracts' : c.nonce # req[v].key
    OBVIOUS
  <2>2. req[v].key # req[r].key
    BY <1>1, <2>1, HoldsTheRow
  <2>3. \A c \in contracts : c.nonce # req[v].key
    BY <2>1 DEF GatewayInv, SigningInv
  <2>4. QED
    BY <1>2, <2>2, <2>3
<1>6. QED
  BY <1>1, <1>4, <1>5, RollbackKeepsInv

-----------------------------------------------------------------------------
LEMMA CrashKeepsInv ==
  ASSUME GatewayInv, Crash
  PROVE  GatewayInv'
<1>1. /\ UNCHANGED <<bound, issuedTo, nonces, contracts, session, challenges, tokens>>
      /\ req' = [r \in Requests |-> Free]
      /\ rowLock' = [w \in Wallets |-> None]
  BY DEF Crash, caches
<1>2. GatewayTypes'
  BY <1>1, FreeIsAState DEF GatewayInv, GatewayTypes
<1>3. SigningInv'
  BY <1>1, FreeIsAState DEF SigningInv
<1>4. BoundInv' /\ ContractsInv'
  BY <1>1 DEF GatewayInv, BoundInv, ContractsInv, OneContractPerNonce
<1>5. QED
  BY <1>2, <1>3, <1>4 DEF GatewayInv

\* Expiry, and the deposit worker, leave requests and contracts alone.
LEMMA EnvironmentKeepsInv ==
  ASSUME GatewayInv, Expire \/ \E x \in Txs : CreditDeposit(x)
  PROVE  GatewayInv'
<1>1. /\ UNCHANGED <<issuedTo, nonces, rowLock, contracts, req, challenges, tokens>>
      /\ \/ UNCHANGED bound
         \/ \E n \in Nonces : bound' = [bound EXCEPT ![n] = None]
      /\ \/ UNCHANGED session
         \/ \E t \in Tokens : session' = [session EXCEPT ![t] = None]
  BY DEF Expire, CreditDeposit, tables, caches
<1>2. GatewayTypes'
  BY <1>1 DEF GatewayInv, GatewayTypes
<1>3. BoundInv'
  BY <1>1 DEF GatewayInv, GatewayTypes, BoundInv
<1>4. SigningInv' /\ ContractsInv'
  BY <1>1 DEF GatewayInv, SigningInv, ContractsInv, OneContractPerNonce
<1>5. QED
  BY <1>2, <1>3, <1>4 DEF GatewayInv

LEMMA InitEstablishesInv ==
  ASSUME GatewayAssumption, Init
  PROVE  GatewayInv
<1>1. GatewayTypes
  BY GatewayAssumption, FreeIsAState DEF Init, GatewayTypes
<1>2. BoundInv /\ ContractsInv
  BY DEF Init, BoundInv, ContractsInv, OneContractPerNonce
<1>3. SigningInv
  BY FreeIsAState DEF Init, SigningInv
<1>4. QED
  BY <1>1, <1>2, <1>3 DEF GatewayInv

LEMMA StepKeepsInv ==
  ASSUME GatewayAssumption, GatewayInv, [Next]_vars
  PROVE  GatewayInv'
<1>1. CASE UNCHANGED vars
  <2>1. UNCHANGED <<bound, issuedTo, nonces, rowLock, contracts, req, session, challenges, tokens>>
    BY <1>1 DEF vars, caches, tables
  <2>2. QED
    BY <2>1 DEF GatewayInv, GatewayTypes, BoundInv, SigningInv, ContractsInv, OneContractPerNonce
<1>2. ASSUME NEW r \in Requests, Arrive(r)
      PROVE  GatewayInv'
  BY <1>2, ArriveKeepsInv
<1>3. ASSUME NEW r \in Requests, Handler(r)
      PROVE  GatewayInv'
  <2>1. CASE \E step \in {"rows", "issue", "verify", "tx"} :
               req[r].pc = "auth" /\ Authenticate(r, step)
    BY <2>1, AuthenticateKeepsInv
  <2>2. CASE \/ ReadRows(r) \/ StoreChallenge(r) \/ GetNonce(r) \/ BurnNonce(r) \/ UpsertUser(r)
             \/ StoreSession(r) \/ Logout(r) \/ CheckTx(r) \/ CreateTicket(r)
    BY <2>2, OtherHandlersKeepInv
  <2>3. CASE IssueNonce(r)
    BY <2>3, IssueNonceKeepsInv
  <2>4. CASE VerifySign(r) \/ FindUser(r) \/ LockBalance(r)
    BY <2>4, VerifySignKeepsInv, FindUserKeepsInv, LockBalanceKeepsInv
  <2>5. CASE BurnSignNonce(r) \/ CreateContract(r) \/ Commit(r)
    BY <2>5, BurnSignNonceKeepsInv, CreateContractKeepsInv, CommitKeepsInv
  <2>6. QED
    BY <1>3, <2>1, <2>2, <2>3, <2>4, <2>5 DEF Handler, Authenticate
<1>4. CASE Expire \/ Crash \/ \E x \in Txs : CreditDeposit(x)
  BY <1>4, EnvironmentKeepsInv, CrashKeepsInv
<1>5. QED
  BY <1>1, <1>2, <1>3, <1>4 DEF Next

\* A nonce that get_nonce issued makes at most one contract, of the wallet it
\* was issued to, for any number of requests, failures and crashes
\* (handlers/contracts.rs).
THEOREM GatewayOneContractPerNonce == Spec => []OneContractPerNonce
<1>1. Init => GatewayInv
  BY GatewayAssumption, InitEstablishesInv
<1>2. GatewayInv /\ [Next]_vars => GatewayInv'
  BY GatewayAssumption, StepKeepsInv
<1>3. GatewayInv => OneContractPerNonce
  BY DEF GatewayInv, ContractsInv
<1>4. QED
  BY <1>1, <1>2, <1>3, PTL DEF Spec

\* From the lock on the balance to the commit a signing holds its user's row,
\* whoever else asks for it: the transaction of handlers/contracts.rs.
SigningHoldsRow ==
  \A r \in Requests :
    req[r].kind = "sign" /\ req[r].pc \in {"burn", "create", "commit"} => rowLock[req[r].wallet] = r

THEOREM GatewaySigningHoldsRow == Spec => []SigningHoldsRow
<1>1. Init => GatewayInv
  BY GatewayAssumption, InitEstablishesInv
<1>2. GatewayInv /\ [Next]_vars => GatewayInv'
  BY GatewayAssumption, StepKeepsInv
<1>3. GatewayInv => SigningHoldsRow
  BY DEF GatewayInv, SigningInv, SigningHoldsRow
<1>4. QED
  BY <1>1, <1>2, <1>3, PTL DEF Spec

-----------------------------------------------------------------------------
(* The money of the users.  A balance that LockBalance found sufficient is *)
(* still so at the commit, since whoever lowers it needs the row; and a    *)
(* user without a row has no contract and no credited deposit.             *)

UserRows == [balance : Int, locked : Int]

RowTypes ==
  /\ user \in [Wallets -> UserRows \cup {None}]
  /\ IsFiniteSet(contracts) /\ \A c \in contracts : c.fund \in Nat
  /\ credited \subseteq Txs

NoRowNoMoney ==
  \A w \in Wallets : user[w] = None => ContractsOf(w) = {} /\ CreditedOf(w) = {}

\* What a signing knows of the row it is going to change.
SigningMoney ==
  \A r \in Requests : req[r].kind = "sign" =>
    LET q == req[r] IN
    /\ q.pc \in {"lock", "burn", "create", "commit"} => user[q.wallet] # None
    /\ q.pc \in {"burn", "create", "commit"} => user[q.wallet].balance >= q.amount

MoneyInv == RowTypes /\ NoRowNoMoney /\ SigningMoney /\ FundsAccounted

\* A row that is there has columns.
LEMMA RowHasColumns ==
  ASSUME RowTypes, NEW w \in Wallets
  PROVE  /\ user[w] # None => user[w] \in UserRows
         /\ user[w] \in UserRows => user[w].balance \in Int /\ user[w].locked \in Int
  BY DEF RowTypes, UserRows

LEMMA RowIsNotNone ==
  ASSUME GatewayAssumption, NEW row \in UserRows
  PROVE  row # None
  BY DEF GatewayAssumption, UserRows

\* A step that leaves the tables alone, after which every signing has no claim
\* on a row, or the claim it had.
LEMMA QuietStepKeepsMoney ==
  ASSUME MoneyInv, UNCHANGED <<user, contracts, credited>>,
         \A v \in Requests : \/ req'[v] = req[v]
                             \/ req'[v].kind # "sign"
                             \/ req'[v].pc \notin {"lock", "burn", "create", "commit"}
  PROVE  MoneyInv'
<1>1. RowTypes' /\ NoRowNoMoney'
  BY DEF MoneyInv, RowTypes, NoRowNoMoney, ContractsOf, CreditedOf
<1>2. SigningMoney'
  BY DEF MoneyInv, SigningMoney
<1>3. FundsAccounted'
  BY DEF MoneyInv, FundsAccounted, ContractsOf, CreditedOf, FundColumn
<1>4. QED
  BY <1>1, <1>2, <1>3 DEF MoneyInv

\* A signing takes the next step with what it then knows.
LEMMA SigningStepKeepsMoney ==
  ASSUME GatewayInv, MoneyInv, UNCHANGED <<user, contracts, credited>>,
         NEW r \in Requests, NEW step \in Steps, Goto(r, step),
         step \in {"lock", "burn", "create", "commit"} => user[req[r].wallet] # None,
         step \in {"burn", "create", "commit"} => user[req[r].wallet].balance >= req[r].amount
  PROVE  MoneyInv'
<1>1. RowTypes' /\ NoRowNoMoney'
  BY DEF MoneyInv, RowTypes, NoRowNoMoney, ContractsOf, CreditedOf
<1>2. FundsAccounted'
  BY DEF MoneyInv, FundsAccounted, ContractsOf, CreditedOf, FundColumn
<1>3. \A v \in Requests \ {r} : req'[v] = req[v]
  BY DEF Goto, GatewayInv, GatewayTypes
<1>4. /\ req'[r].pc = step /\ req'[r].wallet = req[r].wallet /\ req'[r].amount = req[r].amount
  BY DEF Goto, GatewayInv, GatewayTypes, RequestStates
<1>5. SigningMoney'
  BY <1>3, <1>4 DEF MoneyInv, SigningMoney
<1>6. QED
  BY <1>1, <1>2, <1>5 DEF MoneyInv

LEMMA DoneKeepsMoney ==
  ASSUME GatewayInv, MoneyInv, NEW r \in Requests, Done(r), UNCHANGED <<user, contracts, credited>>
  PROVE  MoneyInv'
<1>1. req'[r].kind # "sign" /\ \A v \in Requests \ {r} : req'[v] = req[v]
  BY FreeIsAState DEF Done, GatewayInv, GatewayTypes
<1>2. QED
  BY <1>1, QuietStepKeepsMoney

LEMMA ArriveKeepsMoney ==
  ASSUME GatewayInv, MoneyInv, GatewayAssumption, NEW r \in Requests, Arrive(r)
  PROVE  MoneyInv'
<1>1. UNCHANGED <<user, contracts, credited>>
  BY DEF Arrive, tables, deposits
<1>2. PICK s \in RequestStates :
        /\ req' = [req EXCEPT ![r] = s]
        /\ s.kind = "sign" => s.pc = "auth"
  BY ArrivingRequest
<1>3. /\ \A v \in Requests \ {r} : req'[v] = req[v]
      /\ req'[r] = s
  BY <1>2 DEF GatewayInv, GatewayTypes
<1>4. QED
  BY <1>1, <1>2, <1>3, QuietStepKeepsMoney

LEMMA AuthenticateKeepsMoney ==
  ASSUME GatewayInv, MoneyInv, NEW r \in Requests, NEW step \in {"rows", "issue", "verify", "tx"},
         Authenticate(r, step)
  PROVE  MoneyInv'
<1>1. UNCHANGED <<user, contracts, credited>>
  BY DEF Authenticate, tables, deposits
<1>2. CASE Done(r)
  BY <1>1, <1>2, DoneKeepsMoney
<1>3. CASE req' = [req EXCEPT ![r].wallet = session[req[r].cookie], ![r].cookie = None,
                              ![r].pc = step]
  <2>1. req[r] \in RequestStates /\ \A v \in Requests \ {r} : req'[v] = req[v]
    BY <1>3 DEF GatewayInv, GatewayTypes
  <2>2. req'[r].pc = step
    BY <1>3, <2>1 DEF GatewayInv, GatewayTypes, RequestStates
  <2>3. QED
    BY <1>1, <2>1, <2>2, QuietStepKeepsMoney
<1>4. QED
  BY <1>2, <1>3 DEF Authenticate

\* The steps that leave the rows alone and are no signing's.
LEMMA OtherHandlersKeepMoney ==
  ASSUME GatewayInv, MoneyInv, NEW r \in Requests,
         \/ ReadRows(r) \/ StoreChallenge(r) \/ GetNonce(r) \/ BurnNonce(r)
         \/ StoreSession(r) \/ Logout(r) \/ IssueNonce(r) \/ CheckTx(r) \/ CreateTicket(r)
  PROVE  MoneyInv'
<1>1. UNCHANGED <<user, contracts, credited>>
  BY DEF ReadRows, StoreChallenge, GetNonce, BurnNonce, StoreSession, Logout, IssueNonce, CheckTx,
         CreateTicket, tables, deposits
<1>2. \/ Done(r)
      \/ /\ req[r].kind \in {"login", "deposit"}
         /\ \E step \in {"reject", "burn", "upsert", "ticket"} : Goto(r, step)
  BY Zenon DEF ReadRows, StoreChallenge, GetNonce, BurnNonce, StoreSession, Logout, IssueNonce,
               CheckTx, CreateTicket, At
<1>3. CASE Done(r)
  BY <1>1, <1>3, DoneKeepsMoney
<1>4. CASE /\ req[r].kind \in {"login", "deposit"}
           /\ \E step \in {"reject", "burn", "upsert", "ticket"} : Goto(r, step)
  <2>1. req'[r].kind # "sign" /\ \A v \in Requests \ {r} : req'[v] = req[v]
    BY <1>4 DEF Goto, GatewayInv, GatewayTypes, RequestStates
  <2>2. QED
    BY <1>1, <2>1, QuietStepKeepsMoney
<1>5. QED
  BY <1>2, <1>3, <1>4

-----------------------------------------------------------------------------
\* The steps of a signing before its commit.
LEMMA SigningKeepsMoney ==
  ASSUME GatewayInv, MoneyInv, NEW r \in Requests,
         VerifySign(r) \/ FindUser(r) \/ LockBalance(r) \/ BurnSignNonce(r) \/ CreateContract(r)
  PROVE  MoneyInv'
<1>1. UNCHANGED <<user, contracts, credited>> /\ req[r].kind = "sign"
  BY DEF VerifySign, FindUser, LockBalance, BurnSignNonce, CreateContract, At, tables, deposits
<1>2. CASE Done(r)
  BY <1>1, <1>2, DoneKeepsMoney
<1>3. CASE req' = [req EXCEPT ![r].pc = "user", ![r].signer = None]
  <2>1. req[r] \in RequestStates /\ \A v \in Requests \ {r} : req'[v] = req[v]
    BY <1>3 DEF GatewayInv, GatewayTypes
  <2>2. req'[r].pc = "user"
    BY <1>3, <2>1 DEF GatewayInv, GatewayTypes, RequestStates
  <2>3. QED
    BY <1>1, <2>1, <2>2, QuietStepKeepsMoney
<1>4. CASE Goto(r, "lock") /\ user[req[r].wallet] # None
  BY <1>1, <1>4, SigningStepKeepsMoney DEF Steps
<1>5. CASE Goto(r, "burn") /\ req[r].pc = "lock" /\ user[req[r].wallet].balance >= req[r].amount
  <2>1. user[req[r].wallet] # None
    BY <1>1, <1>5 DEF MoneyInv, SigningMoney
  <2>2. QED
    BY <1>1, <1>5, <2>1, SigningStepKeepsMoney DEF Steps
<1>6. ASSUME NEW step \in {"create", "commit"}, Goto(r, step), req[r].pc \in {"burn", "create"}
      PROVE  MoneyInv'
  <2>1. user[req[r].wallet] # None /\ user[req[r].wallet].balance >= req[r].amount
    BY <1>1, <1>6 DEF MoneyInv, SigningMoney
  <2>2. QED
    BY <1>1, <1>6, <2>1, SigningStepKeepsMoney DEF Steps
<1>7. CASE VerifySign(r) \/ FindUser(r)
  BY <1>2, <1>3, <1>4, <1>7, Zenon DEF VerifySign, FindUser
<1>8. CASE LockBalance(r)
  BY <1>2, <1>5, <1>8, Zenon DEF LockBalance, At
<1>9. CASE BurnSignNonce(r) \/ CreateContract(r)
  BY <1>2, <1>6, <1>9, Zenon DEF BurnSignNonce, CreateContract, At
<1>10. QED
  BY <1>7, <1>8, <1>9

\* upsert makes an empty row for a user who had none, and so no money.
LEMMA UpsertUserKeepsMoney ==
  ASSUME GatewayInv, MoneyInv, GatewayAssumption, NEW r \in Requests, UpsertUser(r)
  PROVE  MoneyInv'
<1> DEFINE u == req[r].wallet
           none == [balance |-> 0, locked |-> 0]
<1>1. UNCHANGED <<contracts, credited>> /\ req[r].kind = "login"
  BY DEF UpsertUser, At, deposits
<1>2. CASE UNCHANGED user
  <2>1. req'[r].kind # "sign" /\ \A v \in Requests \ {r} : req'[v] = req[v]
    BY <1>1, FreeIsAState DEF UpsertUser, Goto, Done, GatewayInv, GatewayTypes, RequestStates
  <2>2. QED
    BY <1>1, <1>2, <2>1, QuietStepKeepsMoney
<1>3. CASE /\ user' = [user EXCEPT ![u] = IF @ = None THEN none ELSE @]
           /\ Goto(r, "session")
  <2>1. none \in UserRows /\ none # None /\ none.balance = 0 /\ none.locked = 0
    BY RowIsNotNone DEF UserRows
  <2> HIDE DEF none
  <2>2. /\ user' \in [Wallets -> UserRows \cup {None}]
        /\ \A w \in Wallets : \/ user'[w] = user[w]
                              \/ user[w] = None /\ user'[w] = none
    BY <1>3, <2>1 DEF MoneyInv, RowTypes
  <2>3. RowTypes' /\ NoRowNoMoney'
    BY <1>1, <2>1, <2>2 DEF MoneyInv, RowTypes, NoRowNoMoney, ContractsOf, CreditedOf
  <2>4. /\ req'[r].kind # "sign"
        /\ \A v \in Requests \ {r} : req'[v] = req[v]
    BY <1>1, <1>3 DEF Goto, GatewayInv, GatewayTypes, RequestStates
  <2>5. SigningMoney'
    <3>1. SUFFICES ASSUME NEW v \in Requests, req'[v].kind = "sign",
                          req[v].pc \in {"lock", "burn", "create", "commit"}
                   PROVE  user'[req[v].wallet] = user[req[v].wallet]
      BY <2>4 DEF MoneyInv, SigningMoney
    <3>2. v # r /\ req[v].wallet \in Wallets /\ user[req[v].wallet] # None
      BY <2>4, <3>1 DEF GatewayInv, SigningInv, MoneyInv, SigningMoney
    <3>3. QED
      BY <2>2, <3>2
  <2>6. FundsAccounted'
    <3>1. SUFFICES ASSUME NEW w \in Wallets, user'[w] # None
                   PROVE  /\ user'[w].balance >= 0
                          /\ user'[w].locked = SumFunctionOnSet(FundColumn, ContractsOf(w))
                          /\ user'[w].balance + user'[w].locked
                               = SumFunctionOnSet(TxAmount, CreditedOf(w))
      BY <1>1 DEF FundsAccounted, ContractsOf, CreditedOf, FundColumn
    <3>2. CASE user'[w] = user[w]
      BY <3>1, <3>2 DEF MoneyInv, FundsAccounted
    <3>3. CASE user[w] = None /\ user'[w] = none
      BY <2>1, <3>3, SumEmpty DEF MoneyInv, NoRowNoMoney
    <3>4. QED
      BY <2>2, <3>2, <3>3
  <2>7. QED
    BY <2>3, <2>5, <2>6 DEF MoneyInv
<1>4. QED
  BY <1>2, <1>3 DEF UpsertUser

-----------------------------------------------------------------------------
\* lock_balance moves an amount from one column to the other.
LEMMA LockedRow ==
  ASSUME NEW p \in UserRows, NEW a \in Nat
  PROVE  LET row == [p EXCEPT !.balance = @ - a, !.locked = @ + a] IN
         row \in UserRows /\ row.balance = p.balance - a /\ row.locked = p.locked + a
<1> DEFINE less == [p EXCEPT !.balance = @ - a]
           row == [p EXCEPT !.balance = @ - a, !.locked = @ + a]
<1>1. /\ p.balance - a \in Int /\ p.locked + a \in Int
      /\ less \in UserRows /\ less.balance = p.balance - a /\ less.locked = p.locked
  BY DEF UserRows
<1>2. row = [less EXCEPT !.locked = @ + a]
  BY Zenon
<1> HIDE DEF less, row
<1>3. row \in UserRows /\ row.balance = p.balance - a /\ row.locked = p.locked + a
  BY <1>1, <1>2 DEF UserRows
<1>4. QED
  BY <1>3 DEF row

\* The transaction of a signing: what the row loses in one column it gains in
\* the other, and the new contract has it.  Whoever else is past its lock
\* holds another row.
LEMMA CommitKeepsMoney ==
  ASSUME GatewayInv, MoneyInv, GatewayAssumption, NEW r \in Requests, Commit(r)
  PROVE  MoneyInv'
<1> DEFINE u == req[r].wallet
           a == req[r].amount
           new == [by |-> r, nonce |-> req[r].key, wallet |-> u, fund |-> a]
<1>1. /\ UNCHANGED credited
      /\ req[r].kind = "sign" /\ req[r].pc = "commit"
      /\ Done(r) /\ (UNCHANGED <<user, contracts>> \/ SignEffect(r))
  BY DEF Commit, At, deposits
<1>2. CASE UNCHANGED <<user, contracts>>
  BY <1>1, <1>2, DoneKeepsMoney
<1>3. CASE SignEffect(r)
  <2>1. u \in Wallets /\ a \in Nat /\ rowLock[u] = r
    BY <1>1, HoldsTheRow DEF RequestStates
  <2>2. /\ user[u] # None /\ user[u] \in UserRows /\ user[u].balance >= a
        /\ user[u].balance \in Int /\ user[u].locked \in Int
    BY <1>1, <2>1, RowHasColumns DEF MoneyInv, SigningMoney
  <2> DEFINE row == [user[u] EXCEPT !.balance = @ - a, !.locked = @ + a]
  <2>3. row \in UserRows /\ row.balance = user[u].balance - a /\ row.locked = user[u].locked + a
    BY <2>1, <2>2, LockedRow
  <2>4. user' = [user EXCEPT ![u] = row]
    BY <1>3 DEF SignEffect
  <2>5. new.wallet = u /\ new.fund = a /\ new.nonce = req[r].key
    OBVIOUS
  <2>6. contracts' = contracts \cup {new}
    BY <1>3 DEF SignEffect
  <2>7. new \notin contracts
    BY <1>1, <2>5 DEF GatewayInv, SigningInv
  <2> HIDE DEF row, new
  <2>8. row # None
    BY <2>3, RowIsNotNone
  <2>9. /\ user' \in [Wallets -> UserRows \cup {None}]
        /\ user'[u] = row /\ \A w \in Wallets \ {u} : user'[w] = user[w]
    BY <2>1, <2>3, <2>4 DEF MoneyInv, RowTypes
  <2>10. IsFiniteSet(contracts') /\ \A c \in contracts' : c.fund \in Nat
    BY <2>1, <2>5, <2>6, FS_AddElement DEF MoneyInv, RowTypes
  <2>11. RowTypes'
    BY <1>1, <2>9, <2>10 DEF MoneyInv, RowTypes
  <2>12. NoRowNoMoney'
    <3>1. SUFFICES ASSUME NEW w \in Wallets, user'[w] = None
                   PROVE  ContractsOf(w)' = {} /\ CreditedOf(w)' = {}
      BY DEF NoRowNoMoney
    <3>2. w # u /\ user[w] = None
      BY <2>8, <2>9, <3>1
    <3>3. ContractsOf(w)' = ContractsOf(w)
      BY <2>5, <2>6, <3>2 DEF ContractsOf
    <3>4. CreditedOf(w)' = CreditedOf(w)
      BY <1>1 DEF CreditedOf
    <3>5. QED
      BY <3>2, <3>3, <3>4 DEF MoneyInv, NoRowNoMoney
  <2>13. SigningMoney'
    <3>1. req'[r].kind # "sign" /\ \A v \in Requests \ {r} : req'[v] = req[v]
      BY <1>1, FreeIsAState DEF Done, GatewayInv, GatewayTypes
    <3>2. SUFFICES ASSUME NEW v \in Requests \ {r}, req[v].kind = "sign",
                          req[v].pc \in {"lock", "burn", "create", "commit"}
                   PROVE  /\ user'[req[v].wallet] # None
                          /\ req[v].pc # "lock" => user'[req[v].wallet] = user[req[v].wallet]
      BY <3>1 DEF MoneyInv, SigningMoney
    <3>3. req[v].wallet \in Wallets /\ user[req[v].wallet] # None
      BY <3>2 DEF GatewayInv, SigningInv, MoneyInv, SigningMoney
    <3>4. req[v].pc # "lock" => req[v].wallet # u
      BY <2>1, <3>2, HoldsTheRow
    <3>5. QED
      BY <2>8, <2>9, <3>3, <3>4
  <2>14. FundsAccounted'
    <3>1. SUFFICES ASSUME NEW w \in Wallets, user'[w] # None
                   PROVE  /\ user'[w].balance >= 0
                          /\ user'[w].locked = SumFunctionOnSet(FundColumn', ContractsOf(w)')
                          /\ user'[w].balance + user'[w].locked
                               = SumFunctionOnSet(TxAmount, CreditedOf(w))
      BY <1>1 DEF FundsAccounted, CreditedOf
    <3>2. /\ IsFiniteSet(ContractsOf(w)) /\ ContractsOf(w) \subseteq contracts
          /\ \A c \in ContractsOf(w) : FundColumn'[c] = FundColumn[c] /\ FundColumn'[c] \in Int
      BY <2>6, <2>10, FS_Subset DEF MoneyInv, RowTypes, ContractsOf, FundColumn
    <3>3. SumFunctionOnSet(FundColumn', ContractsOf(w)) = SumFunctionOnSet(FundColumn, ContractsOf(w))
      BY <3>2, SumOfEqual
    <3>4. CASE w # u
      <4>1. ContractsOf(w)' = ContractsOf(w)
        BY <2>5, <2>6, <3>4 DEF ContractsOf
      <4>2. QED
        BY <2>9, <3>1, <3>3, <3>4, <4>1 DEF MoneyInv, FundsAccounted
    <3>5. CASE w = u
      <4>1. ContractsOf(w)' = ContractsOf(w) \cup {new} /\ new \notin ContractsOf(w)
        BY <2>5, <2>6, <2>7, <3>5 DEF ContractsOf
      <4>2. FundColumn'[new] = a
        BY <2>5, <2>6 DEF FundColumn
      <4>3. SumFunctionOnSet(FundColumn', ContractsOf(w)')
              = SumFunctionOnSet(FundColumn', ContractsOf(w)) + a
        BY <2>1, <3>2, <4>1, <4>2, SumWith
      <4>4. /\ user[w].balance >= 0
            /\ user[w].locked = SumFunctionOnSet(FundColumn, ContractsOf(w))
            /\ user[w].balance + user[w].locked = SumFunctionOnSet(TxAmount, CreditedOf(w))
        BY <2>2, <3>5 DEF MoneyInv, FundsAccounted
      <4>5. user'[w].balance = user[w].balance - a /\ user'[w].locked = user[w].locked + a
        BY <2>3, <2>9, <3>5
      <4>6. /\ user[w].balance \in Int /\ user[w].locked \in Int /\ user[w].balance >= a
        BY <2>2, <3>5
      <4> HIDE DEF a, u
      <4>7. QED
        BY <2>1, <3>3, <4>3, <4>4, <4>5, <4>6
    <3>6. QED
      BY <3>4, <3>5
  <2>15. QED
    BY <2>11, <2>12, <2>13, <2>14 DEF MoneyInv
<1>4. QED
  BY <1>1, <1>2, <1>3

\* A deposit is credited once, to the row of its sender.
LEMMA CreditDepositKeepsMoney ==
  ASSUME GatewayInv, MoneyInv, GatewayAssumption, NEW x \in Txs, CreditDeposit(x)
  PROVE  MoneyInv'
<1> DEFINE u == TxFrom[x]
           row == [user[u] EXCEPT !.balance = @ + TxAmount[x]]
<1>1. /\ u \in Wallets /\ TxAmount[x] \in Nat /\ x \notin credited
      /\ user[u] # None
      /\ credited' = credited \cup {x} /\ user' = [user EXCEPT ![u] = row]
      /\ UNCHANGED <<contracts, req>>
  BY DEF CreditDeposit, GatewayAssumption
<1>2. user[u] \in UserRows /\ user[u].balance \in Int /\ user[u].locked \in Int
  BY <1>1, RowHasColumns DEF MoneyInv
<1>3. /\ row \in UserRows
      /\ row.balance = user[u].balance + TxAmount[x] /\ row.locked = user[u].locked
  BY <1>1, <1>2 DEF UserRows
<1> HIDE DEF row
<1>4. row # None
  BY <1>3, RowIsNotNone
<1>5. /\ user' \in [Wallets -> UserRows \cup {None}]
      /\ user'[u] = row /\ \A w \in Wallets \ {u} : user'[w] = user[w]
  BY <1>1, <1>3 DEF MoneyInv, RowTypes
<1>6. RowTypes'
  BY <1>1, <1>5 DEF MoneyInv, RowTypes
<1>7. NoRowNoMoney'
  <2>1. \A w \in Wallets \ {u} : ContractsOf(w)' = ContractsOf(w) /\ CreditedOf(w)' = CreditedOf(w)
    BY <1>1 DEF ContractsOf, CreditedOf
  <2>2. QED
    BY <1>4, <1>5, <2>1 DEF MoneyInv, NoRowNoMoney
<1>8. SigningMoney'
  <2>1. SUFFICES ASSUME NEW v \in Requests, req[v].kind = "sign",
                        req[v].pc \in {"lock", "burn", "create", "commit"}
                 PROVE  /\ user'[req[v].wallet] # None
                        /\ req[v].pc # "lock" =>
                             user'[req[v].wallet].balance >= req[v].amount
    BY <1>1 DEF SigningMoney
  <2>2. /\ req[v].wallet \in Wallets /\ user[req[v].wallet] # None
        /\ req[v].amount \in Nat
        /\ req[v].pc # "lock" => user[req[v].wallet].balance >= req[v].amount
    BY <2>1 DEF GatewayInv, GatewayTypes, SigningInv, MoneyInv, SigningMoney, RequestStates
  <2>3. CASE req[v].wallet # u
    BY <1>5, <2>2, <2>3
  <2>4. CASE req[v].wallet = u
    <3>1. user'[req[v].wallet] # None
      BY <1>4, <1>5, <2>4
    <3>2. user'[req[v].wallet].balance = user[req[v].wallet].balance + TxAmount[x]
      BY <1>3, <1>5, <2>4
    <3>3. QED
      BY <1>1, <1>2, <2>2, <2>4, <3>1, <3>2
  <2>5. QED
    BY <2>3, <2>4
<1>9. FundsAccounted'
  <2>1. SUFFICES ASSUME NEW w \in Wallets, user'[w] # None
                 PROVE  /\ user'[w].balance >= 0
                        /\ user'[w].locked = SumFunctionOnSet(FundColumn, ContractsOf(w))
                        /\ user'[w].balance + user'[w].locked
                             = SumFunctionOnSet(TxAmount, CreditedOf(w)')
    BY <1>1 DEF FundsAccounted, ContractsOf, FundColumn
  <2>2. CASE w # u
    <3>1. CreditedOf(w)' = CreditedOf(w)
      BY <1>1, <2>2 DEF CreditedOf
    <3>2. QED
      BY <1>5, <2>1, <2>2, <3>1 DEF MoneyInv, FundsAccounted
  <2>3. CASE w = u
    <3>1. /\ CreditedOf(w)' = CreditedOf(w) \cup {x} /\ x \notin CreditedOf(w)
          /\ CreditedOf(w) \subseteq Txs
      BY <1>1, <2>3 DEF CreditedOf, MoneyInv, RowTypes
    <3>2. IsFiniteSet(CreditedOf(w)) /\ \A y \in CreditedOf(w) : TxAmount[y] \in Int
      BY <3>1, FS_Subset DEF GatewayAssumption
    <3>3. SumFunctionOnSet(TxAmount, CreditedOf(w)')
            = SumFunctionOnSet(TxAmount, CreditedOf(w)) + TxAmount[x]
      BY <1>1, <3>1, <3>2, SumWith
    <3>4. /\ user[w].balance >= 0
          /\ user[w].locked = SumFunctionOnSet(FundColumn, ContractsOf(w))
          /\ user[w].balance + user[w].locked = SumFunctionOnSet(TxAmount, CreditedOf(w))
      BY <1>1, <2>3 DEF MoneyInv, FundsAccounted
    <3>5. /\ user'[w].balance = user[w].balance + TxAmount[x] /\ user'[w].locked = user[w].locked
          /\ user[w].balance \in Int /\ user[w].locked \in Int
      BY <1>2, <1>3, <1>5, <2>3
    <3> HIDE DEF u
    <3>6. QED
      BY <1>1, <3>3, <3>4, <3>5
  <2>4. QED
    BY <2>2, <2>3
<1>10. QED
  BY <1>6, <1>7, <1>8, <1>9 DEF MoneyInv

\* Expiry touches the caches alone; a crash frees the requests.
LEMMA ExpiryAndCrashKeepMoney ==
  ASSUME MoneyInv, Expire \/ Crash
  PROVE  MoneyInv'
<1>1. UNCHANGED <<user, contracts, credited>>
  BY DEF Expire, Crash, tables, deposits
<1>2. \A v \in Requests : req'[v] = req[v] \/ req'[v].kind # "sign"
  BY FreeIsAState DEF Expire, Crash
<1>3. QED
  BY <1>1, <1>2, QuietStepKeepsMoney

LEMMA InitEstablishesMoney ==
  ASSUME GatewayAssumption, Init
  PROVE  MoneyInv
<1>1. \A w \in Wallets : user[w] = None /\ ContractsOf(w) = {} /\ CreditedOf(w) = {}
  BY DEF Init, ContractsOf, CreditedOf
<1>2. RowTypes
  BY FS_EmptySet DEF Init, RowTypes
<1>3. SigningMoney
  BY FreeIsAState DEF Init, SigningMoney
<1>4. NoRowNoMoney /\ FundsAccounted
  BY <1>1 DEF NoRowNoMoney, FundsAccounted
<1>5. QED
  BY <1>2, <1>3, <1>4 DEF MoneyInv

LEMMA StepKeepsMoney ==
  ASSUME GatewayAssumption, GatewayInv, MoneyInv, [Next]_vars
  PROVE  MoneyInv'
<1>1. CASE UNCHANGED vars
  <2>1. UNCHANGED <<user, contracts, credited, req>>
    BY <1>1 DEF vars, tables, deposits
  <2>2. QED
    BY <2>1, QuietStepKeepsMoney
<1>2. ASSUME NEW r \in Requests, Arrive(r)
      PROVE  MoneyInv'
  BY <1>2, ArriveKeepsMoney
<1>3. ASSUME NEW r \in Requests, Handler(r)
      PROVE  MoneyInv'
  <2>1. CASE \E step \in {"rows", "issue", "verify", "tx"} : Authenticate(r, step)
    BY <2>1, AuthenticateKeepsMoney
  <2>2. CASE \/ ReadRows(r) \/ StoreChallenge(r) \/ GetNonce(r) \/ BurnNonce(r)
             \/ StoreSession(r) \/ Logout(r) \/ IssueNonce(r) \/ CheckTx(r) \/ CreateTicket(r)
    BY <2>2, OtherHandlersKeepMoney
  <2>3. CASE UpsertUser(r)
    BY <2>3, UpsertUserKeepsMoney
  <2>4. CASE VerifySign(r) \/ FindUser(r) \/ LockBalance(r) \/ BurnSignNonce(r) \/ CreateContract(r)
    BY <2>4, SigningKeepsMoney
  <2>5. CASE Commit(r)
    BY <2>5, CommitKeepsMoney
  <2>6. QED
    BY <1>3, <2>1, <2>2, <2>3, <2>4, <2>5 DEF Handler
<1>4. CASE Expire \/ Crash \/ \E x \in Txs : CreditDeposit(x)
  BY <1>4, ExpiryAndCrashKeepMoney, CreditDepositKeepsMoney
<1>5. QED
  BY <1>1, <1>2, <1>3, <1>4 DEF Next

\* However signings, deposits, failed commits and crashes interleave, a user's
\* locked column is what their contracts were signed for, both columns are what
\* their deposits brought, and the balance is not negative (lock_balance, the
\* insert and the commit of handlers/contracts.rs).
THEOREM GatewayFundsAccounted == Spec => []FundsAccounted
<1>1. Init => GatewayInv /\ MoneyInv
  BY GatewayAssumption, InitEstablishesInv, InitEstablishesMoney
<1>2. GatewayInv /\ MoneyInv /\ [Next]_vars => GatewayInv' /\ MoneyInv'
  BY GatewayAssumption, StepKeepsInv, StepKeepsMoney
<1>3. MoneyInv => FundsAccounted
  BY DEF MoneyInv
<1>4. QED
  BY <1>1, <1>2, <1>3, PTL DEF Spec
=============================================================================
