--------------------------- MODULE DepositSweeper ---------------------------
(***************************************************************************)
(* The background sweeper of the deposit worker                            *)
(* (deposit-worker/src/deposit_sweeper.rs) over the deposits and users     *)
(* tables.  A worker is one process running the loop; every await of       *)
(* check_and_finalize and sweep_transfer is a step boundary.               *)
(***************************************************************************)
EXTENDS DepositPromise, FiniteSets, Functions

CONSTANTS
  Workers,     \* deposit-worker processes sharing the database
  TxAmount,    \* amount decoded from each deposit's calldata
  FaultKinds,  \* "crash", "db", "transfer", "lookup"
  MaxFaults,   \* bound: crashes, database errors, failed transfers and lookups
  None         \* no deposit

ASSUME SweeperAssumption ==
  /\ IsFiniteSet(Deposits)
  /\ TxAmount \in [Deposits -> Nat]
  /\ FaultKinds \subseteq {"crash", "db", "transfer", "lookup"}
  /\ MaxFaults \in Nat
  /\ None \notin Deposits

VARIABLES
  amount,    \* amount column of each deposit row
  swept,     \* transferred_at IS NOT NULL
  kucoin,    \* deposits KuCoin reports as Success, by the text of walletTxId
  executed,  \* clientOids KuCoin executed a transfer for
  worker,    \* per worker: its pass, the snapshot left, the deposit in hand
  faults     \* faults so far

vars == <<promiseVars, amount, swept, kucoin, executed, worker, faults>>

Passes == {"idle", "finalize", "retry"}
Steps == {"none", "credit", "claim", "transfer", "release"}
WorkerIdle == [pass |-> "idle", todo |-> {}, step |-> "none", cur |-> None, amt |-> 0]

WorkerStates ==
  [pass : Passes, todo : SUBSET Deposits, step : Steps,
   cur : Deposits \cup {None}, amt : Nat]

SweeperTypeOK ==
  /\ status \in [Deposits -> {"none", "pending", "confirmed"}]
  /\ balance \in [Wallets -> Nat]
  /\ moved \in [Deposits -> Nat]
  /\ amount \in [Deposits -> Nat]
  /\ swept \in [Deposits -> BOOLEAN]
  /\ kucoin \subseteq Deposits
  /\ executed \subseteq Deposits
  /\ worker \in [Workers -> WorkerStates]
  /\ faults \in Nat

Init ==
  /\ PromiseInit
  /\ amount = TxAmount
  /\ swept = [d \in Deposits |-> FALSE]
  /\ kucoin = {}
  /\ executed = {}
  /\ worker = [w \in Workers |-> WorkerIdle]
  /\ faults = 0

-----------------------------------------------------------------------------
(* The world outside the sweeper.                                          *)

\* process_task: the row of a ticket; the unique tx_hash admits one a text.
CreatePending(d) ==
  /\ Ticket(d)
  /\ UNCHANGED <<amount, swept, kucoin, executed, worker, faults>>

\* KuCoin reports a transaction once, in one text.
KucoinReceives(d) ==
  /\ \A e \in kucoin : TxOf[e] # TxOf[d]
  /\ kucoin' = kucoin \cup {d}
  /\ UNCHANGED <<promiseVars, amount, swept, executed, worker, faults>>

\* A transfer request: KuCoin executes a clientOid once.
KucoinTransfer(oid, d, amt) ==
  IF oid \in executed
  THEN UNCHANGED <<moved, executed>>
  ELSE /\ moved' = [moved EXCEPT ![d] = @ + amt]
       /\ executed' = executed \cup {oid}

Fault(kind) ==
  /\ kind \in FaultKinds
  /\ faults < MaxFaults
  /\ faults' = faults + 1

\* A query that fails ends its pass before it looked at any row.
Query(rows, result) ==
  \/ result = rows /\ UNCHANGED faults
  \/ result = {} /\ Fault("db")

-----------------------------------------------------------------------------
(* Updates of share/src/db/deposit, guarded by their WHERE clauses.        *)

\* Mutant: confirm without its status condition.
ConfirmAlways(d, amt) ==
  /\ status' = [status EXCEPT ![d] = "confirmed"]
  /\ amount' = [amount EXCEPT ![d] = amt]

Confirm(d, amt) ==
  /\ status[d] = "pending"
  /\ status' = [status EXCEPT ![d] = "confirmed"]
  /\ amount' = [amount EXCEPT ![d] = amt]

ClaimTransfer(d) == ~swept[d] /\ swept' = [swept EXCEPT ![d] = TRUE]

ReleaseTransfer(d) == swept' = [swept EXCEPT ![d] = FALSE]

Pending == {d \in Deposits : status[d] = "pending"}

Unswept == {d \in Deposits : status[d] = "confirmed" /\ ~swept[d]}

-----------------------------------------------------------------------------
(* run_deposit_sweeper: the finalize pass, then the retry pass.            *)

Become(w, s) == worker' = [worker EXCEPT ![w] = s]
Resting(w, p) == worker[w].pass = p /\ worker[w].step = "none"
Finish(w) == Become(w, [worker[w] EXCEPT !.step = "none", !.cur = None, !.amt = 0])
ContinueAt(w, s) == Become(w, [worker[w] EXCEPT !.step = s])

FinalizePass(w) ==
  /\ Resting(w, "idle")
  /\ \E rows \in {Pending, {}} :
       /\ Query(Pending, rows)
       /\ Become(w, [WorkerIdle EXCEPT !.pass = "finalize", !.todo = rows])
  /\ UNCHANGED <<promiseVars, amount, swept, kucoin, executed>>

\* Mutant: the history lookup never matches the deposit.
CheckDepositNever(w, d) ==
  /\ Resting(w, "finalize")
  /\ d \in worker[w].todo
  /\ Become(w, [worker[w] EXCEPT !.todo = @ \ {d}])
  /\ UNCHANGED <<promiseVars, amount, swept, kucoin, executed, faults>>

\* Mutant: the history lookup ignores the case of the hash, as the RPC does.
CheckDepositAnyCase(w, d) ==
  /\ Resting(w, "finalize")
  /\ d \in worker[w].todo
  /\ \E e \in kucoin : TxOf[e] = TxOf[d]
  /\ Become(w, [worker[w] EXCEPT !.todo = @ \ {d}, !.step = "credit",
                                 !.cur = d, !.amt = KcAmount[d]])
  /\ UNCHANGED <<promiseVars, amount, swept, kucoin, executed, faults>>

\* check_and_finalize up to its transaction: the deposit's KuCoin record, whose
\* walletTxId must be the very text of the row.
CheckDeposit(w, d) ==
  /\ Resting(w, "finalize")
  /\ d \in worker[w].todo
  /\ \/ /\ d \in kucoin
        /\ Become(w, [worker[w] EXCEPT !.todo = @ \ {d}, !.step = "credit",
                                       !.cur = d, !.amt = KcAmount[d]])
        /\ UNCHANGED faults
     \/ /\ \/ d \notin kucoin /\ UNCHANGED faults
           \/ Fault("lookup")
        /\ Become(w, [worker[w] EXCEPT !.todo = @ \ {d}])
  /\ UNCHANGED <<promiseVars, amount, swept, kucoin, executed>>

\* Upsert, add_balance and confirm in one transaction; a lost race rolls back.
CreditUser(w) ==
  LET d == worker[w].cur
      amt == worker[w].amt
  IN  /\ worker[w].step = "credit"
      /\ \/ /\ balance' = [balance EXCEPT ![WalletOf[d]] = @ + amt]
            /\ Confirm(d, amt)
            /\ ContinueAt(w, "claim")
            /\ UNCHANGED faults
         \/ /\ \/ status[d] # "pending" /\ UNCHANGED faults
               \/ Fault("db")
            /\ Finish(w)
            /\ UNCHANGED <<status, balance, amount>>
      /\ UNCHANGED <<moved, swept, kucoin, executed>>

\* Mutant: the loop goes to sleep after its first pass.
RetryPassNever(w) ==
  /\ Resting(w, "finalize")
  /\ worker[w].todo = {}
  /\ Become(w, WorkerIdle)
  /\ UNCHANGED <<promiseVars, amount, swept, kucoin, executed, faults>>

RetryPass(w) ==
  /\ Resting(w, "finalize")
  /\ worker[w].todo = {}
  /\ \E rows \in {Unswept, {}} :
       /\ Query(Unswept, rows)
       /\ Become(w, [worker[w] EXCEPT !.pass = "retry", !.todo = rows])
  /\ UNCHANGED <<promiseVars, amount, swept, kucoin, executed>>

\* The amount is the column of the snapshot row; confirm wrote it for good.
RetrySweep(w, d) ==
  /\ Resting(w, "retry")
  /\ d \in worker[w].todo
  /\ Become(w, [worker[w] EXCEPT !.todo = @ \ {d}, !.step = "claim",
                                 !.cur = d, !.amt = amount[d]])
  /\ UNCHANGED <<promiseVars, amount, swept, kucoin, executed, faults>>

PassDone(w) ==
  /\ Resting(w, "retry")
  /\ worker[w].todo = {}
  /\ Become(w, WorkerIdle)
  /\ UNCHANGED <<promiseVars, amount, swept, kucoin, executed, faults>>

-----------------------------------------------------------------------------
(* sweep_transfer.                                                         *)

\* Mutant: a fresh clientOid per worker.
ClientOidPerWorker(w, d) == <<w, d>>

\* Mutant: a clientOid per wallet, so that the second deposit is a duplicate.
ClientOidPerWallet(w, d) == CHOOSE e \in Deposits : WalletOf[e] = WalletOf[d]

ClientOid(w, d) == d

Claim(w) ==
  LET d == worker[w].cur
  IN  /\ worker[w].step = "claim"
      /\ \/ ClaimTransfer(d) /\ ContinueAt(w, "transfer") /\ UNCHANGED faults
         \/ /\ \/ swept[d] /\ UNCHANGED faults
               \/ Fault("db")
            /\ Finish(w)
            /\ UNCHANGED swept
      /\ UNCHANGED <<promiseVars, amount, kucoin, executed>>

\* The transfer succeeds, or fails: rejected, or an error that says nothing
\* about whether KuCoin executed it.
Transfer(w) ==
  LET d == worker[w].cur
      execute == KucoinTransfer(ClientOid(w, d), d, worker[w].amt)
  IN  /\ worker[w].step = "transfer"
      /\ \/ execute /\ Finish(w) /\ UNCHANGED faults
         \/ /\ Fault("transfer")
            /\ execute \/ UNCHANGED <<moved, executed>>
            /\ ContinueAt(w, "release")
      /\ UNCHANGED <<status, balance, amount, swept, kucoin>>

Release(w) ==
  /\ worker[w].step = "release"
  /\ \/ ReleaseTransfer(worker[w].cur) /\ UNCHANGED faults
     \/ Fault("db") /\ UNCHANGED swept
  /\ Finish(w)
  /\ UNCHANGED <<promiseVars, amount, kucoin, executed>>

Crash(w) ==
  /\ Fault("crash")
  /\ Become(w, WorkerIdle)
  /\ UNCHANGED <<promiseVars, amount, swept, kucoin, executed>>

-----------------------------------------------------------------------------
SweepStep(w) ==
  \/ FinalizePass(w) \/ RetryPass(w) \/ PassDone(w)
  \/ \E d \in Deposits : CheckDeposit(w, d) \/ RetrySweep(w, d)
  \/ CreditUser(w) \/ Claim(w) \/ Transfer(w) \/ Release(w)

Next ==
  \/ \E d \in Deposits : CreatePending(d) \/ KucoinReceives(d)
  \/ \E w \in Workers : SweepStep(w) \/ Crash(w)

Spec == Init /\ [][Next]_vars

\* The sweeper loop runs forever and its requests return.  Tickets, receipts
\* and faults are not assumed.
Fairness == \A w \in Workers : WF_vars(SweepStep(w))

FairSpec == Spec /\ Fairness

-----------------------------------------------------------------------------
(* Properties.                                                             *)

DepositsOf(u) == {d \in Deposits : WalletOf[d] = u /\ status[d] = "confirmed"}

\* A user is credited the amount KuCoin received for each confirmed deposit,
\* once, whatever workers race and restart (deposit_sweeper.rs:105-107).
BalanceMatchesDeposits ==
  \A u \in Wallets : balance[u] = SumFunctionOnSet(KcAmount, DepositsOf(u))

\* The platform moves what KuCoin received for a deposit, once, and only after
\* the user was credited (deposit-worker/README.md "Sweeper").
MovedAfterCredit ==
  \A d \in Deposits :
    /\ moved[d] \in {0, KcAmount[d]}
    /\ moved[d] # 0 => status[d] = "confirmed"

\* No two workers hold the sweep of one deposit (deposit_sweeper.rs:140-141).
ExclusiveClaim ==
  \A v, w \in Workers :
    /\ worker[v].step \in {"transfer", "release"}
    /\ worker[w].step \in {"transfer", "release"}
    /\ worker[v].cur = worker[w].cur
    => v = w

\* A claimed deposit that did not move and that no worker holds.
Stranded(d) ==
  /\ swept[d]
  /\ moved[d] = 0
  /\ \A w \in Workers :
       ~(worker[w].cur = d /\ worker[w].step \in {"transfer", "release"})

\* A fault strands at most one deposit, and nothing but a fault strands any: a
\* claim is followed by its transfer or is released (deposit_sweeper.rs:140-167).
StrandedHasFault == Cardinality({d \in Deposits : Stranded(d)}) <= faults

\* A ticket whose deposit KuCoin reports under that text is credited in the end.
EventuallyCredited ==
  \A d \in Deposits : status[d] = "pending" /\ d \in kucoin ~> status[d] = "confirmed"

\* A credited deposit reaches the trade account in the end, a failed sweep
\* being retried by the next pass, unless a fault strands it.
EventuallyMoved ==
  \A d \in Deposits : status[d] = "confirmed" ~> moved[d] # 0 \/ Stranded(d)
=============================================================================
