---------------------------- MODULE DepositProofs ----------------------------
(***************************************************************************)
(* For any number of deposits, workers and faults, the sweeper keeps the   *)
(* promise of DepositPromise: one credit, then at most one transfer of the *)
(* amount KuCoin received.  The inductive invariant says what a worker may *)
(* rely on about the deposit in its hand, although it read the row before  *)
(* other workers wrote it.                                                 *)
(***************************************************************************)
EXTENDS DepositSweeper, DepositTickets, SumTheorems

\* What a worker knows of the deposit it holds.
InHandInv ==
  \A w \in Workers :
    LET k == worker[w]
    IN  /\ k.step # "none" => k.cur \in Deposits /\ k.amt = KcAmount[k.cur]
        /\ k.step = "credit" => k.cur \in kucoin
        /\ k.step \in {"claim", "transfer", "release"} => status[k.cur] = "confirmed"
        /\ k.step \in {"transfer", "release"} => swept[k.cur]
        /\ k.pass = "retry" => \A d \in k.todo : status[d] = "confirmed"

\* A confirmed row holds KuCoin's amount, and what was moved was confirmed.
DepositInv ==
  \A d \in Deposits :
    /\ status[d] = "confirmed" => amount[d] = KcAmount[d]
    /\ moved[d] = IF d \in executed THEN KcAmount[d] ELSE 0
    /\ d \in executed => status[d] = "confirmed"

\* Only what KuCoin reports is credited, and it reports one text a transaction.
ReceiptInv ==
  /\ \A d \in Deposits : status[d] = "confirmed" => d \in kucoin
  /\ \A d, e \in kucoin : TxOf[d] = TxOf[e] => d = e

SweeperInv == SweeperTypeOK /\ InHandInv /\ DepositInv /\ ReceiptInv /\ ExclusiveClaim

-----------------------------------------------------------------------------
\* Become changes one worker, and into a worker state.
LEMMA BecomeOne ==
  ASSUME SweeperTypeOK, NEW w \in Workers, NEW s \in WorkerStates, Become(w, s)
  PROVE  /\ worker' \in [Workers -> WorkerStates]
         /\ worker'[w] = s
         /\ \A v \in Workers \ {w} : worker'[v] = worker[v]
  BY DEF Become, SweeperTypeOK

\* A step that leaves the deposits alone and gives worker w a state for which
\* InHandInv holds, without taking a claim, preserves the invariant.
LEMMA WorkerStepKeepsInv ==
  ASSUME SweeperInv, NEW w \in Workers, NEW s \in WorkerStates, Become(w, s),
         UNCHANGED <<promiseVars, amount, kucoin, executed>>,
         swept' \in [Deposits -> BOOLEAN],
         faults' \in Nat,
         \A d \in Deposits : swept[d] /\ ~swept'[d] =>
            worker[w].step \in {"transfer", "release"} /\ worker[w].cur = d,
         s.step # "none" => s.cur \in Deposits /\ s.amt = KcAmount[s.cur],
         s.step = "credit" => s.cur \in kucoin,
         s.step \in {"claim", "transfer", "release"} => status[s.cur] = "confirmed",
         s.step \in {"transfer", "release"} =>
            /\ swept'[s.cur]
            /\ \/ ~swept[s.cur]
               \/ worker[w].step \in {"transfer", "release"} /\ worker[w].cur = s.cur,
         s.pass = "retry" => \A d \in s.todo : status[d] = "confirmed"
  PROVE  SweeperInv'
<1>1. /\ worker' \in [Workers -> WorkerStates]
      /\ worker'[w] = s
      /\ \A v \in Workers \ {w} : worker'[v] = worker[v]
  BY BecomeOne DEF SweeperInv
<1>2. SweeperTypeOK'
  BY <1>1 DEF SweeperInv, SweeperTypeOK, promiseVars
<1>3. DepositInv' /\ ReceiptInv'
  BY DEF SweeperInv, DepositInv, ReceiptInv, promiseVars
<1>4. \A v \in Workers \ {w} :
        worker[v].step \in {"transfer", "release"} =>
          /\ worker[v].cur \in Deposits
          /\ swept[worker[v].cur]
          /\ swept'[worker[v].cur]
          /\ s.step \in {"transfer", "release"} => s.cur # worker[v].cur
  BY DEF SweeperInv, InHandInv, ExclusiveClaim
<1>5. InHandInv'
  BY <1>1, <1>4 DEF SweeperInv, InHandInv, promiseVars
<1>6. ExclusiveClaim'
  BY <1>1, <1>4 DEF SweeperInv, ExclusiveClaim
<1>7. QED
  BY <1>2, <1>3, <1>5, <1>6 DEF SweeperInv

-----------------------------------------------------------------------------
(* One lemma per kind of step.                                             *)

\* Starting a pass, ending one, and taking a deposit in hand.
LEMMA PassesKeepInv ==
  ASSUME SweeperInv, NEW w \in Workers,
         \/ FinalizePass(w) \/ RetryPass(w) \/ PassDone(w)
         \/ \E d \in Deposits : CheckDeposit(w, d) \/ RetrySweep(w, d)
  PROVE  SweeperInv'
<1> USE DEF Resting, Passes, Steps
<1>0. worker[w] \in WorkerStates /\ swept \in [Deposits -> BOOLEAN] /\ faults \in Nat
  BY DEF SweeperInv, SweeperTypeOK
<1>1. CASE FinalizePass(w)
  <2> DEFINE s(rows) == [WorkerIdle EXCEPT !.pass = "finalize", !.todo = rows]
  <2>1. PICK rows \in {Pending, {}} : Query(Pending, rows) /\ Become(w, s(rows))
    BY <1>1 DEF FinalizePass
  <2>2. s(rows) \in WorkerStates /\ s(rows).step = "none" /\ s(rows).pass = "finalize"
    BY <2>1 DEF WorkerIdle, WorkerStates, Pending
  <2> HIDE DEF s
  <2>3. faults' \in Nat
    BY <1>0, <2>1 DEF Query, Fault
  <2>4. QED
    BY <1>0, <1>1, <2>1, <2>2, <2>3, WorkerStepKeepsInv DEF FinalizePass
<1>2. CASE RetryPass(w)
  <2> DEFINE s(rows) == [worker[w] EXCEPT !.pass = "retry", !.todo = rows]
  <2>1. PICK rows \in {Unswept, {}} : Query(Unswept, rows) /\ Become(w, s(rows))
    BY <1>2 DEF RetryPass
  <2>2. /\ s(rows) \in WorkerStates /\ s(rows).step = "none"
        /\ \A d \in s(rows).todo : status[d] = "confirmed"
    BY <1>0, <1>2, <2>1 DEF RetryPass, WorkerStates, Unswept
  <2> HIDE DEF s
  <2>3. faults' \in Nat
    BY <1>0, <2>1 DEF Query, Fault
  <2>4. QED
    BY <1>0, <1>2, <2>1, <2>2, <2>3, WorkerStepKeepsInv DEF RetryPass
<1>3. CASE PassDone(w)
  <2>1. WorkerIdle \in WorkerStates /\ WorkerIdle.step = "none" /\ WorkerIdle.pass = "idle"
    BY DEF WorkerIdle, WorkerStates
  <2>2. QED
    BY <1>0, <1>3, <2>1, WorkerStepKeepsInv DEF PassDone
<1>4. ASSUME NEW d \in Deposits, CheckDeposit(w, d)
      PROVE  SweeperInv'
  <2> DEFINE taken == [worker[w] EXCEPT !.todo = @ \ {d}, !.step = "credit",
                                        !.cur = d, !.amt = KcAmount[d]]
             left == [worker[w] EXCEPT !.todo = @ \ {d}]
  <2>1. /\ taken \in WorkerStates /\ taken.step = "credit" /\ taken.cur = d
        /\ taken.amt = KcAmount[d] /\ taken.pass = "finalize"
    BY <1>0, <1>4, DepositAssumption DEF CheckDeposit, WorkerStates
  <2>2. left \in WorkerStates /\ left.step = "none" /\ left.pass = "finalize"
    BY <1>0, <1>4 DEF CheckDeposit, WorkerStates
  <2>3. (Become(w, taken) /\ d \in kucoin) \/ Become(w, left)
    BY <1>4 DEF CheckDeposit
  <2> HIDE DEF taken, left
  <2>4. faults' \in Nat
    <3>1. UNCHANGED faults \/ Fault("lookup")
      BY <1>4 DEF CheckDeposit
    <3>2. QED
      BY <1>0, <3>1 DEF Fault
  <2>5. QED
    BY <1>0, <1>4, <2>1, <2>2, <2>3, <2>4, WorkerStepKeepsInv DEF CheckDeposit
<1>5. ASSUME NEW d \in Deposits, RetrySweep(w, d)
      PROVE  SweeperInv'
  <2> DEFINE s == [worker[w] EXCEPT !.todo = @ \ {d}, !.step = "claim",
                                    !.cur = d, !.amt = amount[d]]
  <2>1. status[d] = "confirmed" /\ amount[d] = KcAmount[d] /\ amount[d] \in Nat
    BY <1>5, DepositAssumption DEF RetrySweep, SweeperInv, InHandInv, DepositInv
  <2>2. /\ s \in WorkerStates /\ s.step = "claim" /\ s.cur = d /\ s.amt = KcAmount[d]
        /\ s.pass = "retry" /\ s.todo \subseteq worker[w].todo
    BY <1>0, <1>5, <2>1 DEF RetrySweep, WorkerStates
  <2>3. \A e \in s.todo : status[e] = "confirmed"
    BY <1>5, <2>2 DEF RetrySweep, SweeperInv, InHandInv
  <2>4. Become(w, s)
    BY <1>5 DEF RetrySweep
  <2> HIDE DEF s
  <2>5. QED
    BY <1>0, <1>5, <2>1, <2>2, <2>3, <2>4, WorkerStepKeepsInv DEF RetrySweep
<1>6. QED
  BY <1>1, <1>2, <1>3, <1>4, <1>5

\* The states a worker moves to within the work on one deposit.
LEMMA NextWorkerStates ==
  ASSUME SweeperInv, NEW w \in Workers, NEW step \in Steps
  PROVE  LET on == [worker[w] EXCEPT !.step = step]
             off == [worker[w] EXCEPT !.step = "none", !.cur = None, !.amt = 0]
         IN  /\ on \in WorkerStates /\ on.step = step
             /\ on.cur = worker[w].cur /\ on.amt = worker[w].amt
             /\ on.pass = worker[w].pass /\ on.todo = worker[w].todo
             /\ off \in WorkerStates /\ off.step = "none"
             /\ off.pass = worker[w].pass /\ off.todo = worker[w].todo
  BY DEF SweeperInv, SweeperTypeOK, WorkerStates, Steps

\* Giving up the deposit in hand, with the claim released or not.
LEMMA FinishKeepsInv ==
  ASSUME SweeperInv, NEW w \in Workers, Finish(w),
         UNCHANGED <<promiseVars, amount, kucoin, executed>>,
         faults' \in Nat,
         \/ UNCHANGED swept
         \/ worker[w].step = "release" /\ ReleaseTransfer(worker[w].cur)
  PROVE  SweeperInv'
<1> DEFINE off == [worker[w] EXCEPT !.step = "none", !.cur = None, !.amt = 0]
<1>1. /\ off \in WorkerStates /\ off.step = "none"
      /\ off.pass = worker[w].pass /\ off.todo = worker[w].todo
  BY NextWorkerStates DEF Steps
<1>2. Become(w, off)
  BY DEF Finish
<1> HIDE DEF off
<1>3. /\ swept' \in [Deposits -> BOOLEAN]
      /\ \A d \in Deposits : swept[d] /\ ~swept'[d] =>
           worker[w].step \in {"transfer", "release"} /\ worker[w].cur = d
  BY DEF SweeperInv, SweeperTypeOK, ReleaseTransfer
<1>4. off.pass = "retry" => \A d \in off.todo : status[d] = "confirmed"
  BY <1>1 DEF SweeperInv, InHandInv
<1>5. QED
  BY <1>1, <1>2, <1>3, <1>4, WorkerStepKeepsInv

\* Crediting a user (deposit_sweeper.rs:105-125) is the Credit of the promise.
LEMMA CreditKeepsInv ==
  ASSUME SweeperInv, NEW w \in Workers, CreditUser(w)
  PROVE  SweeperInv' /\ [PromiseNext]_promiseVars
<1> DEFINE d == worker[w].cur
           on == [worker[w] EXCEPT !.step = "claim"]
<1>1. /\ worker[w].step = "credit" /\ d \in Deposits /\ worker[w].amt = KcAmount[d]
      /\ d \in kucoin
  BY DEF CreditUser, SweeperInv, InHandInv
<1>2. CASE Finish(w) /\ UNCHANGED <<status, balance, amount>>
  BY <1>2, FinishKeepsInv DEF CreditUser, Fault, SweeperInv, SweeperTypeOK, promiseVars
<1>3. CASE /\ balance' = [balance EXCEPT ![WalletOf[d]] = @ + worker[w].amt]
           /\ Confirm(d, worker[w].amt)
           /\ ContinueAt(w, "claim")
           /\ UNCHANGED faults
  <2>1. /\ on \in WorkerStates /\ on.step = "claim" /\ on.cur = d /\ on.amt = KcAmount[d]
        /\ on.pass = worker[w].pass /\ on.todo = worker[w].todo
    BY <1>1, NextWorkerStates DEF Steps
  <2>2. Become(w, on)
    BY <1>3 DEF ContinueAt
  <2> HIDE DEF on
  <2>3. /\ worker' \in [Workers -> WorkerStates]
        /\ worker'[w] = on
        /\ \A v \in Workers \ {w} : worker'[v] = worker[v]
    BY <2>1, <2>2, BecomeOne DEF SweeperInv
  <2>4. UNCHANGED <<moved, swept, kucoin, executed>>
    BY DEF CreditUser
  <2>5. /\ status' \in [Deposits -> {"none", "pending", "confirmed"}]
        /\ amount' \in [Deposits -> Nat]
        /\ status'[d] = "confirmed" /\ amount'[d] = KcAmount[d]
        /\ \A e \in Deposits \ {d} : status'[e] = status[e] /\ amount'[e] = amount[e]
    BY <1>1, <1>3, DepositAssumption DEF Confirm, SweeperInv, SweeperTypeOK
  <2>6. /\ balance \in [Wallets -> Nat]
        /\ balance' = [balance EXCEPT ![WalletOf[d]] = @ + KcAmount[d]]
    BY <1>1, <1>3 DEF SweeperInv, SweeperTypeOK
  <2>7. balance' \in [Wallets -> Nat]
    BY <1>1, <2>6, DepositAssumption
  <2>8. SweeperTypeOK'
    BY <1>3, <2>3, <2>4, <2>5, <2>7 DEF SweeperInv, SweeperTypeOK
  <2>9. DepositInv'
    BY <2>4, <2>5 DEF SweeperInv, DepositInv
  <2>10. InHandInv'
    BY <1>1, <2>1, <2>3, <2>4, <2>5 DEF SweeperInv, InHandInv, SweeperTypeOK, WorkerStates
  <2>11. ExclusiveClaim'
    BY <2>1, <2>3 DEF SweeperInv, ExclusiveClaim
  <2>12. Uncredited(d) /\ ReceiptInv'
    <3>1. \A e \in Deposits : TxOf[e] = TxOf[d] /\ status[e] = "confirmed" => e = d
      BY <1>1 DEF SweeperInv, ReceiptInv
    <3>2. status[d] = "pending"
      BY <1>3 DEF Confirm
    <3>3. QED
      BY <1>1, <2>4, <2>5, <3>1, <3>2 DEF Uncredited, SweeperInv, ReceiptInv
  <2>13. Credit(d)
    BY <1>1, <1>3, <2>4, <2>6, <2>12 DEF Confirm, Credit
  <2>14. QED
    BY <1>1, <2>8, <2>9, <2>10, <2>11, <2>12, <2>13 DEF SweeperInv, PromiseNext
<1>4. QED
  BY <1>2, <1>3 DEF CreditUser

\* A claim is only won on a deposit nobody else holds.
LEMMA ClaimKeepsInv ==
  ASSUME SweeperInv, NEW w \in Workers, Claim(w)
  PROVE  SweeperInv'
<1> DEFINE d == worker[w].cur
           on == [worker[w] EXCEPT !.step = "transfer"]
<1>1. /\ worker[w].step = "claim" /\ d \in Deposits /\ worker[w].amt = KcAmount[d]
      /\ status[d] = "confirmed"
  BY DEF Claim, SweeperInv, InHandInv
<1>2. CASE Finish(w) /\ UNCHANGED swept
  BY <1>2, FinishKeepsInv DEF Claim, Fault, SweeperInv, SweeperTypeOK
<1>3. CASE ClaimTransfer(d) /\ ContinueAt(w, "transfer") /\ UNCHANGED faults
  <2>1. /\ on \in WorkerStates /\ on.step = "transfer" /\ on.cur = d
        /\ on.amt = KcAmount[d] /\ on.pass = worker[w].pass /\ on.todo = worker[w].todo
    BY <1>1, NextWorkerStates DEF Steps
  <2>2. Become(w, on)
    BY <1>3 DEF ContinueAt
  <2> HIDE DEF on
  <2>3. /\ swept' \in [Deposits -> BOOLEAN] /\ ~swept[d] /\ swept'[d]
        /\ \A e \in Deposits : swept[e] => swept'[e]
    BY <1>1, <1>3 DEF ClaimTransfer, SweeperInv, SweeperTypeOK
  <2>4. on.pass = "retry" => \A e \in on.todo : status[e] = "confirmed"
    BY <2>1 DEF SweeperInv, InHandInv
  <2>5. UNCHANGED <<promiseVars, amount, kucoin, executed, faults>> /\ faults \in Nat
    BY <1>3 DEF Claim, SweeperInv, SweeperTypeOK
  <2>6. QED
    BY <1>1, <2>1, <2>2, <2>3, <2>4, <2>5, WorkerStepKeepsInv
<1>4. QED
  BY <1>2, <1>3 DEF Claim

\* A release clears the claim of the worker that makes it.
LEMMA ReleaseKeepsInv ==
  ASSUME SweeperInv, NEW w \in Workers, Release(w)
  PROVE  SweeperInv'
  BY FinishKeepsInv DEF Release, Fault, SweeperInv, SweeperTypeOK

\* A crash forgets the deposit in hand and nothing else.
LEMMA CrashKeepsInv ==
  ASSUME SweeperInv, NEW w \in Workers, Crash(w)
  PROVE  SweeperInv'
<1>1. WorkerIdle \in WorkerStates /\ WorkerIdle.step = "none" /\ WorkerIdle.pass = "idle"
  BY DEF WorkerIdle, WorkerStates, Passes, Steps
<1>2. swept \in [Deposits -> BOOLEAN] /\ faults' \in Nat
  BY DEF Crash, Fault, SweeperInv, SweeperTypeOK
<1>3. QED
  BY <1>1, <1>2, WorkerStepKeepsInv DEF Crash

\* A transfer that KuCoin executes for the deposit in hand moves what the user
\* was credited, unless KuCoin executed it before.
LEMMA TransferMoves ==
  ASSUME SweeperInv, NEW d \in Deposits, status[d] = "confirmed",
         KucoinTransfer(d, d, KcAmount[d]),
         UNCHANGED <<status, balance, amount>>
  PROVE  /\ DepositInv'
         /\ moved' \in [Deposits -> Nat]
         /\ executed' \subseteq Deposits
         /\ [PromiseNext]_promiseVars
<1>1. /\ moved \in [Deposits -> Nat] /\ executed \subseteq Deposits
      /\ moved[d] = IF d \in executed THEN KcAmount[d] ELSE 0
      /\ KcAmount[d] \in Nat
  BY DepositAssumption DEF SweeperInv, SweeperTypeOK, DepositInv
<1>2. CASE d \in executed
  BY <1>1, <1>2 DEF KucoinTransfer, SweeperInv, DepositInv, promiseVars
<1>3. CASE d \notin executed
  <2>1. moved' = [moved EXCEPT ![d] = KcAmount[d]] /\ executed' = executed \cup {d}
    BY <1>1, <1>3 DEF KucoinTransfer
  <2>2. Move(d)
    BY <1>1, <1>3, <2>1 DEF Move
  <2>3. DepositInv'
    BY <1>1, <2>1 DEF SweeperInv, DepositInv
  <2>4. QED
    BY <1>1, <2>1, <2>2, <2>3 DEF PromiseNext
<1>4. QED
  BY <1>2, <1>3

\* A transfer, answered or not, is the Move of the promise or changes nothing.
LEMMA TransferKeepsInv ==
  ASSUME SweeperInv, NEW w \in Workers, Transfer(w)
  PROVE  SweeperInv' /\ [PromiseNext]_promiseVars
<1> DEFINE d == worker[w].cur
           on == [worker[w] EXCEPT !.step = "release"]
           off == [worker[w] EXCEPT !.step = "none", !.cur = None, !.amt = 0]
<1>1. /\ worker[w].step = "transfer" /\ d \in Deposits /\ worker[w].amt = KcAmount[d]
      /\ status[d] = "confirmed" /\ swept[d]
  BY DEF Transfer, SweeperInv, InHandInv
<1>2. UNCHANGED <<status, balance, amount, swept, kucoin>> /\ faults' \in Nat
  BY DEF Transfer, Fault, SweeperInv, SweeperTypeOK
<1>3. KucoinTransfer(d, d, KcAmount[d]) \/ UNCHANGED <<moved, executed>>
  BY <1>1 DEF Transfer, ClientOid
<1>4. /\ DepositInv'
      /\ moved' \in [Deposits -> Nat] /\ executed' \subseteq Deposits
      /\ [PromiseNext]_promiseVars
  <2>1. CASE KucoinTransfer(d, d, KcAmount[d])
    BY <1>1, <1>2, <2>1, TransferMoves
  <2>2. CASE UNCHANGED <<moved, executed>>
    BY <1>2, <2>2 DEF SweeperInv, SweeperTypeOK, DepositInv, promiseVars
  <2>3. QED
    BY <1>3, <2>1, <2>2
<1>5. PICK s \in WorkerStates :
        /\ Become(w, s)
        /\ s.pass = worker[w].pass /\ s.todo = worker[w].todo
        /\ \/ s.step = "none"
           \/ s.step = "release" /\ s.cur = d /\ s.amt = KcAmount[d]
  <2>1. /\ off \in WorkerStates /\ off.step = "none"
        /\ off.pass = worker[w].pass /\ off.todo = worker[w].todo
    BY NextWorkerStates DEF Steps
  <2>2. /\ on \in WorkerStates /\ on.step = "release" /\ on.cur = d
        /\ on.amt = KcAmount[d] /\ on.pass = worker[w].pass /\ on.todo = worker[w].todo
    BY <1>1, NextWorkerStates DEF Steps
  <2>3. Become(w, on) \/ Become(w, off)
    BY DEF Transfer, Finish, ContinueAt
  <2> HIDE DEF on, off
  <2>4. QED
    BY <2>1, <2>2, <2>3
<1>6. /\ worker' \in [Workers -> WorkerStates]
      /\ worker'[w] = s
      /\ \A v \in Workers \ {w} : worker'[v] = worker[v]
  BY <1>5, BecomeOne DEF SweeperInv
<1>7. SweeperTypeOK'
  BY <1>2, <1>4, <1>6 DEF SweeperInv, SweeperTypeOK
<1>8. InHandInv'
  BY <1>1, <1>2, <1>5, <1>6 DEF SweeperInv, InHandInv
<1>9. ExclusiveClaim'
  BY <1>1, <1>5, <1>6 DEF SweeperInv, ExclusiveClaim
<1>10. ReceiptInv'
  BY <1>2 DEF SweeperInv, ReceiptInv
<1>11. QED
  BY <1>4, <1>7, <1>8, <1>9, <1>10 DEF SweeperInv

\* New tickets and receipts leave the work of the sweepers alone.
LEMMA OutsideKeepsInv ==
  ASSUME SweeperInv, NEW d \in Deposits, CreatePending(d) \/ KucoinReceives(d)
  PROVE  SweeperInv'
<1>1. /\ UNCHANGED <<balance, moved, amount, swept, executed, worker, faults>>
      /\ kucoin \subseteq kucoin' /\ kucoin' \subseteq Deposits
      /\ status' \in [Deposits -> {"none", "pending", "confirmed"}]
      /\ \A e \in Deposits : status'[e] = "confirmed" <=> status[e] = "confirmed"
  BY DEF CreatePending, Ticket, KucoinReceives, SweeperInv, SweeperTypeOK, promiseVars
<1>2. SweeperTypeOK'
  BY <1>1 DEF SweeperInv, SweeperTypeOK
<1>3. DepositInv'
  BY <1>1 DEF SweeperInv, DepositInv
<1>4. ExclusiveClaim'
  BY <1>1 DEF SweeperInv, ExclusiveClaim
<1>5. InHandInv'
  BY <1>1 DEF SweeperInv, SweeperTypeOK, InHandInv, WorkerStates
<1>6. ReceiptInv'
  BY <1>1 DEF KucoinReceives, CreatePending, SweeperInv, ReceiptInv
<1>7. QED
  BY <1>2, <1>3, <1>4, <1>5, <1>6 DEF SweeperInv

-----------------------------------------------------------------------------
\* Every step keeps the invariant and is a step of the promise or none.
LEMMA SweeperStep ==
  ASSUME SweeperInv, [Next]_vars
  PROVE  SweeperInv' /\ [PromiseNext]_promiseVars
<1>1. ASSUME NEW d \in Deposits, CreatePending(d) \/ KucoinReceives(d)
      PROVE  SweeperInv' /\ [PromiseNext]_promiseVars
  BY <1>1, OutsideKeepsInv DEF CreatePending, KucoinReceives, PromiseNext
<1>2. ASSUME NEW w \in Workers,
             \/ FinalizePass(w) \/ RetryPass(w) \/ PassDone(w)
             \/ \E d \in Deposits : CheckDeposit(w, d) \/ RetrySweep(w, d)
      PROVE  SweeperInv' /\ [PromiseNext]_promiseVars
  BY <1>2, PassesKeepInv DEF FinalizePass, RetryPass, PassDone, CheckDeposit, RetrySweep
<1>3. ASSUME NEW w \in Workers, Claim(w) \/ Release(w) \/ Crash(w)
      PROVE  SweeperInv' /\ [PromiseNext]_promiseVars
  BY <1>3, ClaimKeepsInv, ReleaseKeepsInv, CrashKeepsInv DEF Claim, Release, Crash
<1>4. ASSUME NEW w \in Workers, CreditUser(w) \/ Transfer(w)
      PROVE  SweeperInv' /\ [PromiseNext]_promiseVars
  BY <1>4, CreditKeepsInv, TransferKeepsInv
<1>5. CASE UNCHANGED vars
  <2>1. UNCHANGED <<status, balance, moved, amount, swept, kucoin, executed, worker, faults>>
    BY <1>5 DEF vars, promiseVars
  <2>2. QED
    BY <2>1
    DEF SweeperInv, SweeperTypeOK, InHandInv, DepositInv, ReceiptInv, ExclusiveClaim, promiseVars
<1>6. QED
  BY <1>1, <1>2, <1>3, <1>4, <1>5 DEF Next, SweepStep

\* The inductive invariant holds throughout.
THEOREM SweeperInvariant == Spec => []SweeperInv
<1>1. Init => SweeperInv
  <2> SUFFICES ASSUME Init PROVE SweeperInv
    OBVIOUS
  <2>1. SweeperTypeOK
    BY SweeperAssumption
    DEF Init, PromiseInit, SweeperTypeOK, WorkerIdle, WorkerStates, Passes, Steps
  <2>2. InHandInv /\ DepositInv /\ ReceiptInv /\ ExclusiveClaim
    BY DEF Init, PromiseInit, InHandInv, DepositInv, ReceiptInv, ExclusiveClaim, WorkerIdle
  <2>3. QED
    BY <2>1, <2>2 DEF SweeperInv
<1>2. SweeperInv /\ [Next]_vars => SweeperInv'
  BY SweeperStep
<1>3. QED
  BY <1>1, <1>2, PTL DEF Spec

\* Whatever workers race, fail and restart, a transaction is credited at most
\* once however many texts of it have a ticket, and what was credited is moved
\* at most once, after the credit.
THEOREM SweeperKeepsPromise == Spec => PromiseSpec
<1>1. Init => PromiseInit
  BY DEF Init
<1>2. SweeperInv /\ [Next]_vars => [PromiseNext]_promiseVars
  BY SweeperStep
<1>3. QED
  BY <1>1, <1>2, SweeperInvariant, PTL DEF Spec, PromiseSpec

\* The platform moves exactly what KuCoin received, and only credited deposits.
THEOREM SweeperMovedAfterCredit == Spec => []MovedAfterCredit
<1>1. SweeperInv => MovedAfterCredit
  BY DepositAssumption DEF SweeperInv, DepositInv, MovedAfterCredit
<1>2. QED
  BY <1>1, SweeperInvariant, PTL

\* At most one worker is ever between claiming a deposit's sweep and giving
\* the claim up.
THEOREM SweeperExclusiveClaim == Spec => []ExclusiveClaim
<1>1. SweeperInv => ExclusiveClaim
  BY DEF SweeperInv
<1>2. QED
  BY <1>1, SweeperInvariant, PTL

-----------------------------------------------------------------------------
(* What a fault can strand.                                                *)

StrandedSet == {d \in Deposits : Stranded(d)}

\* Only the deposit that worker w held, and gave up, is newly stranded.
LEMMA NewlyStranded ==
  ASSUME SweeperInv, NEW w \in Workers, NEW s, Become(w, s),
         \A d \in Deposits : moved'[d] = 0 => moved[d] = 0,
         \A d \in Deposits : swept'[d] /\ ~swept[d] => s.cur = d /\ s.step = "transfer",
         NEW d \in StrandedSet' \ StrandedSet
  PROVE  /\ worker[w].step \in {"transfer", "release"} /\ d = worker[w].cur
         /\ d \in Deposits /\ swept'[d] /\ moved'[d] = 0
         /\ ~(s.cur = d /\ s.step \in {"transfer", "release"})
<1>1. worker'[w] = s /\ \A v \in Workers \ {w} : worker'[v] = worker[v]
  BY DEF Become, SweeperInv, SweeperTypeOK
<1>2. /\ d \in Deposits /\ swept'[d] /\ moved'[d] = 0
      /\ \A v \in Workers : ~(worker'[v].cur = d /\ worker'[v].step \in {"transfer", "release"})
      /\ ~Stranded(d)
  BY DEF StrandedSet, Stranded
<1>3. ~(s.cur = d /\ s.step \in {"transfer", "release"})
  BY <1>1, <1>2
<1>4. swept[d] /\ moved[d] = 0
  BY <1>2, <1>3
<1>5. PICK v \in Workers : worker[v].cur = d /\ worker[v].step \in {"transfer", "release"}
  BY <1>2, <1>4 DEF Stranded
<1>6. v = w
  BY <1>1, <1>2, <1>5
<1>7. QED
  BY <1>2, <1>3, <1>5, <1>6

\* A step of a worker strands nothing, or has a fault and strands what it held.
LEMMA WorkerStrands ==
  ASSUME SweeperInv, NEW w \in Workers, SweepStep(w) \/ Crash(w)
  PROVE  \/ faults' \in {faults, faults + 1} /\ StrandedSet' \subseteq StrandedSet
         \/ faults' = faults + 1 /\ StrandedSet' \subseteq StrandedSet \cup {worker[w].cur}
<1>1. ASSUME NEW s, Become(w, s), UNCHANGED <<moved, swept>>
      PROVE  /\ StrandedSet' \subseteq StrandedSet \cup {worker[w].cur}
             /\ worker[w].step \notin {"transfer", "release"} => StrandedSet' \subseteq StrandedSet
  BY <1>1, NewlyStranded
<1>2. CASE FinalizePass(w) \/ RetryPass(w) \/ PassDone(w)
  <2>1. worker[w].step = "none" /\ UNCHANGED <<moved, swept>> /\ \E s : Become(w, s)
    BY <1>2 DEF FinalizePass, RetryPass, PassDone, Resting, promiseVars
  <2>2. faults' \in {faults, faults + 1}
    BY <1>2 DEF FinalizePass, RetryPass, PassDone, Query, Fault
  <2>3. QED
    BY <1>1, <2>1, <2>2
<1>3. CASE \E d \in Deposits : CheckDeposit(w, d) \/ RetrySweep(w, d)
  <2>1. worker[w].step = "none" /\ UNCHANGED <<moved, swept>> /\ \E s : Become(w, s)
    BY <1>3 DEF CheckDeposit, RetrySweep, Resting, promiseVars
  <2>2. faults' \in {faults, faults + 1}
    BY <1>3 DEF CheckDeposit, RetrySweep, Fault
  <2>3. QED
    BY <1>1, <2>1, <2>2
<1>4. CASE CreditUser(w)
  <2>1. worker[w].step = "credit" /\ UNCHANGED <<moved, swept>> /\ \E s : Become(w, s)
    BY <1>4 DEF CreditUser, Finish, ContinueAt
  <2>2. faults' \in {faults, faults + 1}
    BY <1>4 DEF CreditUser, Fault
  <2>3. QED
    BY <1>1, <2>1, <2>2
<1>5. CASE Claim(w)
  <2> DEFINE d == worker[w].cur
             on == [worker[w] EXCEPT !.step = "transfer"]
  <2>1. worker[w].step = "claim" /\ UNCHANGED moved /\ faults' \in {faults, faults + 1}
    BY <1>5 DEF Claim, Fault, promiseVars
  <2>2. CASE Finish(w) /\ UNCHANGED swept
    BY <1>1, <2>1, <2>2 DEF Finish
  <2>3. CASE ClaimTransfer(d) /\ ContinueAt(w, "transfer")
    <3>1. on.cur = d /\ on.step = "transfer" /\ Become(w, on)
      BY <2>3 DEF ContinueAt, SweeperInv, SweeperTypeOK, WorkerStates
    <3>2. \A e \in Deposits : swept'[e] /\ ~swept[e] => e = d
      BY <2>3 DEF ClaimTransfer, SweeperInv, SweeperTypeOK
    <3> HIDE DEF on, d
    <3>3. QED
      BY <2>1, <3>1, <3>2, NewlyStranded
  <2>4. QED
    BY <1>5, <2>2, <2>3 DEF Claim
<1>6. CASE Transfer(w)
  <2> DEFINE d == worker[w].cur
             on == [worker[w] EXCEPT !.step = "release"]
  <2>1. /\ worker[w].step = "transfer" /\ d \in Deposits /\ worker[w].amt = KcAmount[d]
        /\ UNCHANGED swept /\ worker[w] \in WorkerStates
    BY <1>6 DEF Transfer, SweeperInv, SweeperTypeOK, InHandInv
  <2>2. \A e \in Deposits : moved'[e] = 0 => moved[e] = 0
    <3>1. moved \in [Deposits -> Nat] /\ KcAmount[d] \in Nat
      BY <2>1, DepositAssumption DEF SweeperInv, SweeperTypeOK
    <3>2. UNCHANGED moved \/ moved' = [moved EXCEPT ![d] = @ + KcAmount[d]]
      BY <1>6, <2>1 DEF Transfer, KucoinTransfer
    <3> HIDE DEF d
    <3>3. QED
      BY <3>1, <3>2
  <2>3. CASE KucoinTransfer(d, d, KcAmount[d]) /\ Finish(w) /\ UNCHANGED faults
    <3>1. SweeperInv' /\ d \in executed'
      BY <1>6, <2>3, TransferKeepsInv DEF KucoinTransfer
    <3>2. moved'[d] # 0
      BY <2>1, <3>1, DepositAssumption DEF SweeperInv, DepositInv
    <3>3. StrandedSet' \subseteq StrandedSet
      BY <2>1, <2>2, <2>3, <3>2, NewlyStranded DEF Finish
    <3>4. QED
      BY <2>3, <3>3
  <2>4. CASE Fault("transfer") /\ ContinueAt(w, "release")
    BY <2>1, <2>2, <2>4, NewlyStranded DEF ContinueAt, Fault
  <2>5. QED
    BY <1>6, <2>1, <2>3, <2>4 DEF Transfer, ClientOid
<1>7. CASE Release(w)
  <2> DEFINE d == worker[w].cur
  <2>1. d \in Deposits /\ UNCHANGED moved /\ \E s : Become(w, s)
    BY <1>7 DEF Release, Finish, SweeperInv, InHandInv, promiseVars
  <2>2. CASE ReleaseTransfer(d) /\ UNCHANGED faults
    <3>1. ~swept'[d] /\ \A e \in Deposits : swept'[e] => swept[e]
      BY <2>1, <2>2 DEF ReleaseTransfer, SweeperInv, SweeperTypeOK
    <3> HIDE DEF d
    <3>2. StrandedSet' \subseteq StrandedSet
      BY <2>1, <3>1, NewlyStranded DEF d
    <3>3. QED
      BY <2>2, <3>2
  <2>3. CASE Fault("db") /\ UNCHANGED swept
    BY <1>1, <2>1, <2>3 DEF Fault
  <2>4. QED
    BY <1>7, <2>2, <2>3 DEF Release
<1>8. CASE Crash(w)
  BY <1>1, <1>8 DEF Crash, Fault, promiseVars
<1>9. QED
  BY <1>2, <1>3, <1>4, <1>5, <1>6, <1>7, <1>8 DEF SweepStep

\* A fault strands at most one deposit for any number of workers and deposits:
\* what is claimed and not moved in the end is the trace of a crash or of an
\* error that was logged (sweep_transfer).
THEOREM SweeperStrandedHasFault == Spec => []StrandedHasFault
<1>1. Init => StrandedHasFault
  <2> SUFFICES ASSUME Init PROVE StrandedHasFault
    OBVIOUS
  <2>1. StrandedSet = {} /\ faults = 0
    BY DEF Init, StrandedSet, Stranded
  <2>2. QED
    BY <2>1, FS_EmptySet DEF StrandedHasFault, StrandedSet
<1>2. SweeperInv /\ StrandedHasFault /\ [Next]_vars => StrandedHasFault'
  <2> SUFFICES ASSUME SweeperInv, StrandedHasFault, [Next]_vars
               PROVE  StrandedHasFault'
    OBVIOUS
  <2>1. IsFiniteSet(StrandedSet) /\ IsFiniteSet(StrandedSet')
    BY SweeperAssumption, FS_Subset DEF StrandedSet
  <2>2. /\ Cardinality(StrandedSet) \in Nat /\ Cardinality(StrandedSet') \in Nat
        /\ Cardinality(StrandedSet) <= faults /\ faults \in Nat
    BY <2>1, FS_CardinalityType DEF StrandedHasFault, StrandedSet, SweeperInv, SweeperTypeOK
  <2>3. SUFFICES Cardinality(StrandedSet') <= faults'
    BY DEF StrandedHasFault, StrandedSet
  <2>4. ASSUME StrandedSet' \subseteq StrandedSet, faults' \in {faults, faults + 1}
        PROVE  Cardinality(StrandedSet') <= faults'
    <3>1. Cardinality(StrandedSet') <= Cardinality(StrandedSet)
      BY <2>1, <2>4, FS_Subset
    <3>2. QED
      BY <2>2, <2>4, <3>1
  <2>5. ASSUME NEW d, StrandedSet' \subseteq StrandedSet \cup {d}, faults' = faults + 1
        PROVE  Cardinality(StrandedSet') <= faults'
    <3>1. /\ IsFiniteSet(StrandedSet \cup {d})
          /\ Cardinality(StrandedSet \cup {d}) \in {Cardinality(StrandedSet), Cardinality(StrandedSet) + 1}
      BY <2>1, FS_AddElement
    <3>2. Cardinality(StrandedSet') <= Cardinality(StrandedSet \cup {d})
      BY <2>5, <3>1, FS_Subset
    <3>3. QED
      BY <2>2, <2>5, <3>1, <3>2
  <2>6. ASSUME NEW w \in Workers, SweepStep(w) \/ Crash(w)
        PROVE  Cardinality(StrandedSet') <= faults'
    BY <2>4, <2>5, <2>6, WorkerStrands
  <2>7. ASSUME NEW d \in Deposits, CreatePending(d) \/ KucoinReceives(d)
        PROVE  Cardinality(StrandedSet') <= faults'
    <3>1. UNCHANGED <<moved, swept, worker, faults>>
      BY <2>7 DEF CreatePending, Ticket, KucoinReceives, promiseVars
    <3>2. QED
      BY <2>4, <3>1 DEF StrandedSet, Stranded
  <2>8. CASE UNCHANGED vars
    <3>1. UNCHANGED <<moved, swept, worker, faults>>
      BY <2>8 DEF vars, promiseVars
    <3>2. QED
      BY <2>4, <3>1 DEF StrandedSet, Stranded
  <2>9. QED
    BY <2>6, <2>7, <2>8 DEF Next
<1>3. QED
  BY <1>1, <1>2, SweeperInvariant, PTL DEF Spec

-----------------------------------------------------------------------------
(* The balance of a user, from the promise alone: of its three steps one    *)
(* writes balances, and that one confirms a deposit.                        *)

\* A credit adds the amount of a deposit that was not confirmed before.
LEMMA CreditKeepsBalance ==
  ASSUME status \in [Deposits -> {"none", "pending", "confirmed"}],
         balance \in [Wallets -> Nat], BalanceMatchesDeposits,
         NEW d \in Deposits, Credit(d)
  PROVE  BalanceMatchesDeposits'
<1> DEFINE owner == WalletOf[d]
<1>1. /\ status[d] = "pending" /\ status' = [status EXCEPT ![d] = "confirmed"]
      /\ balance' = [balance EXCEPT ![owner] = @ + KcAmount[d]]
  BY DEF Credit
<1>2. KcAmount[d] \in Int /\ owner \in Wallets
  BY DepositAssumption
<1>3. ASSUME NEW u \in Wallets
      PROVE  balance'[u] = SumFunctionOnSet(KcAmount, DepositsOf(u)')
  <2> DEFINE S == DepositsOf(u)
  <2>1. d \notin S /\ DepositsOf(u)' = IF u = owner THEN S \cup {d} ELSE S
    BY <1>1 DEF DepositsOf
  <2>2. balance'[u] = IF u = owner THEN balance[u] + KcAmount[d] ELSE balance[u]
    BY <1>1
  <2>3. balance[u] = SumFunctionOnSet(KcAmount, S)
    BY DEF BalanceMatchesDeposits
  <2>4. IsFiniteSet(S) /\ \A e \in S : KcAmount[e] \in Int
    BY SweeperAssumption, DepositAssumption, FS_Subset DEF DepositsOf
  <2> HIDE DEF S
  <2>5. SumFunctionOnSet(KcAmount, S \cup {d}) = SumFunctionOnSet(KcAmount, S) + KcAmount[d]
    BY <1>2, <2>1, <2>4, SumWith
  <2>6. QED
    BY <2>1, <2>2, <2>3, <2>5
<1>4. QED
  BY <1>3 DEF BalanceMatchesDeposits

\* Every other step leaves the balances and the confirmed deposits alone.
LEMMA PromiseKeepsBalance ==
  ASSUME status \in [Deposits -> {"none", "pending", "confirmed"}],
         balance \in [Wallets -> Nat], BalanceMatchesDeposits, [PromiseNext]_promiseVars
  PROVE  BalanceMatchesDeposits'
<1>1. ASSUME UNCHANGED balance,
             \A d \in Deposits : status'[d] = "confirmed" <=> status[d] = "confirmed"
      PROVE  BalanceMatchesDeposits'
  <2>1. \A u : DepositsOf(u)' = DepositsOf(u)
    BY <1>1 DEF DepositsOf
  <2>2. QED
    BY <1>1, <2>1 DEF BalanceMatchesDeposits
<1>2. ASSUME NEW d \in Deposits, Ticket(d) \/ Move(d)
      PROVE  BalanceMatchesDeposits'
  BY <1>1, <1>2 DEF Ticket, Move
<1>3. CASE UNCHANGED promiseVars
  BY <1>1, <1>3 DEF promiseVars
<1>4. QED
  BY <1>2, <1>3, CreditKeepsBalance DEF PromiseNext

\* A user's balance is what KuCoin received for the user's confirmed deposits,
\* whatever workers race, fail and restart.
THEOREM SweeperBalanceMatchesDeposits == Spec => []BalanceMatchesDeposits
<1>1. Init => BalanceMatchesDeposits
  <2>1. ASSUME Init, NEW u \in Wallets
        PROVE  balance[u] = 0 /\ DepositsOf(u) = {}
    BY <2>1 DEF Init, PromiseInit, DepositsOf
  <2>2. QED
    BY <2>1, SumEmpty DEF BalanceMatchesDeposits
<1>2. SweeperInv /\ BalanceMatchesDeposits /\ [Next]_vars => BalanceMatchesDeposits'
  <2>1. SweeperInv => /\ status \in [Deposits -> {"none", "pending", "confirmed"}]
                      /\ balance \in [Wallets -> Nat]
    BY DEF SweeperInv, SweeperTypeOK
  <2>2. QED
    BY <2>1, SweeperStep, PromiseKeepsBalance
<1>3. QED
  BY <1>1, <1>2, SweeperInvariant, PTL DEF Spec

-----------------------------------------------------------------------------
(* The ticket pipeline, for any number of calls and permits, hang-ups and  *)
(* restarts.  One ticket per text of a hash is inductive with the types of *)
(* the calls and the rows, since the unique index is tested by the very    *)
(* step that answers; and each step is a Ticket of DepositPromise or       *)
(* leaves it alone.                                                        *)

TicketTypes ==
  /\ call \in [Calls -> CallStates]
  /\ status \in [Deposits -> {"none", "pending"}]

TicketInv == TicketTypes /\ OneTicketPerText

\* An answer other than a ticket gives no ticket.
LEMMA OtherAnswersKeepInv ==
  ASSUME TicketInv, UNCHANGED promiseVars, call' \in [Calls -> CallStates],
         \A r \in Calls : call'[r] = "ticket" => call[r] = "ticket"
  PROVE  TicketInv'
  BY DEF TicketInv, TicketTypes, OneTicketPerText, promiseVars

LEMMA AnswerChanges ==
  ASSUME TicketInv, NEW r \in Calls, NEW reply \in Answers, Answer(r, reply)
  PROVE  /\ call' \in [Calls -> CallStates]
         /\ call'[r] \in {call[r], reply}
         /\ \A q \in Calls \ {r} : call'[q] = call[q]
  BY DEF TicketInv, TicketTypes, Answer, Answers, CallStates

LEMMA TicketKeepsInv ==
  ASSUME TicketAssumption, TicketInv, NEW r \in Calls, Ticket(HashOf[r]), Answer(r, "ticket")
  PROVE  TicketInv'
<1>1. /\ HashOf[r] \in Deposits /\ status[HashOf[r]] = "none"
      /\ status' = [status EXCEPT ![HashOf[r]] = "pending"]
  BY DEF TicketAssumption, Ticket
<1>2. /\ call' \in [Calls -> CallStates]
      /\ \A q \in Calls \ {r} : call'[q] = call[q]
  BY AnswerChanges DEF Answers
<1>3. TicketTypes'
  BY <1>1, <1>2 DEF TicketInv, TicketTypes
<1>4. \A q \in Calls \ {r} : call'[q] = "ticket" => HashOf[q] # HashOf[r]
  BY <1>1, <1>2 DEF TicketInv, OneTicketPerText
<1>5. \A q \in Calls : call'[q] = "ticket" => status'[HashOf[q]] # "none"
  BY <1>1, <1>2 DEF TicketInv, TicketTypes, OneTicketPerText, TicketAssumption
<1>6. OneTicketPerText'
  BY <1>2, <1>4, <1>5 DEF TicketInv, OneTicketPerText
<1>7. QED
  BY <1>3, <1>6 DEF TicketInv

LEMMA NextKeepsTicketInv ==
  ASSUME TicketAssumption, TicketInv, [TicketsNext]_pipelineVars
  PROVE  TicketInv' /\ [PromiseNext]_promiseVars
<1>1. CASE \E r \in Calls : CreateTicket0(r) \/ HangUp(r)
  <2>1. UNCHANGED promiseVars
    BY <1>1 DEF CreateTicket0, HangUp
  <2>2. PICK r \in Calls, reply \in {"waiting", "exhausted", "gone"} :
          call' = [call EXCEPT ![r] = reply]
    BY <1>1 DEF CreateTicket0, HangUp
  <2>3. /\ call' \in [Calls -> CallStates]
        /\ \A q \in Calls : call'[q] = "ticket" => call[q] = "ticket"
    BY <2>2 DEF TicketInv, TicketTypes, CallStates, Answers
  <2>4. QED
    BY <2>1, <2>3, OtherAnswersKeepInv
<1>2. ASSUME NEW r \in Calls, FetchTransaction(r)
      PROVE  TicketInv' /\ UNCHANGED promiseVars
  <2>1. UNCHANGED promiseVars /\ (UNCHANGED call \/ Answer(r, "error"))
    BY <1>2 DEF FetchTransaction
  <2>2. QED
    BY <2>1, AnswerChanges, OtherAnswersKeepInv DEF Answers, TicketInv, TicketTypes
<1>3. ASSUME NEW r \in Calls, InsertDeposit(r)
      PROVE  TicketInv' /\ [PromiseNext]_promiseVars
  <2>1. CASE Ticket(HashOf[r]) /\ Answer(r, "ticket")
    <3>1. PromiseNext
      BY <2>1, TicketAssumption DEF TicketAssumption, PromiseNext
    <3>2. QED
      BY <2>1, <3>1, TicketKeepsInv
  <2>2. CASE UNCHANGED promiseVars /\ Answer(r, "error")
    BY <2>2, AnswerChanges, OtherAnswersKeepInv DEF Answers
  <2>3. QED
    BY <1>3, <2>1, <2>2 DEF InsertDeposit
<1>4. CASE Restart
  <2>1. UNCHANGED promiseVars
    BY <1>4 DEF Restart
  <2>2. /\ call' \in [Calls -> CallStates]
        /\ \A r \in Calls : call'[r] = "ticket" => call[r] = "ticket"
    BY <1>4 DEF Restart, TicketInv, TicketTypes, CallStates, Answers
  <2>3. QED
    BY <2>1, <2>2, OtherAnswersKeepInv
<1>5. CASE Dispatcher \/ UNCHANGED pipelineVars
  <2>1. UNCHANGED <<promiseVars, call>>
    BY <1>5 DEF Dispatcher, Receive, Dispatch, pipelineVars, ticketVars
  <2>2. QED
    BY <2>1, OtherAnswersKeepInv DEF TicketInv, TicketTypes
<1>6. QED
  BY <1>1, <1>2, <1>3, <1>4, <1>5 DEF TicketsNext, TaskStep

LEMMA InitIsTicketInv ==
  ASSUME TicketsInit
  PROVE  TicketInv
  BY DEF TicketsInit, PromiseInit, TicketInv, TicketTypes, OneTicketPerText, CallStates

\* Retries and simultaneous calls with one text of a hash get one ticket between
\* them, and a ticket stands for a row (create_pending under the unique index,
\* deposit-worker's task.rs).  Two texts of one transaction may get two tickets:
\* SweeperKeepsPromise says that at most one of them is credited.
THEOREM TicketsOneTicketPerText == TicketsSpec => []OneTicketPerText
<1>1. TicketsInit => TicketInv
  BY InitIsTicketInv
<1>2. TicketInv /\ [TicketsNext]_pipelineVars => TicketInv'
  BY NextKeepsTicketInv, TicketAssumption
<1>3. TicketInv => OneTicketPerText
  BY DEF TicketInv
<1>4. QED
  BY <1>1, <1>2, <1>3, PTL DEF TicketsSpec

\* The pipeline keeps the promise that the sweeper builds on: a row is
\* inserted once, pending, and nothing else changes.
THEOREM TicketsKeepPromise == TicketsSpec => PromiseSpec
<1>1. TicketsInit => TicketInv /\ PromiseInit
  BY InitIsTicketInv DEF TicketsInit
<1>2. TicketInv /\ [TicketsNext]_pipelineVars => TicketInv' /\ [PromiseNext]_promiseVars
  BY NextKeepsTicketInv, TicketAssumption
<1>3. QED
  BY <1>1, <1>2, PTL DEF TicketsSpec, PromiseSpec
=============================================================================
