-------------------------- MODULE MCDepositSweeper --------------------------
(* Three texts, of two transactions of one wallet, swept by two workers.    *)
(* KuCoin received less than the calldata says of the transaction of d1.    *)
EXTENDS DepositSweeper, TLC

CONSTANTS d1, d2, e2, t1, t2, u1, w1, w2

MCTxOf == [d \in Deposits |-> IF d = d1 THEN t1 ELSE t2]
MCWalletOf == [d \in Deposits |-> u1]
MCKcAmount == [d \in Deposits |-> IF d = d1 THEN 2 ELSE 1]
MCTxAmount == [d \in Deposits |-> IF d = d1 THEN 3 ELSE 1]
=============================================================================
