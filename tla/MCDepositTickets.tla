-------------------------- MODULE MCDepositTickets --------------------------
(* Four calls with two texts of one transaction, a channel of two and one   *)
(* permit: calls wait in the channel, in the dispatcher's hand and for the  *)
(* permit, and the fourth may find the channel full.                        *)
EXTENDS DepositTickets, TLC

CONSTANTS d1, d2, t1, u1, r1, r2, r3, r4

MCHashOf == [r \in Calls |-> IF r \in {r1, r2} THEN d1 ELSE d2]
MCTxOf == [d \in Deposits |-> t1]
MCWalletOf == [d \in Deposits |-> u1]
MCKcAmount == [d \in Deposits |-> 1]
=============================================================================
