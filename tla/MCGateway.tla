------------------------------- MODULE MCGateway -------------------------------
(* Two requests at a time of two wallets, over every kind of request.         *)
EXTENDS Gateway, TLC

CONSTANTS r1, r2, wa, wb, x1

MCTxFrom == x1 :> wa
MCTxAmount == x1 :> 2
MCSymmetry == Permutations({r1, r2})
=============================================================================
