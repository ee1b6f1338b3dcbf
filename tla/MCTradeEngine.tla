---------------------------- MODULE MCTradeEngine ----------------------------
(* Instances of TradeEngine.  Each contract is given 4, so its order budget *)
(* is 2: two entries of 2 exhaust it and a third is refused.                *)
EXTENDS TradeEngine, TLC

CONSTANTS c1, e1, e2, e3, x1, x2, x3, g1, g2

MCInitFund == [c \in Contracts |-> 4]
MCContractOf == [e \in Entries |-> c1]
MCFund == [e \in Entries |-> 2]
MCRawPnl == {-3, 1}
MCRawLoss == {-3}

\* x1 and x2 are attempts to exit e1, x3 is one to exit e2.
MCEntryOf == [x \in Exits |-> IF x = x3 THEN e2 ELSE e1]
NoEntryOf == << >>

\* Engines differ in nothing but their names.
EngineSymmetry == Permutations(Engines)
=============================================================================
