------------------------------ MODULE MCResearch ------------------------------
(* Two candidates on two symbols of twenty candles.  The histories win, lose, *)
(* cross from the validation into the holdout, turn in the holdout, pay just  *)
(* the costs of one rung of the ladder, and are too thin.                     *)
EXTENDS Research

CONSTANTS base, wide, btc, eth

MCRank == [c \in {base, wide} |-> IF c = base THEN 1 ELSE 2]
MCLadder == <<0, 1, 2, 4>>
MCThresholds == [trades |-> 3, dd |-> 60, folds |-> 2, symbols |-> 2, share |-> 70]

MCTrade(at, exit, gross, mark) ==
  [at |-> at, exit |-> exit, gross |-> gross, mark |-> mark,
   short |-> at = 12, target |-> gross > 0, limit |-> at # 13]

MCWins(gross) ==
  {MCTrade(8, 9, gross, 1), MCTrade(11, 12, gross, 1), MCTrade(12, 13, gross, 1),
   MCTrade(14, 15, gross, 1), MCTrade(17, 18, gross, 1)}

MCLate ==
  {MCTrade(8, 9, 4, 1), MCTrade(12, 14, 4, 1),
   MCTrade(13, 17, -4, 2), MCTrade(14, 15, 4, 1), MCTrade(17, 18, -4, 1)}
MCThin == {MCTrade(8, 9, 7, 1), MCTrade(12, 13, 7, -1), MCTrade(16, 17, 7, -5)}
MCLoss == {MCTrade(12, 13, -4, -1)}

MCPairs == {<<MCWins(4), MCWins(4)>>, <<MCWins(4), MCWins(2)>>, <<MCWins(4), MCLate>>,
            <<MCWins(2), MCWins(2)>>, <<MCWins(2), MCThin>>, <<MCWins(4), MCLoss>>,
            <<MCWins(-4), MCWins(4)>>, <<MCLate, MCLate>>, <<MCLate, MCThin>>}

MCData ==
  {[c \in {base, wide} |-> IF c = base THEN b ELSE w] :
     b \in {[s \in {btc, eth} |-> MCWins(4)], [s \in {btc, eth} |-> MCLoss]},
     w \in {[s \in {btc, eth} |-> IF s = btc THEN p[1] ELSE p[2]] : p \in MCPairs}}

MCLock == [candidate |-> wide, symbols |-> {btc, eth}, trades |-> 6, wins |-> 2, hash |-> "h0"]

MCLockEdits == {[MCLock EXCEPT !.trades = 1, !.wins = 1],
                [MCLock EXCEPT !.symbols = {btc}, !.hash = "h1"],
                [MCLock EXCEPT !.hash = "h1"]}
=============================================================================
