------------------------------ MODULE MCBacktest ------------------------------
(* Entry models like those of ExecModel::focused, on prices 1..3.             *)
EXTENDS Backtest

MCModels ==
  {[entry |-> "market", valid |-> 1, offset |-> 0, buffer |-> 0],
   [entry |-> "limit", valid |-> 1, offset |-> 0, buffer |-> 1],
   [entry |-> "limit", valid |-> 2, offset |-> 1, buffer |-> 0]}

MCFees == {[amount |-> 0, currency |-> "other"]} \cup [amount : {1}, currency : FeeCurrencies]
=============================================================================
