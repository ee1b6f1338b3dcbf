-------------------------------- MODULE PnL --------------------------------
(***************************************************************************)
(* The money math of a closed round trip                                   *)
(* (trade-engine/src/reconciler/pnl.rs and its use in settle.rs).          *)
(* Decimal amounts are integers, counted in the smallest unit of the quote *)
(* currency; a price is quote units per unit of base.                      *)
(***************************************************************************)
EXTENDS Integers

Sides == {"buy", "sell"}

\* The currency named by an order's fee: the pair's quote, its base, or none
\* of the two (absent, or a third asset).
FeeCurrencies == {"quote", "base", "other"}

MaxOf(a, b) == IF a >= b THEN a ELSE b

FeeInQuote(fee, currency, fillPrice) ==
  IF currency = "base" THEN fee * fillPrice ELSE fee

RealizedPnl(side, basis, proceeds, fees) ==
  IF side = "sell" THEN basis - proceeds - fees ELSE proceeds - basis - fees

\* Mutant: the loss is not capped.
CapLossNone(raw, committed) == raw

CapLoss(raw, committed) == MaxOf(raw, -committed)

CloseCredit(committed, pnl) == committed + pnl

-----------------------------------------------------------------------------
(***************************************************************************)
(* What settle_filled books for a close whose entry committed "committed": *)
(* the persisted PnL, and the amount credited to the contract.             *)
(***************************************************************************)

BookedPnl(raw, committed) == CapLoss(raw, committed)

CreditToAdd(raw, committed) ==
  MaxOf(CloseCredit(committed, BookedPnl(raw, committed)), 0)
=============================================================================
