------------------------------- MODULE Backtest -------------------------------
(***************************************************************************)
(* One stretch of market data, traded three ways at once:                  *)
(*   - by the simulator of the analyzer's harness (harness/sim.rs);        *)
(*   - by its execution models, market and limit entries                   *)
(*     (harness/sweep/execution.rs);                                       *)
(*   - by the trade engine, which polls every tick of the candles the      *)
(*     simulators see only as open, high, low and close                    *)
(*     (position_exit/decision.rs, reconciler/settle.rs).                  *)
(*                                                                         *)
(* A step is one candle: its ticks move by at most one, while a new candle *)
(* may open anywhere.  A signal is the one the driver may emit at a close. *)
(* Prices are integers that divide Unit, the fund of one position, so that *)
(* every amount is exact; percentages of a price are numbers of ticks.     *)
(***************************************************************************)
EXTENDS PnL, FiniteSets, Sequences, FiniteSetsExt, SequencesExt, Functions

CONSTANTS
  MaxPrice,        \* bound: prices are 1..MaxPrice
  MaxTicks,        \* bound: ticks of a candle
  Length,          \* candles of the partition after its warm-up
  Unit,            \* half of the initial fund
  Models,          \* execution models: [entry, valid, offset, buffer]
  Atrs, SlMult, TpMult, MaxSl,  \* volatilities, their multiples, and the cap on a stop
  Maker, Taker, Slip,           \* costs of a leg, per unit of CostUnit
  Fees             \* what the exchange may charge the engine for one leg

Prices == 1 .. MaxPrice

ASSUME BacktestAssumption ==
  /\ MaxPrice \in Nat \ {0} /\ MaxTicks \in Nat \ {0} /\ Length \in Nat \ {0}
  /\ Unit \in Nat \ {0} /\ \A p \in Prices : Unit % p = 0
  /\ \A m \in Models : /\ m.entry \in {"market", "limit"}
                       /\ m.valid \in Nat \ {0} /\ m.offset \in Nat /\ m.buffer \in Nat
  /\ Atrs \subseteq Nat /\ {SlMult, TpMult, MaxSl} \subseteq Nat \ {0}
  /\ {Maker, Taker, Slip} \subseteq Nat
  /\ Fees # {} /\ Fees \subseteq [amount : Nat, currency : FeeCurrencies]

VARIABLES
  index,   \* candles done
  signal,  \* what the driver emitted at the last close
  mark,    \* the last close
  sim,     \* the simulator's account
  exec,    \* the account of each execution model
  live     \* what the engine's round trips that end with the last candle may come to

vars == <<index, signal, mark, sim, exec, live>>

NoSignal == [id |-> 0, side |-> "none", entry |-> 0, sl |-> 0, tp |-> 0]
NoExit == [reason |-> "none", price |-> 0]

Ended == index > Length

\* An account: trades are the ones closed by the last candle, closed, gross and
\* net count and add up all of them.
NewAccount == [available |-> 2 * Unit, pending |-> << >>, open |-> {}, trades |-> {},
               closed |-> 0, gross |-> 0, net |-> 0,
               signals |-> 0, expired |-> 0, skipped |-> 0, invalid |-> 0]

Init ==
  /\ index = 0 /\ signal = NoSignal /\ mark = 1
  /\ sim = NewAccount
  /\ exec = [m \in Models |-> NewAccount]
  /\ live = {}

-----------------------------------------------------------------------------
(* Candles and signals.                                                    *)

Paths == {p \in UNION {[1..n -> Prices] : n \in 1..MaxTicks} :
            \A i \in 1..(Len(p) - 1) : p[i + 1] - p[i] \in {-1, 1}}

CandleOf(path) == [open |-> path[1], high |-> Max(Range(path)), low |-> Min(Range(path)),
                   close |-> Last(path)]

\* levels: multiples of the ATR around the close, with the stop capped; zeros
\* when there is no ATR yet.
Levels(side, close, atr) ==
  LET up(d) == IF side = "buy" THEN close + d ELSE close - d
      sl == Min({atr * SlMult, MaxSl})
  IN  IF atr = 0 THEN [sl |-> 0, tp |-> 0] ELSE [sl |-> up(-sl), tp |-> up(atr * TpMult)]

SignalAt(i, side, close, atr) ==
  [id |-> i, side |-> side, entry |-> close,
   sl |-> Levels(side, close, atr).sl, tp |-> Levels(side, close, atr).tp]

\* geometry_ok: the levels are on their sides of the entry.
GeometryOk(s) == IF s.side = "buy" THEN s.sl < s.entry /\ s.entry < s.tp
                                   ELSE s.tp < s.entry /\ s.entry < s.sl

-----------------------------------------------------------------------------
(* Positions, in both simulators.                                          *)

Stopped(p, price) == IF p.side = "buy" THEN price <= p.sl ELSE price >= p.sl
Reached(p, price) == IF p.side = "buy" THEN price >= p.tp ELSE price <= p.tp
Against(p, k) == IF p.side = "buy" THEN k.low ELSE k.high
Towards(p, k) == IF p.side = "buy" THEN k.high ELSE k.low

\* Mutant: the target is looked at before the stop.
ExitForTargetFirst(p, k) ==
  IF Stopped(p, k.open) THEN [reason |-> "gap_sl", price |-> k.open]
  ELSE IF Reached(p, k.open) THEN [reason |-> "gap_tp", price |-> k.open]
  ELSE IF Reached(p, Towards(p, k)) THEN [reason |-> "TP", price |-> p.tp]
  ELSE IF Stopped(p, Against(p, k)) THEN [reason |-> "SL", price |-> p.sl]
  ELSE NoExit

\* exit_for: the open first, then the stop, then the target.
ExitFor(p, k) ==
  IF Stopped(p, k.open) THEN [reason |-> "gap_sl", price |-> k.open]
  ELSE IF Reached(p, k.open) THEN [reason |-> "gap_tp", price |-> k.open]
  ELSE IF Stopped(p, Against(p, k)) THEN [reason |-> "SL", price |-> p.sl]
  ELSE IF Reached(p, Towards(p, k)) THEN [reason |-> "TP", price |-> p.tp]
  ELSE NoExit

StopExitFor(p, k) ==
  IF Stopped(p, k.open) THEN [reason |-> "gap_sl", price |-> k.open]
  ELSE IF Stopped(p, Against(p, k)) THEN [reason |-> "SL", price |-> p.sl]
  ELSE NoExit

\* The gain of a position marked at a price, and as booked when it closes.
Unrealized(p, price) ==
  LET gain == (Unit \div p.fill) * price - Unit IN IF p.side = "buy" THEN gain ELSE -gain
Gross(p, price) == MaxOf(Unrealized(p, price), -Unit)

OpenPosition(a, s, fill, i, leave) ==
  [a EXCEPT !.available = @ - Unit,
            !.open = @ \cup {[id |-> s.id, side |-> s.side, entry |-> s.entry, sl |-> s.sl,
                              tp |-> s.tp, fill |-> fill, in |-> i, leave |-> leave]}]

Trade(p, x, i) == [id |-> p.id, fill |-> p.fill, exit |-> x.price, pnl |-> Gross(p, x.price),
                   reason |-> x.reason, out |-> i]

\* The gain less the costs of both legs on their notionals, times CostUnit.
CostUnit == 100
Net(gain, p, price, entryRate, exitRate) ==
  CostUnit * gain - entryRate * Unit - exitRate * (Unit \div p.fill) * price

Reasons == {"gap_sl", "gap_tp", "SL", "TP", "eod"}

\* Close every position that has an exit, at the rates of its legs.
CloseAll(a, exit, entryRate, exitRate, i) ==
  LET out == {p \in a.open : exit[p] # NoExit}
      gain == [p \in out |-> Gross(p, exit[p].price)]
      net == [p \in out |-> Net(gain[p], p, exit[p].price, entryRate, exitRate[exit[p].reason])]
  IN  [a EXCEPT !.open = @ \ out,
                !.trades = {Trade(p, exit[p], i) : p \in out},
                !.closed = @ + Cardinality(out),
                !.gross = @ + SumFunctionOnSet(gain, out),
                !.net = @ + SumFunctionOnSet(net, out),
                !.available = @ + Unit * Cardinality(out) + SumFunctionOnSet(gain, out)]

-----------------------------------------------------------------------------
(* simulate: the signal of the last candle fills at this open, then exits. *)

SimFill(a, s, k, i) ==
  IF s = NoSignal THEN a
  ELSE IF ~GeometryOk(s) THEN [a EXCEPT !.invalid = @ + 1]
  ELSE IF a.available < Unit THEN [a EXCEPT !.skipped = @ + 1]
  ELSE OpenPosition(a, s, k.open, i, "all")

BaseRate == Taker + Slip  \* CostScenario::base

SimStep(a, s, k, i) ==
  LET b == SimFill(a, s, k, i)
  IN  CloseAll(b, [p \in b.open |-> ExitFor(p, k)], BaseRate, [x \in Reasons |-> BaseRate], i)

\* metrics_from_outcome: what is open at the end is marked at the last close
\* and pays an estimated exit.
OpenNet(a, close) ==
  SumFunctionOnSet([p \in a.open |-> Net(Unrealized(p, close), p, close, BaseRate, BaseRate)],
                   a.open)

-----------------------------------------------------------------------------
(* simulate_execution.                                                     *)

\* Mutant: a fill beyond the stop is not refused.
LimitFillAny(s, k, m) ==
  LET away(d) == IF s.side = "buy" THEN s.entry - d ELSE s.entry + d
      through(x) == IF s.side = "buy" THEN x <= away(m.offset + m.buffer)
                                      ELSE x >= away(m.offset + m.buffer)
  IN  IF Stopped(s, away(m.offset)) THEN [price |-> 0, fill |-> "beyond_stop"]
      ELSE IF through(k.open) THEN [price |-> k.open, fill |-> "filled"]
      ELSE IF through(Against(s, k)) THEN [price |-> away(m.offset), fill |-> "filled"]
      ELSE [price |-> 0, fill |-> "no_fill"]

\* limit_fill: traded through the limit by the buffer, at the limit or at an
\* open through it, and never beyond the stop.
LimitFill(s, k, m) ==
  LET away(d) == IF s.side = "buy" THEN s.entry - d ELSE s.entry + d
      limit == away(m.offset)
      through(x) == IF s.side = "buy" THEN x <= away(m.offset + m.buffer)
                                      ELSE x >= away(m.offset + m.buffer)
      price == IF through(k.open) THEN k.open ELSE limit
  IN  [price |-> price,
       fill |-> CASE Stopped(s, limit) -> "beyond_stop"
                  [] ~Stopped(s, limit) /\ ~through(k.open) /\ ~through(Against(s, k)) -> "no_fill"
                  [] OTHER -> IF Stopped(s, price) THEN "beyond_stop" ELSE "filled"]

\* A pending order on the next candle.
WorkMarket(a, s, k, i) ==
  IF a.available >= Unit THEN OpenPosition(a, s, k.open, i, "all")
                         ELSE [a EXCEPT !.skipped = @ + 1]

\* Mutant: a fill refused for its stop is not counted.
WorkLimitUncounted(a, s, k, i, m) ==
  LET f == LimitFill(s, k, m) IN
  CASE i > s.id + m.valid -> [a EXCEPT !.expired = @ + 1]
    [] i <= s.id + m.valid /\ f.fill = "no_fill" -> [a EXCEPT !.pending = Append(@, s)]
    [] i <= s.id + m.valid /\ f.fill = "beyond_stop" -> a
    [] OTHER -> WorkMarket(a, s, [open |-> f.price], i)

WorkLimit(a, s, k, i, m) ==
  LET f == LimitFill(s, k, m) IN
  CASE i > s.id + m.valid -> [a EXCEPT !.expired = @ + 1]
    [] i <= s.id + m.valid /\ f.fill = "no_fill" -> [a EXCEPT !.pending = Append(@, s)]
    [] i <= s.id + m.valid /\ f.fill = "beyond_stop" -> [a EXCEPT !.invalid = @ + 1]
    [] OTHER -> IF a.available < Unit THEN [a EXCEPT !.skipped = @ + 1]
                ELSE OpenPosition(a, s, f.price, i,
                                  IF Stopped(s, Against(s, k)) THEN "stop" ELSE "none")

WorkOne(a, s, k, i, m) ==
  IF m.entry = "market" THEN WorkMarket(a, s, k, i) ELSE WorkLimit(a, s, k, i, m)

\* Pending orders are drained in order; those that stay are pushed again.
Work(a, k, i, m) ==
  LET drained[n \in 0 .. Len(a.pending)] ==
        IF n = 0 THEN [a EXCEPT !.pending = << >>]
                 ELSE WorkOne(drained[n - 1], a.pending[n], k, i, m)
  IN  drained[Len(a.pending)]

\* Mutant: no entry takes profit on its entry candle.
ExecExitLater(p, k, i) == IF p.in # i THEN ExitFor(p, k) ELSE StopExitFor(p, k)

\* On its entry candle a limit entry leaves through its stop or not at all.
ExecExit(p, k, i) ==
  IF p.in # i \/ p.leave = "all" THEN ExitFor(p, k)
  ELSE IF p.leave = "stop" THEN StopExitFor(p, k)
  ELSE NoExit

\* A signal of the last candle can never fill.
Queue(a, s, i) ==
  IF s = NoSignal THEN a
  ELSE LET b == [a EXCEPT !.signals = @ + 1] IN
       IF ~GeometryOk(s) THEN [b EXCEPT !.invalid = @ + 1]
       ELSE IF i = Length THEN [b EXCEPT !.expired = @ + 1]
       ELSE [b EXCEPT !.pending = Append(@, s)]

EntryRate(m) == IF m.entry = "market" THEN Taker + Slip ELSE Maker
ExitRate(m, reason) == IF m.entry = "limit" /\ reason = "TP" THEN Maker ELSE Taker + Slip

ExecClose(a, exit, i, m) == CloseAll(a, exit, EntryRate(m), [x \in Reasons |-> ExitRate(m, x)], i)

ExecStep(a, s, k, i, m) ==
  LET b == Work(a, k, i, m)
  IN  Queue(ExecClose(b, [p \in b.open |-> ExecExit(p, k, i)], i, m), s, i)

\* The end of the data: nothing stays pending or open.
ExecEnd(a, close, m) ==
  LET b == [a EXCEPT !.expired = @ + Len(a.pending), !.pending = << >>]
  IN  ExecClose(b, [p \in b.open |-> [reason |-> "eod", price |-> close]], Length, m)

-----------------------------------------------------------------------------
(* The trade engine on the same positions.                                 *)

\* evaluate_exit: take-profit is looked at first.
EvaluateExit(side, price, tp, sl) ==
  LET reached(level, up) == IF up THEN price >= level ELSE price <= level
      long == side = "buy"
  IN  CASE reached(tp, long) -> "TP"
        [] ~reached(tp, long) /\ reached(sl, ~long) -> "SL"
        [] OTHER -> "none"

\* The ticks at which sweep_once would decide to exit a position.
Hits(p, path) == {j \in 1..Len(path) : EvaluateExit(p.side, path[j], p.tp, p.sl) # "none"}

\* Mutant: the persisted PnL without the cap of the loss.
BookRaw(raw, committed) ==
  [booked |-> raw, credit |-> CreditToAdd(raw, committed)]

\* settle_filled books the PnL and credits the contract.
Book(raw, committed) ==
  [booked |-> BookedPnl(raw, committed), credit |-> CreditToAdd(raw, committed)]

\* A round trip of one unit of base: decided at the first tick that reaches a
\* level, filled late ticks later, with the same fee on both legs.
RoundTrip(p, path, late, fee) ==
  LET j == Min(Hits(p, path))
      exit == path[Min({j + late, Len(path)})]
      fees == FeeInQuote(fee.amount, fee.currency, p.fill)
                + FeeInQuote(fee.amount, fee.currency, exit)
      raw == RealizedPnl(p.side, p.fill, exit, fees)
  IN  [id |-> p.id, side |-> p.side, entry |-> p.entry, fill |-> p.fill, polled |-> path[j],
       reason |-> EvaluateExit(p.side, path[j], p.tp, p.sl), exit |-> exit, fees |-> fees,
       booked |-> Book(raw, p.entry).booked, credit |-> Book(raw, p.entry).credit, gain |-> Gross(p, path[j])]

LiveStep(open, path) ==
  {RoundTrip(p, path, late, fee) :
     p \in {q \in open : Hits(q, path) # {}}, late \in 0..1, fee \in Fees}

-----------------------------------------------------------------------------
\* What the driver may emit at a close.
SignalsAt(close) ==
  {NoSignal} \cup {SignalAt(index + 1, side, close, atr) : side \in Sides, atr \in Atrs}

Candle(path) ==
  LET k == CandleOf(path) IN
  /\ index < Length
  /\ index' = index + 1
  /\ mark' = k.close
  /\ sim' = SimStep(sim, signal, k, index + 1)
  /\ live' = LiveStep(SimFill(sim, signal, k, index + 1).open, path)
  /\ signal' \in SignalsAt(k.close)
  /\ exec' = [m \in Models |-> ExecStep(exec[m], signal', k, index + 1, m)]

Finish ==
  /\ index = Length
  /\ index' = index + 1
  /\ exec' = [m \in Models |-> ExecEnd(exec[m], mark, m)]
  /\ live' = {}
  /\ UNCHANGED <<signal, mark, sim>>

Next == (\E path \in Paths : Candle(path)) \/ Finish

Spec == Init /\ [][Next]_vars

-----------------------------------------------------------------------------
Accounts == {sim} \cup Range(exec)

\* The simulator never books more than a trader who watches every tick and is
\* filled at the price it decided on, whatever the order of the ticks in the
\* candle, and never holds on where that trader leaves: the stop before the
\* target in exit_for (harness/sim.rs), the target before the stop in
\* evaluate_exit (position_exit/decision.rs).
NeverOptimistic ==
  ~Ended =>
    /\ {t.id : t \in sim.trades} = {l.id : l \in live}
    /\ \A t \in sim.trades, l \in live : t.id = l.id => t.pnl <= l.gain

\* What the cap on the loss of a short is worth to the positions still open.
CapOfOpen(a, close) ==
  SumFunctionOnSet([p \in a.open |-> CostUnit * (Gross(p, close) - Unrealized(p, close))], a.open)

\* The market model trades "exactly like sim.rs" (harness/sweep/execution.rs,
\* SameCandleExit): the same positions and trades at every candle, and in the
\* end the same PnL after costs as the base scenario, except that what is still
\* open is closed at the last price, with the loss of a short capped.
MarketMatchesSim ==
  \A m \in {n \in Models : n.entry = "market"} :
    IF ~Ended THEN /\ exec[m].trades = sim.trades /\ exec[m].open = sim.open
                   /\ exec[m].available = sim.available
    ELSE exec[m].net = sim.net + OpenNet(sim, mark) + CapOfOpen(sim, mark)

\* Fund and signals add up in every account: what is available and what is
\* reserved is the initial fund and the gains, and a signal the execution models
\* were given is a trade, a position or a pending order, or was counted as
\* expired, skipped or invalid, once.
AccountsExplained ==
  /\ \A a \in Accounts : a.available + Unit * Cardinality(a.open) = 2 * Unit + a.gross
  /\ \A m \in Models :
       LET a == exec[m] IN
       a.signals = a.closed + Cardinality(a.open) + Len(a.pending)
                     + a.expired + a.skipped + a.invalid

\* A limit entry that leaves through its stop has lost: no phantom profitable
\* gap_sl (limit_fill, harness/sweep/execution.rs).
StopsLose ==
  \A m \in {n \in Models : n.entry = "limit"} :
    \A t \in exec[m].trades : t.reason \in {"SL", "gap_sl"} => t.pnl < 0

\* "The persisted PnL always matches the contract's balance change" (pnl.rs):
\* the credit minus the fund the entry took, with any fees and a loss beyond
\* the fund.  And a round trip filled at the prices decided on gains before
\* fees when it takes profit and loses when it is stopped: decision.rs and
\* pnl.rs branch on the side independently.
BookedMatchesBalance ==
  \A l \in live :
    /\ l.booked = l.credit - l.entry
    /\ l.exit = l.polled /\ l.fill = l.entry =>
         /\ l.reason = "TP" => l.booked + l.fees >= 1
         /\ l.reason = "SL" => l.booked < 0
=============================================================================
