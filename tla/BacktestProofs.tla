---------------------------- MODULE BacktestProofs ----------------------------
(***************************************************************************)
(* For any prices, candles, execution models and costs, the backtest never *)
(* flatters the strategy: the simulator books no more than the engine      *)
(* could, the market model is the simulator, a stop of a limit entry       *)
(* loses, every fund and signal is explained, and what settle_filled books *)
(* is what it credits.  The inductive invariant speaks of ids, of levels   *)
(* around entries and of fills short of stops.                             *)
(***************************************************************************)
EXTENDS Backtest, SumTheorems

Signals == [id : Nat, side : Sides, entry : Prices, sl : Int, tp : Int]

Orders == {s \in Signals : GeometryOk(s)}

Positions ==
  {p \in [id : Nat, side : Sides, entry : Prices, sl : Int, tp : Int, fill : Prices,
          in : Nat, leave : {"all", "stop", "none"}] : GeometryOk(p)}

ClosedTrades ==
  [id : Nat, fill : Prices, exit : Int, pnl : Int, reason : Reasons, out : Nat]

AccountRecords ==
  [available : Int, pending : Seq(Orders), open : SUBSET Positions,
   trades : SUBSET ClosedTrades, closed : Int, gross : Int, net : Int,
   signals : Int, expired : Int, skipped : Int, invalid : Int]

\* No id names two of the account's positions and orders, and the driver has
\* given out ids up to n.
UniqueIds(a, n) ==
  /\ \A p \in a.open : p.id <= n
  /\ \A p, q \in a.open : p.id = q.id => p = q
  /\ \A j \in 1 .. Len(a.pending) : a.pending[j].id <= n
  /\ \A j, l \in 1 .. Len(a.pending) : a.pending[j].id = a.pending[l].id => j = l
  /\ \A p \in a.open : \A j \in 1 .. Len(a.pending) : p.id # a.pending[j].id

FundExplained(a) == a.available + Unit * Cardinality(a.open) = 2 * Unit + a.gross

Counts(a) == a.expired + a.skipped + a.invalid

Held(a) == Cardinality(a.open) + Len(a.pending) + Counts(a)

SignalsExplained(a) == a.signals = a.closed + Held(a)

AccountInv(a, n) ==
  /\ a \in AccountRecords
  /\ IsFiniteSet(a.open)
  /\ UniqueIds(a, n)
  /\ FundExplained(a)

\* What the driver emitted at the last close.
SignalInv ==
  \/ signal = NoSignal
  \/ signal \in Signals /\ (~Ended => signal.id = index)

SimInv ==
  /\ AccountInv(sim, index - 1)
  /\ \A p \in sim.open : p.leave = "all"

\* A limit entry that was filled is short of its stop.
LimitInv(a) ==
  /\ \A p \in a.open : ~Stopped(p, p.fill)
  /\ \A t \in a.trades : t.reason \in {"SL", "gap_sl"} => t.pnl < 0

\* Before the end a market model holds what the simulator holds, and the order
\* that the simulator will look at with the next candle.
OrderOf(s, i) == IF s # NoSignal /\ GeometryOk(s) /\ i < Length THEN <<s>> ELSE << >>

MarketInv(a) ==
  IF Ended THEN a.net = sim.net + OpenNet(sim, mark) + CapOfOpen(sim, mark)
  ELSE /\ a.trades = sim.trades /\ a.open = sim.open /\ a.available = sim.available
       /\ a.net = sim.net
       /\ a.pending = OrderOf(signal, index)

ExecInv(m) ==
  /\ AccountInv(exec[m], index)
  /\ SignalsExplained(exec[m])
  /\ m.entry = "limit" => LimitInv(exec[m])
  /\ m.entry = "market" => MarketInv(exec[m])

BacktestInv ==
  /\ index \in 0 .. (Length + 1)
  /\ mark \in Prices
  /\ SignalInv
  /\ SimInv
  /\ \A m \in Models : ExecInv(m)
  /\ DOMAIN exec = Models

-----------------------------------------------------------------------------
(* Amounts.                                                                *)

\* A position holds at least one unit of base, and Unit in quote exactly.
LEMMA UnitsOfBase ==
  ASSUME NEW fill \in Prices
  PROVE  /\ fill \in Nat \ {0} /\ Unit \in Nat \ {0}
         /\ Unit \div fill \in Nat \ {0}
         /\ (Unit \div fill) * fill = Unit
<1>1. fill \in Nat \ {0} /\ Unit \in Nat \ {0} /\ Unit % fill = 0
  BY BacktestAssumption DEF Prices
<1>2. QED
  BY ONLY <1>1, Z3

LEMMA ProductGrows ==
  ASSUME NEW c \in Nat, NEW x \in Int, NEW y \in Int, x <= y
  PROVE  c * x \in Int /\ c * y \in Int /\ c * x <= c * y
<1>1. c * (y - x) >= 0
  OBVIOUS
<1>2. QED
  BY <1>1

LEMMA ProductGrowsStrictly ==
  ASSUME NEW c \in Nat \ {0}, NEW x \in Int, NEW y \in Int, x < y
  PROVE  c * x \in Int /\ c * y \in Int /\ c * x < c * y
<1>1. c * (y - x) > 0
  OBVIOUS
<1>2. QED
  BY <1>1

\* A long gains with the price, a short loses with it.
LEMMA GrossIsMonotone ==
  ASSUME NEW p, p.fill \in Prices,
         NEW x \in Int, NEW y \in Int,
         IF p.side = "buy" THEN x <= y ELSE y <= x
  PROVE  /\ Unrealized(p, x) \in Int /\ Gross(p, x) \in Int
         /\ Gross(p, y) \in Int
         /\ Gross(p, x) <= Gross(p, y)
<1> DEFINE c == Unit \div p.fill
<1>1. c \in Nat /\ Unit \in Nat
  BY UnitsOfBase
<1>2. /\ c * x \in Int /\ c * y \in Int
      /\ p.side = "buy" => c * x <= c * y
      /\ p.side # "buy" => c * y <= c * x
  <2> HIDE DEF c
  <2>1. QED
    BY <1>1, ProductGrows
<1>3. QED
  BY <1>1, <1>2 DEF Gross, Unrealized, MaxOf

\* Below its fill a long has lost, above it a short.
LEMMA BeyondFillLoses ==
  ASSUME NEW p, p.fill \in Prices, NEW x \in Int,
         IF p.side = "buy" THEN x < p.fill ELSE x > p.fill
  PROVE  Gross(p, x) < 0
<1> DEFINE c == Unit \div p.fill
<1>1. c \in Nat \ {0} /\ Unit \in Nat \ {0} /\ c * p.fill = Unit /\ p.fill \in Int
  BY UnitsOfBase
<1>2. /\ c * x \in Int
      /\ p.side = "buy" => c * x < Unit
      /\ p.side # "buy" => Unit < c * x
  <2> HIDE DEF c
  <2>1. QED
    BY <1>1, ProductGrowsStrictly
<1>3. QED
  BY <1>1, <1>2 DEF Gross, Unrealized, MaxOf

-----------------------------------------------------------------------------
(* Candles.                                                                *)

\* A candle spans its ticks, which are prices, and reaches its low and high.
LEMMA CandleSpansTicks ==
  ASSUME NEW path \in Paths
  PROVE  LET k == CandleOf(path) IN
         /\ Len(path) \in Nat \ {0}
         /\ path \in [1 .. Len(path) -> Prices]
         /\ \A j \in 1 .. (Len(path) - 1) : path[j + 1] - path[j] \in {-1, 1}
         /\ k.open = path[1] /\ {k.open, k.high, k.low, k.close} \subseteq Prices
         /\ \A j \in 1 .. Len(path) : k.low <= path[j] /\ path[j] <= k.high
         /\ \E j \in 1 .. Len(path) : path[j] = k.low
         /\ \E j \in 1 .. Len(path) : path[j] = k.high
<1>1. PICK n \in 1 .. MaxTicks : path \in [1 .. n -> Prices]
  BY DEF Paths
<1>2. n \in Nat \ {0}
  BY BacktestAssumption
<1>3. Len(path) = n
  BY <1>1, <1>2
<1>4. \A j \in 1 .. (n - 1) : path[j + 1] - path[j] \in {-1, 1}
  BY <1>3 DEF Paths
<1> DEFINE R == Range(path)
<1>5. R # {} /\ R \subseteq Prices /\ R \subseteq Int /\ IsFiniteSet(R)
  <2>1. Prices \subseteq Int
    BY BacktestAssumption DEF Prices
  <2>2. R = {path[j] : j \in 1 .. n}
    BY <1>1 DEF Range
  <2>3. IsFiniteSet(R)
    <3>1. IsFiniteSet(1 .. n)
      BY <1>2, FS_Interval
    <3>2. QED
      BY <2>2, <3>1, ImageIsFinite
  <2>4. path[1] \in R
    BY <1>2, <2>2
  <2>5. QED
    BY <1>1, <2>1, <2>2, <2>3, <2>4
<1>6. /\ Max(R) \in R /\ \A y \in R : Max(R) >= y
      /\ Min(R) \in R /\ \A y \in R : Min(R) <= y
  <2> HIDE DEF R
  <2>1. QED
    BY <1>5, MaxExists DEF Max, Min
<1>7. /\ \A j \in 1 .. n : path[j] \in R
      /\ \A y \in R : \E j \in 1 .. n : path[j] = y
  BY <1>1 DEF Range
<1>8. CandleOf(path) = [open |-> path[1], high |-> Max(R), low |-> Min(R), close |-> path[n]]
  BY <1>3 DEF CandleOf, Last
<1>9. path[1] \in Prices /\ path[n] \in Prices
  BY <1>1, <1>2
<1> HIDE DEF R
<1> DEFINE k == CandleOf(path)
<1>10. /\ k.open = path[1] /\ k.high = Max(R) /\ k.low = Min(R) /\ k.close = path[n]
       /\ {k.open, k.high, k.low, k.close} \subseteq Prices
  <2>1. k.open = path[1] /\ k.high = Max(R) /\ k.low = Min(R) /\ k.close = path[n]
    BY ONLY <1>8
  <2>2. Max(R) \in Prices /\ Min(R) \in Prices
    BY <1>5, <1>6
  <2> HIDE DEF k
  <2>3. QED
    BY <2>1, <2>2, <1>9
<1> HIDE DEF k
<1>11. /\ \A j \in 1 .. n : k.low <= path[j] /\ path[j] <= k.high
       /\ \E j \in 1 .. n : path[j] = k.low
       /\ \E j \in 1 .. n : path[j] = k.high
  BY <1>6, <1>7, <1>10
<1>12. QED
  BY <1>1, <1>2, <1>3, <1>4, <1>10, <1>11 DEF k

-----------------------------------------------------------------------------
(* Exits.                                                                  *)

LEMMA PositionTypes ==
  ASSUME NEW p \in Positions
  PROVE  /\ p.side \in {"buy", "sell"} /\ p.sl \in Int /\ p.tp \in Int
         /\ p.fill \in Prices /\ p.fill \in Nat \ {0}
         /\ p.entry \in Prices /\ p.entry \in Nat \ {0}
         /\ p.id \in Nat
         /\ p.side = "buy" => p.sl < p.entry /\ p.entry < p.tp
         /\ p.side = "sell" => p.tp < p.entry /\ p.entry < p.sl
  BY BacktestAssumption DEF Positions, Sides, Prices, GeometryOk

\* The engine and the simulators mean the same by a level that is reached.
LEMMA EngineLevels ==
  ASSUME NEW p, NEW x
  PROVE  /\ EvaluateExit(p.side, x, p.tp, p.sl) = "TP" <=> Reached(p, x)
         /\ EvaluateExit(p.side, x, p.tp, p.sl) = "SL" <=> ~Reached(p, x) /\ Stopped(p, x)
         /\ EvaluateExit(p.side, x, p.tp, p.sl) # "none" <=> Reached(p, x) \/ Stopped(p, x)
  BY DEF EvaluateExit, Reached, Stopped

\* An exit has a reason, a price, and, if it is a stop, a price beyond it.
LEMMA ExitKinds ==
  ASSUME NEW p \in Positions, NEW k,
         k.open \in Int, k.high \in Int, k.low \in Int,
         NEW x \in {ExitFor(p, k), StopExitFor(p, k)}, x # NoExit
  PROVE  /\ x.reason \in Reasons /\ x.price \in Int
         /\ x.reason \in {"SL", "gap_sl"} => Stopped(p, x.price)
  BY PositionTypes DEF ExitFor, StopExitFor, Reasons, Stopped

\* The simulator leaves on a candle if and only if some tick has the engine
\* leave.
LEMMA SimulatorLeavesWithEngine ==
  ASSUME NEW p \in Positions, NEW path \in Paths
  PROVE  ExitFor(p, CandleOf(path)) # NoExit <=> Hits(p, path) # {}
<1>0. /\ p.side \in {"buy", "sell"} /\ p.sl \in Int /\ p.tp \in Int
      /\ p.side = "buy" => p.sl < p.tp
      /\ p.side = "sell" => p.tp < p.sl
  BY PositionTypes
<1> DEFINE k == CandleOf(path)
<1>1. /\ Len(path) \in Nat \ {0} /\ path \in [1 .. Len(path) -> Int]
      /\ k.open = path[1] /\ k.open \in Int /\ k.low \in Int /\ k.high \in Int
      /\ \A j \in 1 .. Len(path) : k.low <= path[j] /\ path[j] <= k.high
      /\ \E j \in 1 .. Len(path) : path[j] = k.low
      /\ \E j \in 1 .. Len(path) : path[j] = k.high
  <2>1. Prices \subseteq Int
    BY DEF Prices
  <2>2. QED
    BY <2>1, CandleSpansTicks
<1> HIDE DEF k
<1>2. ExitFor(p, k) # NoExit <=> \/ Stopped(p, k.open) \/ Reached(p, k.open)
                                 \/ Stopped(p, Against(p, k)) \/ Reached(p, Towards(p, k))
  BY DEF ExitFor, NoExit
<1>3. Hits(p, path) # {} <=> \E j \in 1 .. Len(path) : Stopped(p, path[j]) \/ Reached(p, path[j])
  <2>1. \A j : j \in Hits(p, path) <=> j \in 1 .. Len(path) /\ (Reached(p, path[j]) \/ Stopped(p, path[j]))
    BY EngineLevels DEF Hits
  <2>2. QED
    BY <2>1
<1>4. ASSUME Stopped(p, k.open) \/ Reached(p, k.open)
             \/ Stopped(p, Against(p, k)) \/ Reached(p, Towards(p, k))
      PROVE  \E j \in 1 .. Len(path) : Stopped(p, path[j]) \/ Reached(p, path[j])
  <2>1. CASE Stopped(p, k.open) \/ Reached(p, k.open)
    <3>1. 1 \in 1 .. Len(path)
      BY <1>1
    <3>2. QED
      BY <1>1, <2>1, <3>1
  <2>2. CASE Stopped(p, Against(p, k)) \/ Reached(p, Towards(p, k))
    BY <1>1, <2>2 DEF Against, Towards
  <2>3. QED
    BY <1>4, <2>1, <2>2
<1>5. ASSUME NEW j \in 1 .. Len(path), Stopped(p, path[j]) \/ Reached(p, path[j])
      PROVE  Stopped(p, Against(p, k)) \/ Reached(p, Towards(p, k))
  <2>1. path[j] \in Int /\ k.low <= path[j] /\ path[j] <= k.high
    BY <1>1
  <2>2. CASE p.side = "buy"
    BY <1>0, <1>1, <1>5, <2>1, <2>2 DEF Stopped, Reached, Against, Towards
  <2>3. CASE p.side = "sell"
    BY <1>0, <1>1, <1>5, <2>1, <2>3 DEF Stopped, Reached, Against, Towards
  <2>4. QED
    BY <1>0, <2>2, <2>3
<1>6. QED
  BY <1>2, <1>3, <1>4, <1>5 DEF k

\* Ticks move by one: the tick at which the engine first leaves is no worse
\* than the price at which the simulator does.
LEMMA EngineLeavesNoWorse ==
  ASSUME NEW p \in Positions, NEW path \in Paths,
         Hits(p, path) # {}
  PROVE  LET x == ExitFor(p, CandleOf(path)).price
             tick == path[Min(Hits(p, path))]
         IN  /\ Min(Hits(p, path)) \in 1 .. Len(path)
             /\ Reached(p, tick) \/ Stopped(p, tick)
             /\ x \in Int /\ tick \in Int
             /\ IF p.side = "buy" THEN x <= tick ELSE tick <= x
<1>0. /\ p.side \in {"buy", "sell"} /\ p.sl \in Int /\ p.tp \in Int
      /\ p.side = "buy" => p.sl < p.tp
      /\ p.side = "sell" => p.tp < p.sl
  BY PositionTypes
<1> DEFINE k == CandleOf(path)
           H == Hits(p, path)
           j == Min(H)
<1>1. /\ Len(path) \in Nat \ {0} /\ path \in [1 .. Len(path) -> Int]
      /\ k.open = path[1] /\ k.open \in Int /\ k.low \in Int /\ k.high \in Int
      /\ \A i \in 1 .. Len(path) : k.low <= path[i] /\ path[i] <= k.high
      /\ \A i \in 1 .. (Len(path) - 1) : path[i + 1] - path[i] \in {-1, 1}
  <2>1. Prices \subseteq Int
    BY DEF Prices
  <2>2. QED
    BY <2>1, CandleSpansTicks
<1>2. \A i : i \in H <=> i \in 1 .. Len(path) /\ (Reached(p, path[i]) \/ Stopped(p, path[i]))
  BY EngineLevels DEF Hits
<1>3. ExitFor(p, k) # NoExit
  BY SimulatorLeavesWithEngine
<1> HIDE DEF k, H
<1>4. j \in H /\ \A i \in H : j <= i
  <2>1. H \subseteq 1 .. Len(path) /\ H # {}
    BY <1>2 DEF H
  <2>2. IsFiniteSet(H) /\ H \subseteq Int
    <3>1. IsFiniteSet(1 .. Len(path)) /\ 1 .. Len(path) \subseteq Int
      BY <1>1, FS_Interval
    <3>2. QED
      BY <2>1, <3>1, FS_Subset
  <2>3. QED
    BY <2>1, <2>2, MaxExists DEF Min
<1> HIDE DEF j
<1>5. /\ j \in 1 .. Len(path) /\ path[j] \in Int
      /\ Reached(p, path[j]) \/ Stopped(p, path[j])
      /\ k.low <= path[j] /\ path[j] <= k.high
  BY <1>1, <1>2, <1>4
<1> DEFINE x == ExitFor(p, k).price
<1>6. x \in Int /\ (IF p.side = "buy" THEN x <= path[j] ELSE path[j] <= x)
  <2>1. CASE Stopped(p, k.open) \/ Reached(p, k.open)
    <3>1. 1 \in H
      BY <1>1, <1>2, <2>1
    <3>2. j = 1
      BY <1>4, <1>5, <3>1
    <3>3. x = k.open
      BY <2>1 DEF ExitFor
    <3>4. QED
      BY <1>1, <3>2, <3>3
  <2>2. CASE /\ ~Stopped(p, k.open) /\ ~Reached(p, k.open)
             /\ Stopped(p, Against(p, k))
    <3>1. x = p.sl
      BY <2>2 DEF ExitFor
    <3>2. 1 \notin H /\ j # 1
      BY <1>1, <1>2, <1>4, <2>2
    <3>3. j - 1 \in 1 .. (Len(path) - 1) /\ j - 1 \in 1 .. Len(path) /\ j - 1 \notin H
      BY <1>1, <1>4, <1>5, <3>2
    <3>4. ~Stopped(p, path[j - 1]) /\ path[j - 1] \in Int
      BY <1>1, <1>2, <3>3
    <3>5. path[j] >= path[j - 1] - 1 /\ path[j] <= path[j - 1] + 1
      <4>1. path[(j - 1) + 1] - path[j - 1] \in {-1, 1}
        BY <1>1, <3>3
      <4>2. (j - 1) + 1 = j
        BY <1>5
      <4>3. QED
        BY <1>5, <3>4, <4>1, <4>2
    <3> HIDE DEF x
    <3>6. CASE p.side = "buy"
      BY <1>0, <1>5, <3>1, <3>4, <3>5, <3>6 DEF Stopped
    <3>7. CASE p.side = "sell"
      BY <1>0, <1>5, <3>1, <3>4, <3>5, <3>7 DEF Stopped
    <3>8. QED
      BY <1>0, <3>6, <3>7
  <2>3. CASE /\ ~Stopped(p, k.open) /\ ~Reached(p, k.open)
             /\ ~Stopped(p, Against(p, k))
    <3>1. x = p.tp
      BY <1>3, <2>3 DEF ExitFor
    <3>2. ~Stopped(p, path[j])
      BY <1>0, <1>1, <1>5, <2>3 DEF Stopped, Against
    <3>3. QED
      BY <1>0, <1>5, <3>1, <3>2 DEF Reached
  <2>4. QED
    BY <2>1, <2>2, <2>3
<1>7. QED
  BY <1>5, <1>6 DEF j, k, H

-----------------------------------------------------------------------------
(* Positions opened and closed.                                            *)

LEMMA AccountTypes ==
  ASSUME NEW a \in AccountRecords
  PROVE  /\ a.available \in Int /\ a.pending \in Seq(Orders)
         /\ a.open \subseteq Positions /\ a.trades \subseteq ClosedTrades
         /\ a.closed \in Int /\ a.gross \in Int /\ a.net \in Int /\ a.signals \in Int
         /\ a.expired \in Int /\ a.skipped \in Int /\ a.invalid \in Int
         /\ Counts(a) \in Int
  BY DEF AccountRecords, Counts

PositionOf(s, fill, i, leave) ==
  [id |-> s.id, side |-> s.side, entry |-> s.entry, sl |-> s.sl,
   tp |-> s.tp, fill |-> fill, in |-> i, leave |-> leave]

\* What opening a position does to an account.
LEMMA OpenedPosition ==
  ASSUME NEW a \in AccountRecords, IsFiniteSet(a.open), FundExplained(a),
         NEW s \in Orders, \A p \in a.open : p.id # s.id,
         NEW fill \in Prices, NEW i \in Nat, NEW leave \in {"all", "stop", "none"}
  PROVE  LET b == OpenPosition(a, s, fill, i, leave) IN
         /\ b \in AccountRecords /\ IsFiniteSet(b.open) /\ FundExplained(b)
         /\ b.available = a.available - Unit
         /\ Cardinality(a.open) \in Nat /\ Cardinality(b.open) = Cardinality(a.open) + 1
         /\ b.pending = a.pending /\ b.trades = a.trades /\ b.closed = a.closed
         /\ b.gross = a.gross /\ b.net = a.net /\ b.signals = a.signals
         /\ b.expired = a.expired /\ b.skipped = a.skipped /\ b.invalid = a.invalid
         /\ LET q == PositionOf(s, fill, i, leave) IN
            /\ q \in Positions /\ b.open = a.open \cup {q}
            /\ q.id = s.id /\ q.side = s.side /\ q.sl = s.sl /\ q.fill = fill
            /\ q.leave = leave
<1> DEFINE q == PositionOf(s, fill, i, leave)
           b == OpenPosition(a, s, fill, i, leave)
<1>1. q \in Positions
  BY DEF PositionOf, Positions, Orders, Signals, GeometryOk
<1>2. /\ q.id = s.id /\ q.side = s.side /\ q.sl = s.sl /\ q.fill = fill /\ q.leave = leave
      /\ q \notin a.open
  BY DEF PositionOf
<1>3. b = [a EXCEPT !.available = @ - Unit, !.open = @ \cup {q}]
  BY DEF OpenPosition, PositionOf
<1> HIDE DEF q, b
<1>4. /\ b.available = a.available - Unit /\ b.open = a.open \cup {q}
      /\ b.pending = a.pending /\ b.trades = a.trades /\ b.closed = a.closed
      /\ b.gross = a.gross /\ b.net = a.net /\ b.signals = a.signals
      /\ b.expired = a.expired /\ b.skipped = a.skipped /\ b.invalid = a.invalid
  BY <1>3 DEF AccountRecords
<1>5. Unit \in Int /\ a.available \in Int /\ a.gross \in Int
  BY BacktestAssumption DEF AccountRecords
<1>6. b \in AccountRecords
  <2>1. a.available - Unit \in Int /\ a.open \cup {q} \in SUBSET Positions
    BY <1>1, <1>5, AccountTypes
  <2>2. QED
    BY <1>3, <2>1 DEF AccountRecords
<1>7. /\ IsFiniteSet(b.open) /\ Cardinality(a.open) \in Nat
      /\ Cardinality(b.open) = Cardinality(a.open) + 1
  BY <1>2, <1>4, FS_AddElement, FS_CardinalityType
<1>8. FundExplained(b)
  BY <1>4, <1>5, <1>7 DEF FundExplained
<1>9. QED
  BY <1>1, <1>2, <1>4, <1>6, <1>7, <1>8 DEF b, q

\* An exit for every position that leaves.
ExitsOf(a, exit) ==
  \A p \in a.open : exit[p] # NoExit => exit[p].reason \in Reasons /\ exit[p].price \in Int

Leaving(a, exit) == {p \in a.open : exit[p] # NoExit}
Gains(a, exit) == [p \in Leaving(a, exit) |-> Gross(p, exit[p].price)]
Nets(a, exit, entryRate, exitRate) ==
  [p \in Leaving(a, exit) |-> Net(Gains(a, exit)[p], p, exit[p].price, entryRate,
                                  exitRate[exit[p].reason])]
TradesOf(a, exit, i) == {Trade(p, exit[p], i) : p \in Leaving(a, exit)}

LEMMA CloseAllFields ==
  ASSUME NEW a \in AccountRecords, NEW exit, NEW entryRate, NEW exitRate, NEW i
  PROVE  LET c == CloseAll(a, exit, entryRate, exitRate, i)
             out == Leaving(a, exit)
         IN  /\ c.open = a.open \ out
             /\ c.trades = TradesOf(a, exit, i)
             /\ c.closed = a.closed + Cardinality(out)
             /\ c.gross = a.gross + SumFunctionOnSet(Gains(a, exit), out)
             /\ c.net = a.net + SumFunctionOnSet(Nets(a, exit, entryRate, exitRate), out)
             /\ c.available = a.available + Unit * Cardinality(out)
                                + SumFunctionOnSet(Gains(a, exit), out)
             /\ c.pending = a.pending /\ c.signals = a.signals /\ c.expired = a.expired
             /\ c.skipped = a.skipped /\ c.invalid = a.invalid
             /\ c = [available |-> c.available, pending |-> c.pending, open |-> c.open,
                     trades |-> c.trades, closed |-> c.closed, gross |-> c.gross,
                     net |-> c.net, signals |-> c.signals, expired |-> c.expired,
                     skipped |-> c.skipped, invalid |-> c.invalid]
<1> DEFINE out == Leaving(a, exit)
           gain == Gains(a, exit)
           net == Nets(a, exit, entryRate, exitRate)
           new == TradesOf(a, exit, i)
           c == CloseAll(a, exit, entryRate, exitRate, i)
<1>1. c = [a EXCEPT !.open = @ \ out, !.trades = new, !.closed = @ + Cardinality(out),
                    !.gross = @ + SumFunctionOnSet(gain, out),
                    !.net = @ + SumFunctionOnSet(net, out),
                    !.available = @ + Unit * Cardinality(out) + SumFunctionOnSet(gain, out)]
  BY DEF CloseAll, Leaving, Gains, Nets, TradesOf
<1> HIDE DEF out, gain, net, new, c
<1>2. QED
  BY <1>1 DEF AccountRecords, c, out, gain, net, new

LEMMA NetIsInt ==
  ASSUME NEW gain \in Int, NEW p, p.fill \in Prices, NEW x \in Int,
         NEW entryRate \in Int, NEW exitRate \in Int
  PROVE  Net(gain, p, x, entryRate, exitRate) \in Int
<1>1. Unit \div p.fill \in Int /\ Unit \in Int
  BY UnitsOfBase
<1>2. entryRate * Unit \in Int /\ exitRate * (Unit \div p.fill) * x \in Int
  BY <1>1
<1>3. CostUnit * gain \in Int
  BY DEF CostUnit
<1>4. QED
  BY <1>2, <1>3 DEF Net

\* The gains and costs of the positions that leave.
LEMMA LeavingAmounts ==
  ASSUME NEW a \in AccountRecords, IsFiniteSet(a.open),
         NEW exit, ExitsOf(a, exit), NEW entryRate \in Int, NEW exitRate \in [Reasons -> Int]
  PROVE  /\ Leaving(a, exit) \subseteq a.open /\ IsFiniteSet(Leaving(a, exit))
         /\ \A p \in Leaving(a, exit) :
              /\ exit[p].reason \in Reasons /\ exit[p].price \in Int
              /\ Gains(a, exit)[p] = Gross(p, exit[p].price) /\ Gains(a, exit)[p] \in Int
              /\ Nets(a, exit, entryRate, exitRate)[p]
                   = Net(Gross(p, exit[p].price), p, exit[p].price, entryRate,
                         exitRate[exit[p].reason])
              /\ Nets(a, exit, entryRate, exitRate)[p] \in Int
         /\ SumFunctionOnSet(Gains(a, exit), Leaving(a, exit)) \in Int
         /\ SumFunctionOnSet(Nets(a, exit, entryRate, exitRate), Leaving(a, exit)) \in Int
<1> DEFINE out == Leaving(a, exit)
           gain == Gains(a, exit)
           net == Nets(a, exit, entryRate, exitRate)
<1>1. out \subseteq a.open /\ out \subseteq Positions
  BY DEF Leaving, AccountRecords
<1>2. IsFiniteSet(out)
  BY <1>1, FS_Subset
<1>3. ASSUME NEW p \in out
      PROVE  /\ exit[p].reason \in Reasons /\ exit[p].price \in Int
             /\ gain[p] = Gross(p, exit[p].price) /\ gain[p] \in Int
             /\ net[p] = Net(Gross(p, exit[p].price), p, exit[p].price, entryRate,
                             exitRate[exit[p].reason])
             /\ net[p] \in Int
  <2>1. exit[p].reason \in Reasons /\ exit[p].price \in Int
    BY DEF Leaving, ExitsOf
  <2>2. gain[p] = Gross(p, exit[p].price)
    BY DEF Gains
  <2>3. p.fill \in Prices
    BY <1>1, PositionTypes
  <2>4. Gross(p, exit[p].price) \in Int
    BY <2>1, <2>3, GrossIsMonotone
  <2>5. net[p] = Net(gain[p], p, exit[p].price, entryRate, exitRate[exit[p].reason])
    BY DEF Nets
  <2>6. exitRate[exit[p].reason] \in Int
    BY <2>1
  <2>7. net[p] \in Int
    BY <2>1, <2>2, <2>3, <2>4, <2>5, <2>6, NetIsInt
  <2>8. QED
    BY <2>1, <2>2, <2>4, <2>5, <2>7
<1> HIDE DEF out, gain, net
<1>4. SumFunctionOnSet(gain, out) \in Int /\ SumFunctionOnSet(net, out) \in Int
  BY <1>2, <1>3, SumIsInt
<1>5. QED
  BY <1>1, <1>2, <1>3, <1>4 DEF out, gain, net

\* Closing keeps an account's types and its explanation.
LEMMA ClosedPositions ==
  ASSUME NEW a \in AccountRecords, IsFiniteSet(a.open), FundExplained(a),
         NEW exit, ExitsOf(a, exit), NEW entryRate \in Int, NEW exitRate \in [Reasons -> Int],
         NEW i \in Nat
  PROVE  LET c == CloseAll(a, exit, entryRate, exitRate, i) IN
         /\ c \in AccountRecords /\ IsFiniteSet(c.open) /\ FundExplained(c)
         /\ c.open \subseteq a.open
         /\ c.closed + Cardinality(c.open) = a.closed + Cardinality(a.open)
<1> DEFINE out == Leaving(a, exit)
           g == SumFunctionOnSet(Gains(a, exit), out)
           n == SumFunctionOnSet(Nets(a, exit, entryRate, exitRate), out)
           new == TradesOf(a, exit, i)
           c == CloseAll(a, exit, entryRate, exitRate, i)
<1>1. /\ out \subseteq a.open /\ IsFiniteSet(out)
      /\ \A p \in out : exit[p].reason \in Reasons /\ exit[p].price \in Int
                        /\ Gross(p, exit[p].price) \in Int
      /\ g \in Int /\ n \in Int
  BY LeavingAmounts
<1>2. /\ c.open = a.open \ out /\ c.trades = new
      /\ c.closed = a.closed + Cardinality(out)
      /\ c.gross = a.gross + g
      /\ c.net = a.net + n
      /\ c.available = a.available + Unit * Cardinality(out) + g
      /\ c.pending = a.pending /\ c.signals = a.signals /\ c.expired = a.expired
      /\ c.skipped = a.skipped /\ c.invalid = a.invalid
  BY CloseAllFields
<1>3. c = [available |-> c.available, pending |-> c.pending, open |-> c.open,
           trades |-> c.trades, closed |-> c.closed, gross |-> c.gross,
           net |-> c.net, signals |-> c.signals, expired |-> c.expired,
           skipped |-> c.skipped, invalid |-> c.invalid]
  BY CloseAllFields
<1>0. /\ a.available \in Int /\ a.pending \in Seq(Orders)
      /\ a.open \subseteq Positions /\ a.trades \subseteq ClosedTrades
      /\ a.closed \in Int /\ a.gross \in Int /\ a.net \in Int /\ a.signals \in Int
      /\ a.expired \in Int /\ a.skipped \in Int /\ a.invalid \in Int
  BY AccountTypes
<1>4. new \subseteq ClosedTrades
  <2>1. ASSUME NEW p \in out
        PROVE  Trade(p, exit[p], i) \in ClosedTrades
    BY <1>0, <1>1, PositionTypes DEF Trade, ClosedTrades
  <2>2. QED
    BY <2>1 DEF TradesOf
<1> HIDE DEF out, g, n, new, c
<1>5. /\ IsFiniteSet(a.open \ out)
      /\ Cardinality(out) \in Nat /\ Cardinality(a.open) \in Nat
      /\ Cardinality(a.open \ out) = Cardinality(a.open) - Cardinality(out)
  <2>1. out \cap a.open = out /\ a.open \cap out = out
    BY <1>1
  <2>2. QED
    <3>1. IsFiniteSet(a.open) /\ IsFiniteSet(out)
      BY <1>1
    <3>2. Cardinality(out) \in Nat /\ Cardinality(a.open) \in Nat
      BY <3>1, FS_CardinalityType
    <3>3. IsFiniteSet(a.open \ out) /\ Cardinality(a.open \ out) = Cardinality(a.open) - Cardinality(out)
      <4>1. /\ IsFiniteSet(a.open \ out)
            /\ Cardinality(a.open \ out) = Cardinality(a.open) - Cardinality(a.open \cap out)
        BY ONLY <3>1, FS_Difference
      <4>2. QED
        BY <2>1, <4>1
    <3>4. QED
      BY <3>2, <3>3
<1>6. Unit \in Int /\ Unit * Cardinality(out) \in Int /\ Unit * Cardinality(a.open) \in Int
  BY <1>5, BacktestAssumption
<1>7. /\ c.available \in Int /\ c.pending \in Seq(Orders) /\ c.open \in SUBSET Positions
      /\ c.trades \in SUBSET ClosedTrades /\ c.closed \in Int /\ c.gross \in Int
      /\ c.net \in Int /\ c.signals \in Int /\ c.expired \in Int /\ c.skipped \in Int
      /\ c.invalid \in Int
  <2>1. /\ c.open \in SUBSET Positions /\ c.trades \in SUBSET ClosedTrades
        /\ c.pending \in Seq(Orders) /\ c.signals \in Int /\ c.expired \in Int
        /\ c.skipped \in Int /\ c.invalid \in Int
    BY ONLY <1>0, <1>2, <1>4
  <2>2. g \in Int /\ n \in Int
    BY ONLY <1>1
  <2>3. c.closed \in Int /\ c.gross \in Int /\ c.net \in Int
    <3>1. c.closed \in Int
      BY ONLY <1>0, <1>2, <1>5, <2>2
    <3>2. c.gross \in Int
      BY ONLY <1>0, <1>2, <1>5, <2>2
    <3>3. c.net \in Int
      BY ONLY <1>0, <1>2, <1>5, <2>2
    <3>4. QED
      BY ONLY <3>1, <3>2, <3>3
  <2>4. c.available \in Int
    BY ONLY <1>0, <1>2, <1>6, <2>2
  <2>5. QED
    BY ONLY <2>1, <2>3, <2>4
<1>8. c \in AccountRecords
  BY <1>3, <1>7 DEF AccountRecords
<1>9. FundExplained(c)
  <2>1. Unit * Cardinality(c.open) = Unit * Cardinality(a.open) - Unit * Cardinality(out)
    BY <1>2, <1>5, <1>6
  <2>2. a.available + Unit * Cardinality(a.open) = 2 * Unit + a.gross
    BY DEF FundExplained
  <2>3. c.available + Unit * Cardinality(c.open) = 2 * Unit + c.gross
    <3>1. g \in Int
      BY ONLY <1>1
    <3>2. QED
      <4>1. /\ c.available = a.available + Unit * Cardinality(out) + g
            /\ c.gross = a.gross + g
            /\ a.available \in Int /\ a.gross \in Int
        BY ONLY <1>0, <1>2
      <4>2. QED
        BY ONLY <1>6, <2>1, <2>2, <3>1, <4>1
  <2>4. QED
    BY <2>3 DEF FundExplained
<1>10. c.closed + Cardinality(c.open) = a.closed + Cardinality(a.open)
  BY <1>0, <1>2, <1>5
<1>11. QED
  BY <1>1, <1>2, <1>5, <1>8, <1>9, <1>10 DEF c

-----------------------------------------------------------------------------
(* One order.                                                              *)

\* A limit order fills at a price of the candle, short of its stop.
LEMMA LimitFillsShortOfStop ==
  ASSUME NEW s \in Orders, NEW m \in Models, NEW k,
         k.open \in Prices, k.high \in Prices, k.low \in Prices
  PROVE  LET f == LimitFill(s, k, m) IN
         /\ f.fill \in {"beyond_stop", "no_fill", "filled"}
         /\ f.fill = "filled" => f.price \in Prices /\ ~Stopped(s, f.price)
<1> DEFINE away(d) == IF s.side = "buy" THEN s.entry - d ELSE s.entry + d
           limit == away(m.offset)
           through(x) == IF s.side = "buy" THEN x <= away(m.offset + m.buffer)
                                           ELSE x >= away(m.offset + m.buffer)
           price == IF through(k.open) THEN k.open ELSE limit
           f == LimitFill(s, k, m)
<1>1. /\ f.price = price
      /\ f.fill = (CASE Stopped(s, limit) -> "beyond_stop"
                     [] ~Stopped(s, limit) /\ ~through(k.open) /\ ~through(Against(s, k)) -> "no_fill"
                     [] OTHER -> IF Stopped(s, price) THEN "beyond_stop" ELSE "filled")
  BY DEF LimitFill
<1>2. f.fill \in {"beyond_stop", "no_fill", "filled"}
  <2> HIDE DEF limit, price, through, f
  <2>1. QED
    BY <1>1
<1>3. ASSUME f.fill = "filled"
      PROVE  ~Stopped(s, price) /\ (through(k.open) \/ through(Against(s, k)))
  <2> HIDE DEF limit, price, through, f
  <2>1. QED
    BY <1>1, <1>3
<1>4. ASSUME through(k.open) \/ through(Against(s, k))
      PROVE  price \in Prices
  <2>1. /\ s.entry \in Int /\ s.entry >= 1 /\ s.entry <= MaxPrice
        /\ k.low \in Int /\ k.low >= 1 /\ k.high \in Int /\ k.high <= MaxPrice
        /\ m.offset \in Nat /\ m.buffer \in Nat /\ MaxPrice \in Nat
    BY BacktestAssumption DEF Orders, Signals, Prices
  <2>2. CASE through(k.open)
    BY <2>2
  <2>3. CASE ~through(k.open) /\ through(Against(s, k)) /\ s.side = "buy"
    <3>1. k.low <= s.entry - (m.offset + m.buffer)
      BY <2>3 DEF Against
    <3>2. price = s.entry - m.offset
      BY <2>3
    <3>3. price >= 1 /\ price <= MaxPrice /\ price \in Int
      <4> HIDE DEF price
      <4>1. QED
        BY ONLY <2>1, <3>1, <3>2
    <3>4. QED
      BY <2>1, <3>3 DEF Prices
  <2>4. CASE ~through(k.open) /\ through(Against(s, k)) /\ s.side # "buy"
    <3>1. k.high >= s.entry + (m.offset + m.buffer)
      BY <2>4 DEF Against
    <3>2. price = s.entry + m.offset
      BY <2>4
    <3>3. price >= 1 /\ price <= MaxPrice /\ price \in Int
      <4> HIDE DEF price
      <4>1. QED
        BY ONLY <2>1, <3>1, <3>2
    <3>4. QED
      BY <2>1, <3>3 DEF Prices
  <2>5. QED
    BY <1>4, <2>2, <2>3, <2>4
<1>5. QED
  <2> HIDE DEF limit, price, through, f
  <2>1. f.fill = "filled" => price \in Prices /\ ~Stopped(s, price)
    BY <1>3, <1>4
  <2>2. QED
    BY <1>1, <1>2, <2>1 DEF f

\* An order that is not worked any further is counted; one that stays is pushed.
CountedOne(a) ==
  {[a EXCEPT !.expired = @ + 1], [a EXCEPT !.skipped = @ + 1], [a EXCEPT !.invalid = @ + 1]}

PushedTo(a, s) == [a EXCEPT !.pending = Append(@, s)]

LEMMA Counted ==
  ASSUME NEW a \in AccountRecords,
         NEW c \in CountedOne(a)
  PROVE  /\ c \in AccountRecords
         /\ Counts(c) = Counts(a) + 1
         /\ c.available = a.available /\ c.pending = a.pending /\ c.open = a.open
         /\ c.trades = a.trades /\ c.closed = a.closed /\ c.gross = a.gross
         /\ c.net = a.net /\ c.signals = a.signals
<1>1. a.expired \in Int /\ a.skipped \in Int /\ a.invalid \in Int
  BY AccountTypes
<1>2. CASE c = [a EXCEPT !.expired = @ + 1]
  <2>1. c \in AccountRecords
    <3>1. a.expired + 1 \in Int
      BY <1>1
    <3>2. QED
      BY <1>2, <3>1 DEF AccountRecords
  <2>2. /\ c.expired = a.expired + 1 /\ c.skipped = a.skipped /\ c.invalid = a.invalid
        /\ c.available = a.available /\ c.pending = a.pending /\ c.open = a.open
        /\ c.trades = a.trades /\ c.closed = a.closed /\ c.gross = a.gross
        /\ c.net = a.net /\ c.signals = a.signals
    BY <1>2 DEF AccountRecords
  <2>3. QED
    BY ONLY <1>1, <2>1, <2>2 DEF Counts
<1>3. CASE c = [a EXCEPT !.skipped = @ + 1]
  <2>1. c \in AccountRecords
    <3>1. a.skipped + 1 \in Int
      BY <1>1
    <3>2. QED
      BY <1>3, <3>1 DEF AccountRecords
  <2>2. /\ c.skipped = a.skipped + 1 /\ c.expired = a.expired /\ c.invalid = a.invalid
        /\ c.available = a.available /\ c.pending = a.pending /\ c.open = a.open
        /\ c.trades = a.trades /\ c.closed = a.closed /\ c.gross = a.gross
        /\ c.net = a.net /\ c.signals = a.signals
    BY <1>3 DEF AccountRecords
  <2>3. QED
    BY ONLY <1>1, <2>1, <2>2 DEF Counts
<1>4. CASE c = [a EXCEPT !.invalid = @ + 1]
  <2>1. c \in AccountRecords
    <3>1. a.invalid + 1 \in Int
      BY <1>1
    <3>2. QED
      BY <1>4, <3>1 DEF AccountRecords
  <2>2. /\ c.invalid = a.invalid + 1 /\ c.expired = a.expired /\ c.skipped = a.skipped
        /\ c.available = a.available /\ c.pending = a.pending /\ c.open = a.open
        /\ c.trades = a.trades /\ c.closed = a.closed /\ c.gross = a.gross
        /\ c.net = a.net /\ c.signals = a.signals
    BY <1>4 DEF AccountRecords
  <2>3. QED
    BY ONLY <1>1, <2>1, <2>2 DEF Counts
<1>5. QED
  BY <1>2, <1>3, <1>4 DEF CountedOne

LEMMA Pushed ==
  ASSUME NEW a \in AccountRecords, NEW s \in Orders
  PROVE  LET c == PushedTo(a, s) IN
         /\ c \in AccountRecords
         /\ Len(a.pending) \in Nat /\ Len(c.pending) = Len(a.pending) + 1
         /\ c.pending[Len(a.pending) + 1] = s
         /\ \A j \in 1 .. Len(a.pending) : c.pending[j] = a.pending[j]
         /\ c.available = a.available /\ c.open = a.open
         /\ c.trades = a.trades /\ c.closed = a.closed /\ c.gross = a.gross
         /\ c.net = a.net /\ c.signals = a.signals
         /\ c.expired = a.expired /\ c.skipped = a.skipped /\ c.invalid = a.invalid
<1> DEFINE c == PushedTo(a, s)
<1>1. a.pending \in Seq(Orders)
  BY AccountTypes
<1>2. /\ Append(a.pending, s) \in Seq(Orders)
      /\ Len(a.pending) \in Nat /\ Len(Append(a.pending, s)) = Len(a.pending) + 1
      /\ Append(a.pending, s)[Len(a.pending) + 1] = s
      /\ \A j \in 1 .. Len(a.pending) : Append(a.pending, s)[j] = a.pending[j]
  BY <1>1
<1>3. /\ c.pending = Append(a.pending, s)
      /\ c.available = a.available /\ c.open = a.open
      /\ c.trades = a.trades /\ c.closed = a.closed /\ c.gross = a.gross
      /\ c.net = a.net /\ c.signals = a.signals
      /\ c.expired = a.expired /\ c.skipped = a.skipped /\ c.invalid = a.invalid
  BY DEF PushedTo, AccountRecords
<1>4. c \in AccountRecords
  BY <1>2 DEF PushedTo, AccountRecords
<1> HIDE DEF c
<1>5. QED
  BY <1>2, <1>3, <1>4 DEF c

-----------------------------------------------------------------------------
(* The pending orders of an account, one after the other.                  *)

\* The orders of a queue are all different.
QueueOk(q, i) ==
  /\ q \in Seq(Orders)
  /\ \A j \in 1 .. Len(q) : q[j].id < i
  /\ \A j, l \in 1 .. Len(q) : q[j].id = q[l].id => j = l

\* The account after the first n orders of q, at candle i.
Worked(a, q, n, i) ==
  /\ a \in AccountRecords /\ IsFiniteSet(a.open) /\ FundExplained(a)
  /\ UniqueIds(a, i - 1)
  /\ \A j \in (n + 1) .. Len(q) :
       /\ \A p \in a.open : p.id # q[j].id
       /\ \A l \in 1 .. Len(a.pending) : a.pending[l].id # q[j].id
  /\ a.signals = a.closed + Held(a) + (Len(q) - n)

LEMMA HeldIsInt ==
  ASSUME NEW a \in AccountRecords, IsFiniteSet(a.open)
  PROVE  Held(a) \in Int /\ Len(a.pending) \in Nat /\ Cardinality(a.open) \in Nat
<1>1. Counts(a) \in Int /\ Len(a.pending) \in Nat /\ Cardinality(a.open) \in Nat
  BY AccountTypes, FS_CardinalityType
<1>2. QED
  BY <1>1 DEF Held

\* One order less to work is one position, pending order or count more.
LEMMA WorkedOne ==
  ASSUME NEW q, NEW i \in Nat, QueueOk(q, i), NEW n \in Nat, n < Len(q),
         NEW a, Worked(a, q, n, i),
         NEW c \in AccountRecords, IsFiniteSet(c.open), FundExplained(c), UniqueIds(c, i - 1),
         c.signals = a.signals, c.closed = a.closed,
         Held(c) = Held(a) + 1,
         \A p \in c.open : p \in a.open \/ p.id = q[n + 1].id,
         \A l \in 1 .. Len(c.pending) :
            \/ c.pending[l].id = q[n + 1].id
            \/ \E j \in 1 .. Len(a.pending) : c.pending[l] = a.pending[j]
  PROVE  Worked(c, q, n + 1, i)
<1>1. Len(q) \in Nat /\ n + 1 \in 1 .. Len(q)
  BY DEF QueueOk
<1>2. ASSUME NEW j \in (n + 2) .. Len(q)
      PROVE  /\ j \in (n + 1) .. Len(q) /\ q[j].id # q[n + 1].id
  BY <1>1 DEF QueueOk
<1>3. ASSUME NEW j \in (n + 2) .. Len(q)
      PROVE  /\ \A p \in c.open : p.id # q[j].id
             /\ \A l \in 1 .. Len(c.pending) : c.pending[l].id # q[j].id
  <2>1. /\ \A p \in a.open : p.id # q[j].id
        /\ \A l \in 1 .. Len(a.pending) : a.pending[l].id # q[j].id
    BY <1>2 DEF Worked
  <2>2. QED
    BY <1>2, <2>1
<1>4. c.signals = c.closed + Held(c) + (Len(q) - (n + 1))
  <2>1. a.closed \in Int /\ Held(a) \in Int
    BY AccountTypes, HeldIsInt DEF Worked
  <2>3. a.signals = a.closed + Held(a) + (Len(q) - n)
    BY DEF Worked
  <2>4. c.signals = a.signals /\ c.closed = a.closed
    OBVIOUS
  <2>5. Held(c) = Held(a) + 1
    OBVIOUS
  <2>6. Len(q) \in Int /\ n \in Int
    BY <1>1
  <2>7. QED
    BY ONLY <2>1, <2>3, <2>4, <2>5, <2>6
<1>5. (n + 1) + 1 = n + 2
  OBVIOUS
<1>6. QED
  BY <1>3, <1>4, <1>5 DEF Worked

\* Counting an order.
LEMMA WorkedCounted ==
  ASSUME NEW q, NEW i \in Nat, QueueOk(q, i), NEW n \in Nat, n < Len(q),
         NEW a, Worked(a, q, n, i),
         NEW c \in CountedOne(a)
  PROVE  Worked(c, q, n + 1, i) /\ c.open = a.open /\ c.trades = a.trades
<1>1. a \in AccountRecords
  BY DEF Worked
<1>2. /\ c \in AccountRecords
      /\ Counts(c) = Counts(a) + 1
      /\ c.available = a.available /\ c.pending = a.pending /\ c.open = a.open
      /\ c.trades = a.trades /\ c.closed = a.closed /\ c.gross = a.gross
      /\ c.net = a.net /\ c.signals = a.signals
  BY <1>1, Counted
<1>3. IsFiniteSet(c.open) /\ FundExplained(c) /\ UniqueIds(c, i - 1)
  BY <1>2 DEF Worked, FundExplained, UniqueIds
<1>4. Held(c) = Held(a) + 1
  <2>1. Cardinality(a.open) \in Int /\ Len(a.pending) \in Int /\ Counts(a) \in Int
    BY <1>1, AccountTypes, FS_CardinalityType DEF Worked
  <2>2. Cardinality(c.open) = Cardinality(a.open) /\ Len(c.pending) = Len(a.pending)
    BY <1>2
  <2>3. QED
    BY <1>2, <2>1, <2>2 DEF Held
<1>5. /\ \A p \in c.open : p \in a.open
      /\ \A l \in 1 .. Len(c.pending) : \E j \in 1 .. Len(a.pending) : c.pending[l] = a.pending[j]
  BY <1>2
<1>6. Worked(c, q, n + 1, i)
  BY <1>2, <1>3, <1>4, <1>5, WorkedOne
<1>7. QED
  BY <1>2, <1>6

\* Keeping it.
LEMMA WorkedPushed ==
  ASSUME NEW q, NEW i \in Nat, QueueOk(q, i), NEW n \in Nat, n < Len(q),
         NEW a, Worked(a, q, n, i)
  PROVE  LET c == PushedTo(a, q[n + 1]) IN
         Worked(c, q, n + 1, i) /\ c.open = a.open /\ c.trades = a.trades
<1> DEFINE s == q[n + 1]
           c == PushedTo(a, s)
           N == Len(a.pending)
<1>1. /\ a \in AccountRecords /\ s \in Orders /\ s.id <= i - 1
      /\ n + 1 \in (n + 1) .. Len(q) /\ Len(q) \in Nat
  <2>1. Len(q) \in Nat /\ n + 1 \in 1 .. Len(q) /\ n + 1 \in (n + 1) .. Len(q)
    BY DEF QueueOk
  <2>2. q[n + 1] \in Orders /\ q[n + 1].id < i
    BY <2>1 DEF QueueOk
  <2>3. q[n + 1].id \in Nat
    BY <2>2 DEF Orders, Signals
  <2>4. QED
    BY <2>1, <2>2, <2>3 DEF Worked
<1> HIDE DEF s
<1>2. /\ c \in AccountRecords
      /\ N \in Nat /\ Len(c.pending) = N + 1 /\ c.pending[N + 1] = s
      /\ \A j \in 1 .. N : c.pending[j] = a.pending[j]
      /\ c.available = a.available /\ c.open = a.open
      /\ c.trades = a.trades /\ c.closed = a.closed /\ c.gross = a.gross
      /\ c.net = a.net /\ c.signals = a.signals
      /\ c.expired = a.expired /\ c.skipped = a.skipped /\ c.invalid = a.invalid
  BY <1>1, Pushed
<1> HIDE DEF c, N
<1>3. IsFiniteSet(c.open) /\ FundExplained(c)
  BY <1>2 DEF Worked, FundExplained
<1>4. /\ \A p \in a.open : p.id # s.id
      /\ \A l \in 1 .. N : a.pending[l].id # s.id
  BY <1>1 DEF Worked, s, N
<1>5. UniqueIds(a, i - 1)
  BY DEF Worked
<1>6. \A j \in 1 .. Len(c.pending) : j = N + 1 \/ j \in 1 .. N
  BY <1>2
<1>7. UniqueIds(c, i - 1)
  <2>1. /\ \A p \in c.open : p.id <= i - 1
        /\ \A p, r \in c.open : p.id = r.id => p = r
    BY <1>2, <1>5 DEF UniqueIds
  <2>2. \A j \in 1 .. N : a.pending[j].id <= i - 1 /\ \A p \in a.open : p.id # a.pending[j].id
    BY <1>5 DEF UniqueIds, N
  <2>3. \A j \in 1 .. Len(c.pending) :
          c.pending[j].id <= i - 1 /\ \A p \in c.open : p.id # c.pending[j].id
    <3>1. ASSUME NEW j \in 1 .. N
          PROVE  c.pending[j].id <= i - 1 /\ \A p \in c.open : p.id # c.pending[j].id
      <4>1. c.pending[j] = a.pending[j] /\ c.open = a.open
        BY <1>2
      <4>2. QED
        BY <2>2, <4>1
    <3>2. c.pending[N + 1].id <= i - 1 /\ \A p \in c.open : p.id # c.pending[N + 1].id
      <4>1. c.pending[N + 1] = s /\ c.open = a.open
        BY <1>2
      <4>2. QED
        BY <1>1, <1>4, <4>1
    <3>3. QED
      BY <1>6, <3>1, <3>2
  <2>4. \A j, l \in 1 .. N : a.pending[j].id = a.pending[l].id => j = l
    BY <1>5 DEF UniqueIds, N
  <2>5. \A j, l \in 1 .. Len(c.pending) : c.pending[j].id = c.pending[l].id => j = l
    BY <1>2, <1>4, <1>6, <2>4
  <2>6. QED
    BY <2>1, <2>3, <2>5 DEF UniqueIds
<1>8. Held(c) = Held(a) + 1
  <2>1. Cardinality(a.open) \in Int /\ N \in Int /\ Counts(a) \in Int
    BY <1>1, <1>2, AccountTypes, FS_CardinalityType DEF Worked
  <2>2. Cardinality(c.open) = Cardinality(a.open) /\ Len(c.pending) = N + 1
    BY <1>2
  <2>3. Counts(c) = Counts(a)
    BY <1>2 DEF Counts
  <2>4. QED
    BY ONLY <2>1, <2>2, <2>3 DEF N, Held
<1>9. \A l \in 1 .. Len(c.pending) :
         \/ c.pending[l].id = q[n + 1].id
         \/ \E j \in 1 .. Len(a.pending) : c.pending[l] = a.pending[j]
  BY <1>2, <1>6 DEF s, N
<1>10. Worked(c, q, n + 1, i)
  BY <1>2, <1>3, <1>7, <1>8, <1>9, WorkedOne
<1>11. QED
  BY <1>2, <1>10 DEF c, s

\* Filling it.
LEMMA WorkedOpened ==
  ASSUME NEW q, NEW i \in Nat, QueueOk(q, i), NEW n \in Nat, n < Len(q),
         NEW a, Worked(a, q, n, i),
         NEW fill \in Prices, NEW leave \in {"all", "stop", "none"}
  PROVE  LET c == OpenPosition(a, q[n + 1], fill, i, leave) IN
         /\ Worked(c, q, n + 1, i) /\ c.trades = a.trades
         /\ \A p \in c.open : p \in a.open \/ /\ p.fill = fill /\ p.side = q[n + 1].side
                                              /\ p.sl = q[n + 1].sl
<1> DEFINE s == q[n + 1]
           c == OpenPosition(a, s, fill, i, leave)
<1>1. /\ a \in AccountRecords /\ IsFiniteSet(a.open) /\ FundExplained(a)
      /\ s \in Orders /\ s.id <= i - 1
      /\ n + 1 \in (n + 1) .. Len(q) /\ Len(q) \in Nat
  <2>1. Len(q) \in Nat /\ n + 1 \in 1 .. Len(q) /\ n + 1 \in (n + 1) .. Len(q)
    BY DEF QueueOk
  <2>2. q[n + 1] \in Orders /\ q[n + 1].id < i
    BY <2>1 DEF QueueOk
  <2>3. q[n + 1].id \in Nat
    BY <2>2 DEF Orders, Signals
  <2>4. QED
    BY <2>1, <2>2, <2>3 DEF Worked
<1>2. /\ \A p \in a.open : p.id # s.id
      /\ \A l \in 1 .. Len(a.pending) : a.pending[l].id # s.id
  BY <1>1 DEF Worked
<1> HIDE DEF s
<1>3. /\ c \in AccountRecords /\ IsFiniteSet(c.open) /\ FundExplained(c)
      /\ Cardinality(a.open) \in Nat /\ Cardinality(c.open) = Cardinality(a.open) + 1
      /\ c.pending = a.pending /\ c.trades = a.trades /\ c.closed = a.closed
      /\ c.gross = a.gross /\ c.net = a.net /\ c.signals = a.signals
      /\ c.expired = a.expired /\ c.skipped = a.skipped /\ c.invalid = a.invalid
  <2>1. /\ a \in AccountRecords /\ IsFiniteSet(a.open) /\ FundExplained(a)
        /\ s \in Orders /\ \A p \in a.open : p.id # s.id
        /\ fill \in Prices /\ i \in Nat /\ leave \in {"all", "stop", "none"}
    BY <1>1, <1>2
  <2>2. QED
    BY ONLY <2>1, OpenedPosition
<1> DEFINE r == PositionOf(s, fill, i, leave)
<1>4. /\ r \in Positions /\ c.open = a.open \cup {r}
      /\ r.id = s.id /\ r.side = s.side /\ r.sl = s.sl /\ r.fill = fill
  BY <1>1, <1>2, OpenedPosition
<1> HIDE DEF c, r
<1>5. UniqueIds(a, i - 1)
  BY DEF Worked
<1>6. UniqueIds(c, i - 1)
  BY <1>1, <1>2, <1>3, <1>4, <1>5 DEF UniqueIds
<1>7. Held(c) = Held(a) + 1
  <2>1. Cardinality(a.open) \in Int /\ Len(a.pending) \in Int /\ Counts(a) \in Int
    BY <1>1, <1>3, AccountTypes
  <2>2. Cardinality(c.open) = Cardinality(a.open) + 1 /\ Len(c.pending) = Len(a.pending)
    BY <1>3
  <2>3. Counts(c) = Counts(a)
    BY <1>3 DEF Counts
  <2> DEFINE before == Cardinality(a.open)
             after == Cardinality(c.open)
             waiting == Len(a.pending)
             counted == Counts(a)
  <2>4. /\ before \in Int /\ waiting \in Int /\ counted \in Int /\ after = before + 1
        /\ Held(a) = before + waiting + counted /\ Held(c) = after + waiting + counted
    BY <2>1, <2>2, <2>3 DEF Held
  <2> HIDE DEF before, after, waiting, counted
  <2>5. QED
    BY ONLY <2>4
<1>8. /\ \A p \in c.open : p \in a.open \/ p = r
      /\ \A p \in c.open : p \in a.open \/ p.id = q[n + 1].id
      /\ \A l \in 1 .. Len(c.pending) : \E j \in 1 .. Len(a.pending) : c.pending[l] = a.pending[j]
  BY <1>3, <1>4 DEF s
<1>9. Worked(c, q, n + 1, i)
  BY <1>3, <1>6, <1>7, <1>8, WorkedOne
<1>10. QED
  BY <1>3, <1>4, <1>8, <1>9 DEF c, s

\* The limit entries that are open were filled short of their stops.
ShortOfStops(a) == \A p \in a.open : ~Stopped(p, p.fill)

LEMMA WorkOneKeeps ==
  ASSUME NEW q, NEW i \in Nat, QueueOk(q, i), NEW n \in Nat, n < Len(q),
         NEW a, Worked(a, q, n, i), NEW m \in Models, NEW k,
         k.open \in Prices, k.high \in Prices, k.low \in Prices
  PROVE  LET c == WorkOne(a, q[n + 1], k, i, m) IN
         /\ Worked(c, q, n + 1, i) /\ c.trades = a.trades
         /\ m.entry = "limit" /\ ShortOfStops(a) => ShortOfStops(c)
<1> DEFINE s == q[n + 1]
           f == LimitFill(s, k, m)
           c == WorkOne(a, s, k, i, m)
           leave == IF Stopped(s, Against(s, k)) THEN "stop" ELSE "none"
           pushed == PushedTo(a, s)
           filled == OpenPosition(a, s, f.price, i, leave)
           bought == OpenPosition(a, s, k.open, i, "all")
<1>1. s \in Orders
  BY DEF QueueOk
<1>2. m.entry \in {"market", "limit"}
  BY BacktestAssumption
<1>3. CASE m.entry = "market"
  <2>1. c = bought \/ c \in CountedOne(a)
    BY <1>3 DEF WorkOne, WorkMarket, CountedOne
  <2>2. Worked(bought, q, n + 1, i) /\ bought.trades = a.trades
    BY WorkedOpened
  <2>3. \A b \in CountedOne(a) : Worked(b, q, n + 1, i) /\ b.trades = a.trades
    BY WorkedCounted
  <2> HIDE DEF c, bought
  <2>4. QED
    BY <1>3, <2>1, <2>2, <2>3 DEF c
<1>4. CASE m.entry = "limit"
  <2>1. /\ f.fill \in {"beyond_stop", "no_fill", "filled"}
        /\ f.fill = "filled" => f.price \in Prices /\ ~Stopped(s, f.price)
    BY <1>1, LimitFillsShortOfStop
  <2>2. \/ c \in CountedOne(a) \/ c = pushed
        \/ c = filled /\ f.fill = "filled"
    <3>1. c = WorkLimit(a, s, k, i, m)
      BY <1>4 DEF WorkOne
    <3>0. s.id \in Int /\ m.valid \in Int
      <4>1. m.valid \in Int
        BY BacktestAssumption
      <4>2. QED
        BY <1>1, <4>1 DEF Orders, Signals
    <3>2. CASE i > s.id + m.valid
      <4>1. ~(i <= s.id + m.valid)
        BY <3>0, <3>2
      <4>2. c = [a EXCEPT !.expired = @ + 1]
        <5> HIDE DEF c
        <5>1. QED
          BY <3>1, <3>2, <4>1 DEF WorkLimit
      <4>3. QED
        BY <4>2 DEF CountedOne
    <3>3. CASE ~(i > s.id + m.valid)
      <4>1. i <= s.id + m.valid
        BY <3>0, <3>3
      <4> HIDE DEF f, c
      <4>2. CASE f.fill = "no_fill"
        BY <3>1, <3>3, <4>1, <4>2 DEF WorkLimit, f, PushedTo
      <4>3. CASE f.fill = "beyond_stop"
        BY <3>1, <3>3, <4>1, <4>3 DEF WorkLimit, f, CountedOne
      <4>4. CASE f.fill = "filled"
        BY <3>1, <3>3, <4>1, <4>4 DEF WorkLimit, f, CountedOne
      <4>5. QED
        BY <2>1, <4>2, <4>3, <4>4
    <3>4. QED
      BY <3>2, <3>3
  <2>3. ASSUME NEW b \in CountedOne(a)
        PROVE  Worked(b, q, n + 1, i) /\ b.open = a.open /\ b.trades = a.trades
    BY <2>3, WorkedCounted
  <2>4. Worked(pushed, q, n + 1, i) /\ pushed.open = a.open /\ pushed.trades = a.trades
    BY WorkedPushed
  <2>5. ASSUME f.fill = "filled"
        PROVE  /\ Worked(filled, q, n + 1, i) /\ filled.trades = a.trades
               /\ ShortOfStops(a) => ShortOfStops(filled)
    <3>1. f.price \in Prices /\ ~Stopped(s, f.price) /\ leave \in {"all", "stop", "none"}
      BY <2>1, <2>5
    <3> HIDE DEF f, leave
    <3>2. /\ Worked(filled, q, n + 1, i) /\ filled.trades = a.trades
          /\ \A p \in filled.open : p \in a.open \/ /\ p.fill = f.price /\ p.side = s.side
                                                    /\ p.sl = s.sl
      BY <3>1, WorkedOpened
    <3> HIDE DEF filled, s
    <3>3. ASSUME NEW p, p.fill = f.price, p.side = s.side, p.sl = s.sl
          PROVE  ~Stopped(p, p.fill)
      BY <3>1, <3>3 DEF Stopped
    <3>4. QED
      BY <3>2, <3>3 DEF ShortOfStops
  <2> HIDE DEF f, c, leave, pushed, filled
  <2>6. QED
    BY <2>2, <2>3, <2>4, <2>5 DEF ShortOfStops, c
<1>5. QED
  BY <1>2, <1>3, <1>4

-----------------------------------------------------------------------------
(* All of them.                                                            *)

\* d is the account after each of the first N orders.
Drains(d, a, k, i, m, N) ==
  d = [n \in 0 .. N |-> IF n = 0 THEN [a EXCEPT !.pending = << >>]
                                 ELSE WorkOne(d[n - 1], a.pending[n], k, i, m)]

LEMMA DrainExists ==
  ASSUME NEW a, NEW k, NEW i, NEW m, NEW N \in Nat
  PROVE  \E d : Drains(d, a, k, i, m, N)
<1> DEFINE start == [a EXCEPT !.pending = << >>]
           One(x, n) == WorkOne(x, a.pending[n], k, i, m)
           D(d, M) == d = [n \in 0 .. M |-> IF n = 0 THEN start ELSE One(d[n - 1], n)]
           B == {M \in Nat : ~\E d : D(d, M)}
<1> HIDE DEF start, One
<1>1. SUFFICES ASSUME B # {} PROVE FALSE
  <2>1. \E d : D(d, N)
    BY <1>1
  <2>2. QED
    BY <2>1 DEF Drains, start, One
<1>2. PICK M \in B : \A n \in B : M <= n
  <2>1. B \subseteq Nat
    OBVIOUS
  <2> HIDE DEF B
  <2>2. QED
    BY <1>1, <2>1, LeastExists
<1>3. M # 0
  <2>1. SUFFICES ASSUME M = 0 PROVE FALSE
    OBVIOUS
  <2> DEFINE d == [n \in 0 .. 0 |-> start]
  <2>2. \A n \in 0 .. 0 : n = 0
    OBVIOUS
  <2>3. d = [n \in 0 .. 0 |-> IF n = 0 THEN start ELSE One(d[n - 1], n)]
    BY <2>2
  <2>4. D(d, 0)
    BY <2>3
  <2>5. QED
    BY <1>2, <2>1, <2>4
<1>4. M \in Nat /\ M - 1 \in Nat /\ M - 1 \notin B
  BY <1>2, <1>3
<1>5. PICK e : D(e, M - 1)
  BY <1>4
<1> DEFINE d == [n \in 0 .. M |-> IF n = M THEN One(e[M - 1], M) ELSE e[n]]
<1>6. \A n \in 0 .. M : d[n] = IF n = 0 THEN start ELSE One(d[n - 1], n)
  <2> SUFFICES ASSUME NEW n \in 0 .. M
               PROVE  d[n] = IF n = 0 THEN start ELSE One(d[n - 1], n)
    OBVIOUS
  <2>1. CASE n = 0
    <3>1. e[0] = start
      BY <1>4, <1>5
    <3>2. QED
      BY <1>3, <2>1, <3>1
  <2>2. CASE n # 0 /\ n # M
    <3>1. n \in 0 .. (M - 1) /\ n - 1 \in 0 .. M /\ n - 1 # M
      BY <1>4, <2>2
    <3>2. e[n] = One(e[n - 1], n)
      BY <1>5, <2>2, <3>1
    <3>3. QED
      BY <2>2, <3>1, <3>2
  <2>3. CASE n = M
    <3>1. M - 1 \in 0 .. M /\ M - 1 # M /\ M \in 0 .. M
      BY <1>4
    <3>2. d[M - 1] = e[M - 1]
      BY <3>1
    <3>3. QED
      BY <1>3, <2>3, <3>1, <3>2
  <2>4. QED
    BY <2>1, <2>2, <2>3
<1>7. D(d, M)
  <2> DEFINE g == d
  <2>1. g = [n \in 0 .. M |-> g[n]]
    OBVIOUS
  <2>2. \A n \in 0 .. M : g[n] = IF n = 0 THEN start ELSE One(g[n - 1], n)
    BY <1>6
  <2> HIDE DEF g
  <2>3. D(g, M)
    BY <2>1, <2>2
  <2>4. QED
    BY <2>3 DEF g
<1>8. QED
  BY <1>2, <1>7

\* Work drains the account's own orders.
LEMMA WorkDrains ==
  ASSUME NEW a, NEW k, NEW i, NEW m, Len(a.pending) \in Nat
  PROVE  \E d : Drains(d, a, k, i, m, Len(a.pending)) /\ Work(a, k, i, m) = d[Len(a.pending)]
<1> DEFINE d == CHOOSE d : Drains(d, a, k, i, m, Len(a.pending))
<1>1. Drains(d, a, k, i, m, Len(a.pending))
  BY DrainExists
<1>2. Work(a, k, i, m) = d[Len(a.pending)]
  BY DEF Work, Drains
<1>3. QED
  BY <1>1, <1>2

\* What an account is after its orders were worked.
LEMMA WorkKeeps ==
  ASSUME NEW i \in Nat \ {0}, NEW a, AccountInv(a, i - 1), SignalsExplained(a),
         NEW m \in Models, NEW k,
         k.open \in Prices, k.high \in Prices, k.low \in Prices
  PROVE  LET c == Work(a, k, i, m) IN
         /\ AccountInv(c, i - 1) /\ SignalsExplained(c) /\ c.trades = a.trades
         /\ m.entry = "limit" /\ ShortOfStops(a) => ShortOfStops(c)
<1> DEFINE q == a.pending
           start == [a EXCEPT !.pending = << >>]
           Ok(c, n) == /\ Worked(c, q, n, i) /\ c.trades = a.trades
                       /\ m.entry = "limit" /\ ShortOfStops(a) => ShortOfStops(c)
<1>1. a \in AccountRecords /\ IsFiniteSet(a.open) /\ UniqueIds(a, i - 1) /\ FundExplained(a)
  BY DEF AccountInv
<1>2. QueueOk(q, i) /\ Len(q) \in Nat
  <2>1. q \in Seq(Orders)
    BY <1>1, AccountTypes
  <2>2. \A j \in 1 .. Len(q) : q[j] \in Orders /\ q[j].id \in Nat
    BY <2>1 DEF Orders, Signals
  <2>3. QED
    BY <1>1, <2>1, <2>2 DEF QueueOk, UniqueIds
<1>3. PICK d : Drains(d, a, k, i, m, Len(q)) /\ Work(a, k, i, m) = d[Len(q)]
  BY <1>2, WorkDrains
<1>4. /\ d[0] = start
      /\ \A n \in 0 .. Len(q) : n # 0 => d[n] = WorkOne(d[n - 1], q[n], k, i, m)
  <2>1. d = [n \in 0 .. Len(q) |-> IF n = 0 THEN start ELSE WorkOne(d[n - 1], q[n], k, i, m)]
    BY <1>3 DEF Drains
  <2>2. 0 \in 0 .. Len(q)
    BY <1>2
  <2> HIDE DEF start
  <2>3. \A n \in 0 .. Len(q) : d[n] = IF n = 0 THEN start ELSE WorkOne(d[n - 1], q[n], k, i, m)
    BY <2>1
  <2>4. QED
    BY <2>2, <2>3
<1>5. Ok(start, 0)
  <2>1. /\ start \in AccountRecords /\ start.pending = << >> /\ start.open = a.open
        /\ start.trades = a.trades /\ start.available = a.available /\ start.gross = a.gross
        /\ start.signals = a.signals /\ start.closed = a.closed
        /\ start.expired = a.expired /\ start.skipped = a.skipped /\ start.invalid = a.invalid
    <3>1. << >> \in Seq(Orders)
      OBVIOUS
    <3>2. QED
      BY <1>1, <3>1 DEF AccountRecords
  <2> HIDE DEF start
  <2>2. Len(start.pending) = 0 /\ Counts(start) = Counts(a)
    BY <2>1 DEF Counts
  <2>3. UniqueIds(start, i - 1) /\ FundExplained(start)
    BY <1>1, <2>1, <2>2 DEF UniqueIds, FundExplained
  <2>4. start.signals = start.closed + Held(start) + (Len(q) - 0)
    <3>1. a.signals = a.closed + (Cardinality(a.open) + Len(q) + Counts(a))
      BY DEF SignalsExplained, Held
    <3>2. /\ a.closed \in Int /\ Cardinality(a.open) \in Int /\ Len(q) \in Int
          /\ Counts(a) \in Int
      BY <1>1, <1>2, AccountTypes, HeldIsInt
    <3>3. Held(start) = Cardinality(a.open) + 0 + Counts(a)
      BY <2>1, <2>2 DEF Held
    <3>4. start.signals = a.signals /\ start.closed = a.closed
      BY <2>1
    <3>5. QED
      BY ONLY <3>1, <3>2, <3>3, <3>4
  <2>5. \A j \in (0 + 1) .. Len(q) :
          /\ \A p \in start.open : p.id # q[j].id
          /\ \A l \in 1 .. Len(start.pending) : start.pending[l].id # q[j].id
    BY <1>1, <2>1, <2>2 DEF UniqueIds
  <2>6. Worked(start, q, 0, i)
    BY <1>1, <2>1, <2>3, <2>4, <2>5 DEF Worked
  <2>7. QED
    BY <2>1, <2>6 DEF ShortOfStops
<1> HIDE DEF start
<1>6. ASSUME NEW n \in Nat, n < Len(q), Ok(d[n], n)
      PROVE  Ok(d[n + 1], n + 1)
  <2>1. d[n + 1] = WorkOne(d[n], q[n + 1], k, i, m)
    <3>1. n + 1 \in 0 .. Len(q) /\ n + 1 # 0 /\ (n + 1) - 1 = n
      BY <1>2, <1>6
    <3>2. QED
      BY <1>4, <3>1
  <2>2. QED
    BY <1>2, <1>6, <2>1, WorkOneKeeps
<1>7. Ok(d[Len(q)], Len(q))
  <2> DEFINE B == {n \in Nat : n <= Len(q) /\ ~Ok(d[n], n)}
  <2>1. SUFFICES ASSUME B # {} PROVE FALSE
    BY <1>2
  <2>2. PICK n \in B : \A l \in B : n <= l
    <3>1. B \subseteq Nat
      OBVIOUS
    <3> HIDE DEF B
    <3>2. QED
      BY <2>1, <3>1, LeastExists
  <2>3. n # 0
    BY <1>4, <1>5, <2>2
  <2>4. n \in Nat /\ n <= Len(q) /\ ~Ok(d[n], n)
    BY <2>2
  <2>5. n - 1 \in Nat /\ n - 1 < Len(q) /\ n - 1 \notin B /\ (n - 1) + 1 = n
    BY <1>2, <2>2, <2>3, <2>4
  <2>6. Ok(d[n - 1], n - 1)
    BY <2>5
  <2> HIDE DEF Ok, B
  <2>7. Ok(d[(n - 1) + 1], (n - 1) + 1)
    BY <1>6, <2>5, <2>6
  <2>8. QED
    BY <2>4, <2>5, <2>7
<1> DEFINE c == d[Len(q)]
<1>8. Worked(c, q, Len(q), i) /\ c.trades = a.trades
      /\ (m.entry = "limit" /\ ShortOfStops(a) => ShortOfStops(c))
  BY <1>7
<1> HIDE DEF c, q
<1>9. AccountInv(c, i - 1)
  BY <1>8 DEF Worked, AccountInv
<1>10. SignalsExplained(c)
  <2>1. c.signals = c.closed + Held(c) + (Len(q) - Len(q))
    BY <1>8 DEF Worked
  <2>2. c.closed \in Int /\ Held(c) \in Int
    BY <1>8, AccountTypes, HeldIsInt DEF Worked
  <2>3. QED
    BY <1>2, <2>1, <2>2 DEF SignalsExplained
<1>11. QED
  BY <1>3, <1>8, <1>9, <1>10 DEF c

-----------------------------------------------------------------------------
(* The accounts of the simulator and of the execution models.              *)

LEMMA UniqueIdsMono ==
  ASSUME NEW a \in AccountRecords, NEW c \in AccountRecords, NEW n \in Int, NEW l \in Int,
         n <= l, UniqueIds(a, n), c.open \subseteq a.open, c.pending = a.pending
  PROVE  UniqueIds(c, l)
<1>1. /\ \A p \in a.open : p.id \in Int
      /\ \A j \in 1 .. Len(a.pending) : a.pending[j].id \in Int
  <2>1. a.open \subseteq Positions /\ a.pending \in Seq(Orders)
    BY AccountTypes
  <2>2. \A j \in 1 .. Len(a.pending) : a.pending[j] \in Orders
    BY <2>1
  <2>3. QED
    <3>1. \A p \in a.open : p.id \in Int
      BY <2>1 DEF Positions
    <3>2. \A s \in Orders : s.id \in Int
      BY DEF Orders, Signals
    <3>3. QED
      BY <2>2, <3>1, <3>2
<1>2. QED
  BY <1>1 DEF UniqueIds

\* The simulator fills the signal of the last candle.
LEMMA SimFillKeeps ==
  ASSUME NEW a, NEW n \in Int, AccountInv(a, n), \A p \in a.open : p.leave = "all",
         NEW s, s = NoSignal \/ (s \in Signals /\ s.id = n + 1),
         NEW k, k.open \in Prices, NEW i \in Nat
  PROVE  LET b == SimFill(a, s, k, i) IN
         AccountInv(b, n + 1) /\ \A p \in b.open : p.leave = "all"
<1> DEFINE b == SimFill(a, s, k, i)
           bought == OpenPosition(a, s, k.open, i, "all")
<1>1. a \in AccountRecords /\ IsFiniteSet(a.open) /\ UniqueIds(a, n) /\ FundExplained(a)
  BY DEF AccountInv
<1>2. AccountInv(a, n + 1)
  BY <1>1, UniqueIdsMono DEF AccountInv
<1>3. \/ b = a \/ b \in CountedOne(a)
      \/ s \in Orders /\ s.id = n + 1 /\ b = bought
  BY DEF SimFill, CountedOne, Orders
<1>4. ASSUME NEW c \in CountedOne(a)
      PROVE  AccountInv(c, n + 1) /\ c.open = a.open
  <2>1. /\ c \in AccountRecords /\ c.available = a.available /\ c.gross = a.gross
        /\ c.open = a.open /\ c.pending = a.pending
    BY <1>1, Counted
  <2>2. UniqueIds(c, n + 1)
    BY <1>1, <2>1, UniqueIdsMono
  <2>3. QED
    BY <1>1, <2>1, <2>2 DEF AccountInv, FundExplained
<1>5. ASSUME s \in Orders, s.id = n + 1
      PROVE  AccountInv(bought, n + 1) /\ \A p \in bought.open : p.leave = "all"
  <2>1. /\ \A p \in a.open : p.id \in Int /\ p.id <= n /\ p.id # s.id
        /\ \A j \in 1 .. Len(a.pending) : a.pending[j].id # s.id
    <3>1. \A p \in a.open : p.id \in Int
      BY <1>1, AccountTypes DEF Positions
    <3>2. \A j \in 1 .. Len(a.pending) : a.pending[j].id \in Int
      <4>1. a.pending \in Seq(Orders)
        BY <1>1, AccountTypes
      <4>2. \A j \in 1 .. Len(a.pending) : a.pending[j] \in Orders
        BY <4>1
      <4>3. QED
        BY <4>2 DEF Orders, Signals
    <3>3. QED
      BY <1>1, <1>5, <3>1, <3>2 DEF UniqueIds
  <2> DEFINE r == PositionOf(s, k.open, i, "all")
  <2>2. /\ bought \in AccountRecords /\ IsFiniteSet(bought.open) /\ FundExplained(bought)
        /\ bought.pending = a.pending
        /\ bought.open = a.open \cup {r} /\ r.id = s.id /\ r.leave = "all"
    BY <1>1, <1>5, <2>1, OpenedPosition
  <2> HIDE DEF bought, r
  <2>3. UniqueIds(bought, n + 1)
    <3>1. UniqueIds(a, n + 1)
      BY <1>2 DEF AccountInv
    <3>2. \A p \in bought.open : p \in a.open \/ p = r
      BY <2>2
    <3>3. QED
      BY <1>5, <2>1, <2>2, <3>1, <3>2 DEF UniqueIds
  <2>4. QED
    BY <2>2, <2>3 DEF AccountInv
<1> HIDE DEF b, bought
<1>6. QED
  BY <1>2, <1>3, <1>4, <1>5 DEF b

\* Closing positions keeps an account's invariant.
LEMMA CloseKeeps ==
  ASSUME NEW a, NEW n \in Int, AccountInv(a, n),
         NEW exit, ExitsOf(a, exit), NEW entryRate \in Int, NEW exitRate \in [Reasons -> Int],
         NEW i \in Nat
  PROVE  LET c == CloseAll(a, exit, entryRate, exitRate, i) IN
         /\ AccountInv(c, n) /\ c.open = a.open \ Leaving(a, exit)
         /\ c.trades = TradesOf(a, exit, i) /\ c.pending = a.pending
         /\ SignalsExplained(a) => SignalsExplained(c)
<1> DEFINE c == CloseAll(a, exit, entryRate, exitRate, i)
<1>1. a \in AccountRecords /\ IsFiniteSet(a.open) /\ UniqueIds(a, n) /\ FundExplained(a)
  BY DEF AccountInv
<1>2. /\ c \in AccountRecords /\ IsFiniteSet(c.open) /\ FundExplained(c)
      /\ c.open \subseteq a.open
      /\ c.closed + Cardinality(c.open) = a.closed + Cardinality(a.open)
  BY <1>1, ClosedPositions
<1>3. /\ c.open = a.open \ Leaving(a, exit) /\ c.trades = TradesOf(a, exit, i)
      /\ c.pending = a.pending /\ c.signals = a.signals /\ c.expired = a.expired
      /\ c.skipped = a.skipped /\ c.invalid = a.invalid
  BY <1>1, CloseAllFields
<1> HIDE DEF c
<1>4. AccountInv(c, n)
  BY <1>1, <1>2, <1>3, UniqueIdsMono DEF AccountInv
<1>5. ASSUME SignalsExplained(a)
      PROVE  SignalsExplained(c)
  <2>1. a.signals = a.closed + (Cardinality(a.open) + Len(a.pending) + Counts(a))
    BY <1>5 DEF SignalsExplained, Held
  <2>2. /\ a.closed \in Int /\ c.closed \in Int /\ Cardinality(a.open) \in Int
        /\ Cardinality(c.open) \in Int /\ Len(a.pending) \in Int /\ Counts(a) \in Int
    BY <1>1, <1>2, AccountTypes, HeldIsInt
  <2>3. c.closed + Cardinality(c.open) = a.closed + Cardinality(a.open)
    BY <1>2
  <2>4. c.signals = a.signals
    BY <1>3
  <2>5. c.signals = c.closed + (Cardinality(c.open) + Len(a.pending) + Counts(a))
    <3> DEFINE before == Cardinality(a.open)
               after == Cardinality(c.open)
               waiting == Len(a.pending)
               counted == Counts(a)
    <3>1. /\ a.signals = a.closed + (before + waiting + counted)
          /\ a.closed \in Int /\ c.closed \in Int /\ before \in Int /\ after \in Int
          /\ waiting \in Int /\ counted \in Int
          /\ c.closed + after = a.closed + before /\ c.signals = a.signals
      BY <2>1, <2>2, <2>3, <2>4
    <3> HIDE DEF before, after, waiting, counted
    <3>2. c.signals = c.closed + (after + waiting + counted)
      BY ONLY <3>1
    <3>3. QED
      BY <3>2 DEF before, after, waiting, counted
  <2>6. Counts(c) = Counts(a)
    BY <1>3 DEF Counts
  <2>7. QED
    BY <1>3, <2>5, <2>6 DEF SignalsExplained, Held
<1>6. QED
  BY <1>3, <1>4, <1>5 DEF c

LEMMA RatesAreInt ==
  ASSUME NEW m \in Models
  PROVE  /\ EntryRate(m) \in Int /\ BaseRate \in Int
         /\ [x \in Reasons |-> ExitRate(m, x)] \in [Reasons -> Int]
         /\ [x \in Reasons |-> BaseRate] \in [Reasons -> Int]
<1>1. Maker \in Int /\ Taker \in Int /\ Slip \in Int
  BY BacktestAssumption
<1>2. \A x : ExitRate(m, x) \in Int
  BY <1>1 DEF ExitRate
<1>3. QED
  BY <1>1, <1>2 DEF EntryRate, BaseRate

\* A limit entry that leaves through its stop leaves below its fill.
LEMMA StoppedTradesLose ==
  ASSUME NEW p \in Positions, ~Stopped(p, p.fill), NEW x \in Int, Stopped(p, x)
  PROVE  Gross(p, x) < 0
<1>1. p.side \in {"buy", "sell"} /\ p.sl \in Int /\ p.fill \in Prices /\ p.fill \in Int
  BY PositionTypes
<1>2. IF p.side = "buy" THEN x < p.fill ELSE x > p.fill
  BY <1>1 DEF Stopped
<1>3. QED
  BY <1>1, <1>2, BeyondFillLoses

\* Closing the positions of an execution model.
LEMMA ExecCloseKeeps ==
  ASSUME NEW a, NEW n \in Int, AccountInv(a, n), SignalsExplained(a), NEW m \in Models,
         m.entry = "limit" => ShortOfStops(a),
         NEW exit, ExitsOf(a, exit),
         \A p \in a.open : exit[p].reason \in {"SL", "gap_sl"} => Stopped(p, exit[p].price),
         NEW i \in Nat
  PROVE  LET c == ExecClose(a, exit, i, m) IN
         /\ AccountInv(c, n) /\ SignalsExplained(c) /\ c.pending = a.pending
         /\ m.entry = "limit" => LimitInv(c)
<1> DEFINE rates == [x \in Reasons |-> ExitRate(m, x)]
           c == ExecClose(a, exit, i, m)
<1>1. EntryRate(m) \in Int /\ rates \in [Reasons -> Int]
  BY RatesAreInt
<1>2. c = CloseAll(a, exit, EntryRate(m), rates, i)
  BY DEF ExecClose
<1> HIDE DEF c, rates
<1>3. /\ AccountInv(c, n) /\ c.open = a.open \ Leaving(a, exit)
      /\ c.trades = TradesOf(a, exit, i) /\ c.pending = a.pending
      /\ SignalsExplained(c)
  BY <1>1, <1>2, CloseKeeps
<1>4. ASSUME m.entry = "limit"
      PROVE  LimitInv(c)
  <2>1. \A p \in c.open : ~Stopped(p, p.fill)
    BY <1>3, <1>4 DEF ShortOfStops
  <2>2. ASSUME NEW p \in Leaving(a, exit), Trade(p, exit[p], i).reason \in {"SL", "gap_sl"}
        PROVE  Trade(p, exit[p], i).pnl < 0
    <3>1. p \in a.open /\ exit[p].price \in Int /\ exit[p].reason \in {"SL", "gap_sl"}
      BY <2>2 DEF Leaving, ExitsOf, Trade
    <3>2. p \in Positions /\ ~Stopped(p, p.fill)
      BY <1>4, <3>1, AccountTypes DEF ShortOfStops, AccountInv
    <3>3. Gross(p, exit[p].price) < 0
      BY <3>1, <3>2, StoppedTradesLose
    <3>4. QED
      BY <3>3 DEF Trade
  <2>3. \A t \in c.trades : t.reason \in {"SL", "gap_sl"} => t.pnl < 0
    BY <1>3, <2>2 DEF TradesOf
  <2>4. QED
    BY <2>1, <2>3 DEF LimitInv
<1>5. QED
  BY <1>3, <1>4 DEF c

\* The signal of the candle is queued or counted.
LEMMA QueueKeeps ==
  ASSUME NEW i \in Nat, NEW a, AccountInv(a, i - 1), SignalsExplained(a),
         NEW s, s = NoSignal \/ (s \in Signals /\ s.id = i)
  PROVE  LET c == Queue(a, s, i) IN
         /\ AccountInv(c, i) /\ SignalsExplained(c)
         /\ c.open = a.open /\ c.trades = a.trades
<1> DEFINE b == [a EXCEPT !.signals = @ + 1]
           c == Queue(a, s, i)
<1>1. a \in AccountRecords /\ IsFiniteSet(a.open) /\ UniqueIds(a, i - 1) /\ FundExplained(a)
  BY DEF AccountInv
<1>2. AccountInv(a, i)
  BY <1>1, UniqueIdsMono DEF AccountInv
<1>3. /\ b \in AccountRecords /\ b.signals = a.signals + 1
      /\ b.open = a.open /\ b.trades = a.trades /\ b.pending = a.pending
      /\ b.available = a.available /\ b.gross = a.gross /\ b.closed = a.closed
      /\ Counts(b) = Counts(a)
  <2>1. a.signals + 1 \in Int
    BY <1>1, AccountTypes
  <2>2. b \in AccountRecords
    BY <1>1, <2>1 DEF AccountRecords
  <2>3. /\ b.signals = a.signals + 1
        /\ b.open = a.open /\ b.trades = a.trades /\ b.pending = a.pending
        /\ b.available = a.available /\ b.gross = a.gross /\ b.closed = a.closed
        /\ b.expired = a.expired /\ b.skipped = a.skipped /\ b.invalid = a.invalid
    BY <1>1 DEF AccountRecords
  <2> HIDE DEF b
  <2>4. QED
    BY <2>2, <2>3 DEF Counts
<1>4. \/ c = a
      \/ s \in Signals /\ s.id = i /\ c \in CountedOne(b)
      \/ s \in Orders /\ s.id = i /\ c = PushedTo(b, s)
  BY DEF Queue, CountedOne, PushedTo, Orders
<1> HIDE DEF b
<1>5. /\ a.closed \in Int /\ a.signals \in Int /\ Held(a) \in Int /\ Held(b) = Held(a)
      /\ a.signals = a.closed + Held(a)
  BY <1>1, <1>3, AccountTypes, HeldIsInt DEF Held, SignalsExplained
<1>6. AccountInv(b, i)
  <2>1. UniqueIds(b, i)
    BY <1>1, <1>3, UniqueIdsMono
  <2>2. QED
    BY <1>1, <1>3, <2>1 DEF AccountInv, FundExplained
<1>7. ASSUME NEW e \in AccountRecords, e.signals = b.signals, e.closed = b.closed,
             Held(e) = Held(b) + 1
      PROVE  SignalsExplained(e)
  <2>1. e.signals = a.signals + 1 /\ e.closed = a.closed /\ Held(e) = Held(a) + 1
    BY <1>3, <1>5, <1>7
  <2>2. QED
    BY <1>5, <2>1 DEF SignalsExplained
<1>8. ASSUME NEW e \in CountedOne(b)
      PROVE  /\ AccountInv(e, i) /\ SignalsExplained(e)
             /\ e.open = a.open /\ e.trades = a.trades
  <2>1. /\ e \in AccountRecords /\ Counts(e) = Counts(b) + 1
        /\ e.available = b.available /\ e.pending = b.pending /\ e.open = b.open
        /\ e.trades = b.trades /\ e.closed = b.closed /\ e.gross = b.gross
        /\ e.signals = b.signals
    BY <1>3, Counted
  <2>2. Held(e) = Held(b) + 1
    <3>1. Len(b.pending) \in Int /\ Cardinality(b.open) \in Int /\ Counts(b) \in Int
      BY <1>6, AccountTypes, HeldIsInt DEF AccountInv
    <3>2. QED
      BY <2>1, <3>1 DEF Held
  <2>3. AccountInv(e, i)
    BY <1>6, <2>1 DEF AccountInv, UniqueIds, FundExplained
  <2>4. QED
    BY <1>3, <1>7, <2>1, <2>2, <2>3
<1>9. ASSUME s \in Orders, s.id = i
      PROVE  LET e == PushedTo(b, s) IN
             /\ AccountInv(e, i) /\ SignalsExplained(e)
             /\ e.open = a.open /\ e.trades = a.trades
  <2> DEFINE e == PushedTo(b, s)
             N == Len(b.pending)
  <2>1. /\ e \in AccountRecords
        /\ N \in Nat /\ Len(e.pending) = N + 1 /\ e.pending[N + 1] = s
        /\ \A j \in 1 .. N : e.pending[j] = b.pending[j]
        /\ e.available = b.available /\ e.open = b.open
        /\ e.trades = b.trades /\ e.closed = b.closed /\ e.gross = b.gross
        /\ e.signals = b.signals
        /\ e.expired = b.expired /\ e.skipped = b.skipped /\ e.invalid = b.invalid
    BY <1>3, <1>9, Pushed
  <2> HIDE DEF e
  <2>2. Held(e) = Held(b) + 1
    <3>1. Cardinality(b.open) \in Int /\ Counts(b) \in Int /\ Len(b.pending) \in Int
      BY <1>6, AccountTypes, HeldIsInt DEF AccountInv
    <3>2. Counts(e) = Counts(b) /\ Cardinality(e.open) = Cardinality(b.open)
      BY <2>1 DEF Counts
    <3>3. Len(e.pending) = Len(b.pending) + 1
      BY <2>1
    <3>4. QED
      BY ONLY <3>1, <3>2, <3>3 DEF Held
  <2>3. /\ \A p \in b.open : p.id \in Int /\ p.id <= i - 1
        /\ \A j \in 1 .. N : b.pending[j].id \in Int /\ b.pending[j].id <= i - 1
    <3>1. b.open \subseteq Positions /\ b.pending \in Seq(Orders)
      BY <1>3, AccountTypes
    <3>2. \A j \in 1 .. N : b.pending[j] \in Orders
      BY <3>1
    <3>3. QED
      BY <1>1, <1>3, <3>1, <3>2 DEF UniqueIds, Positions, Orders, Signals
  <2>4. UniqueIds(e, i)
    <3>1. \A j \in 1 .. Len(e.pending) : j = N + 1 \/ j \in 1 .. N
      BY <2>1
    <3>2. UniqueIds(b, i)
      BY <1>6 DEF AccountInv
    <3>3. /\ \A p \in e.open : p.id <= i
          /\ \A p, r \in e.open : p.id = r.id => p = r
      BY <2>1, <3>2 DEF UniqueIds
    <3>4. \A j \in 1 .. N : b.pending[j].id <= i /\ \A p \in b.open : p.id # b.pending[j].id
      BY <3>2 DEF UniqueIds
    <3>5. \A p \in b.open : p.id # s.id
      BY <1>9, <2>3
    <3>6. \A j \in 1 .. Len(e.pending) : e.pending[j].id <= i /\ \A p \in e.open : p.id # e.pending[j].id
      <4>1. ASSUME NEW j \in 1 .. N
            PROVE  e.pending[j].id <= i /\ \A p \in e.open : p.id # e.pending[j].id
        <5>1. e.pending[j] = b.pending[j] /\ e.open = b.open
          BY <2>1
        <5>2. QED
          BY <3>4, <5>1
      <4>2. e.pending[N + 1].id <= i /\ \A p \in e.open : p.id # e.pending[N + 1].id
        <5>1. e.pending[N + 1] = s /\ e.open = b.open
          BY <2>1
        <5>2. QED
          BY <1>9, <3>5, <5>1
      <4> HIDE DEF N
      <4>3. QED
        BY <3>1, <4>1, <4>2
    <3>7. \A j, l \in 1 .. N : b.pending[j].id = b.pending[l].id => j = l
      BY <3>2 DEF UniqueIds
    <3>8. \A j \in 1 .. N : b.pending[j].id # s.id
      BY <1>9, <2>3
    <3>9. \A j, l \in 1 .. Len(e.pending) : e.pending[j].id = e.pending[l].id => j = l
      <4>1. /\ e.pending[N + 1].id = s.id
            /\ \A j \in 1 .. N : e.pending[j].id = b.pending[j].id /\ e.pending[j].id # s.id
        BY <2>1, <3>8
      <4> HIDE DEF N
      <4>2. QED
        BY <3>1, <3>7, <4>1
    <3>10. QED
      BY <3>3, <3>6, <3>9 DEF UniqueIds
  <2>5. AccountInv(e, i)
    BY <1>6, <2>1, <2>4 DEF AccountInv, FundExplained
  <2>6. QED
    BY <1>3, <1>7, <2>1, <2>2, <2>5 DEF e
<1>10. QED
  BY <1>2, <1>4, <1>8, <1>9

-----------------------------------------------------------------------------
(* A candle and the end of the data, account by account.                   *)

LEMMA ExecExitKinds ==
  ASSUME NEW p \in Positions, NEW k, k.open \in Int, k.high \in Int, k.low \in Int, NEW i,
         ExecExit(p, k, i) # NoExit
  PROVE  LET x == ExecExit(p, k, i) IN
         /\ x.reason \in Reasons /\ x.price \in Int
         /\ x.reason \in {"SL", "gap_sl"} => Stopped(p, x.price)
<1> DEFINE x == ExecExit(p, k, i)
<1>1. x \in {ExitFor(p, k), StopExitFor(p, k)}
  BY DEF ExecExit
<1> HIDE DEF x
<1>2. x # NoExit
  BY DEF x
<1>3. QED
  BY <1>1, <1>2, ExitKinds DEF x

LEMMA PricesAreInt ==
  Prices \subseteq Int /\ "none" \notin {"SL", "gap_sl"} /\ NoExit.reason = "none"
  BY DEF Prices, NoExit

ExecExits(a, k, i) == [p \in a.open |-> ExecExit(p, k, i)]

LEMMA ExecStepKeeps ==
  ASSUME NEW i \in Nat \ {0}, NEW a, AccountInv(a, i - 1), SignalsExplained(a),
         NEW m \in Models, m.entry = "limit" => LimitInv(a),
         NEW s, s = NoSignal \/ (s \in Signals /\ s.id = i),
         NEW k, k.open \in Prices, k.high \in Prices, k.low \in Prices
  PROVE  LET c == ExecStep(a, s, k, i, m) IN
         /\ AccountInv(c, i) /\ SignalsExplained(c)
         /\ m.entry = "limit" => LimitInv(c)
<1> DEFINE b == Work(a, k, i, m)
           exit == ExecExits(b, k, i)
           e == ExecClose(b, exit, i, m)
           c == Queue(e, s, i)
<1>1. ExecStep(a, s, k, i, m) = c
  BY DEF ExecStep, ExecExits
<1>2. /\ AccountInv(b, i - 1) /\ SignalsExplained(b)
      /\ m.entry = "limit" => ShortOfStops(b)
  BY WorkKeeps DEF LimitInv, ShortOfStops
<1> HIDE DEF b
<1>3. /\ ExitsOf(b, exit)
      /\ \A p \in b.open : exit[p].reason \in {"SL", "gap_sl"} => Stopped(p, exit[p].price)
  <2>1. \A p \in b.open : p \in Positions /\ exit[p] = ExecExit(p, k, i)
    BY <1>2, AccountTypes DEF AccountInv, ExecExits
  <2> HIDE DEF exit
  <2>2. ASSUME NEW p \in b.open, exit[p] # NoExit
        PROVE  /\ exit[p].reason \in Reasons /\ exit[p].price \in Int
               /\ exit[p].reason \in {"SL", "gap_sl"} => Stopped(p, exit[p].price)
    BY <2>1, <2>2, PricesAreInt, ExecExitKinds
  <2>3. QED
    BY <2>2, PricesAreInt DEF ExitsOf
<1> HIDE DEF exit
<1>4. /\ AccountInv(e, i - 1) /\ SignalsExplained(e)
      /\ m.entry = "limit" => LimitInv(e)
  BY <1>2, <1>3, ExecCloseKeeps
<1> HIDE DEF e
<1>5. AccountInv(c, i) /\ SignalsExplained(c) /\ c.open = e.open /\ c.trades = e.trades
  BY <1>4, QueueKeeps
<1> HIDE DEF c
<1>6. QED
  BY <1>1, <1>4, <1>5 DEF LimitInv

\* The end of the data: what was pending has expired.
NothingPending(a) == [a EXCEPT !.expired = @ + Len(a.pending), !.pending = << >>]
EndExits(a, close) == [p \in a.open |-> [reason |-> "eod", price |-> close]]

LEMMA NothingPendingKeeps ==
  ASSUME NEW n \in Int, NEW a, AccountInv(a, n), SignalsExplained(a)
  PROVE  LET b == NothingPending(a) IN
         /\ AccountInv(b, n) /\ SignalsExplained(b)
         /\ b.open = a.open /\ b.net = a.net
<1> DEFINE b == NothingPending(a)
<1>1. a \in AccountRecords /\ IsFiniteSet(a.open) /\ UniqueIds(a, n) /\ FundExplained(a)
  BY DEF AccountInv
<1>2. Len(a.pending) \in Nat /\ a.expired \in Int
  BY <1>1, AccountTypes, HeldIsInt
<1>3. b \in AccountRecords
  <2>1. << >> \in Seq(Orders) /\ a.expired + Len(a.pending) \in Int
    BY <1>2
  <2>2. QED
    BY <1>1, <2>1 DEF NothingPending, AccountRecords
<1>4. /\ b.expired = a.expired + Len(a.pending) /\ b.pending = << >>
      /\ b.open = a.open /\ b.net = a.net /\ b.available = a.available /\ b.gross = a.gross
      /\ b.signals = a.signals /\ b.closed = a.closed
      /\ b.skipped = a.skipped /\ b.invalid = a.invalid
  BY <1>1 DEF NothingPending, AccountRecords
<1> HIDE DEF b
<1>5. Len(b.pending) = 0
  BY <1>4
<1>6. UniqueIds(b, n) /\ FundExplained(b)
  BY <1>1, <1>4, <1>5 DEF UniqueIds, FundExplained
<1>7. Held(b) = Held(a)
  <2>1. Counts(b) = Counts(a) + Len(a.pending)
    <3>1. a.expired \in Int /\ a.skipped \in Int /\ a.invalid \in Int
      BY <1>1, AccountTypes
    <3>2. QED
      BY <1>2, <1>4, <3>1 DEF Counts
  <2>2. Counts(a) \in Int /\ Cardinality(a.open) \in Int
    BY <1>1, AccountTypes, HeldIsInt
  <2>3. Cardinality(b.open) = Cardinality(a.open)
    BY <1>4
  <2>4. QED
    BY ONLY <1>2, <1>5, <2>1, <2>2, <2>3 DEF Held
<1>8. SignalsExplained(b)
  BY <1>4, <1>7 DEF SignalsExplained
<1>9. QED
  BY <1>1, <1>3, <1>4, <1>6, <1>8 DEF AccountInv, b

LEMMA EndExitsOf ==
  ASSUME NEW a, NEW close \in Prices
  PROVE  /\ ExitsOf(a, EndExits(a, close)) /\ Leaving(a, EndExits(a, close)) = a.open
         /\ \A p \in a.open : EndExits(a, close)[p].reason = "eod"
                              /\ EndExits(a, close)[p].price = close
<1>1. \A p \in a.open : EndExits(a, close)[p].reason = "eod" /\ EndExits(a, close)[p].price = close
  BY DEF EndExits
<1>2. \A p \in a.open : EndExits(a, close)[p] # NoExit
  BY <1>1 DEF NoExit
<1>3. "eod" \in Reasons /\ close \in Int
  BY PricesAreInt DEF Reasons
<1>4. QED
  BY <1>1, <1>2, <1>3 DEF ExitsOf, Leaving

LEMMA ExecEndKeeps ==
  ASSUME NEW n \in Int, NEW a, AccountInv(a, n), SignalsExplained(a),
         NEW m \in Models, m.entry = "limit" => LimitInv(a), NEW close \in Prices
  PROVE  LET c == ExecEnd(a, close, m) IN
         /\ AccountInv(c, n) /\ SignalsExplained(c)
         /\ m.entry = "limit" => LimitInv(c)
<1> DEFINE b == NothingPending(a)
           exit == EndExits(b, close)
           c == ExecClose(b, exit, Length, m)
<1>1. ExecEnd(a, close, m) = c
  BY DEF ExecEnd, NothingPending, EndExits
<1>2. /\ AccountInv(b, n) /\ SignalsExplained(b) /\ b.open = a.open
  BY NothingPendingKeeps
<1>3. m.entry = "limit" => ShortOfStops(b)
  BY <1>2 DEF LimitInv, ShortOfStops
<1> HIDE DEF b
<1>4. /\ ExitsOf(b, exit)
      /\ \A p \in b.open : exit[p].reason \in {"SL", "gap_sl"} => Stopped(p, exit[p].price)
  BY EndExitsOf
<1> HIDE DEF exit
<1>5. Length \in Nat
  BY BacktestAssumption
<1>6. /\ AccountInv(c, n) /\ SignalsExplained(c)
      /\ m.entry = "limit" => LimitInv(c)
  BY <1>2, <1>3, <1>4, <1>5, ExecCloseKeeps
<1>7. QED
  BY <1>1, <1>6

SimExits(a, k) == [p \in a.open |-> ExitFor(p, k)]
SimRates == [x \in Reasons |-> BaseRate]

LEMMA SimRatesAreInt ==
  BaseRate \in Int /\ SimRates \in [Reasons -> Int]
<1>1. Taker \in Int /\ Slip \in Int
  BY BacktestAssumption
<1>2. QED
  BY <1>1 DEF BaseRate, SimRates

LEMMA SimExitsOf ==
  ASSUME NEW a \in AccountRecords, NEW k,
         k.open \in Prices, k.high \in Prices, k.low \in Prices
  PROVE  ExitsOf(a, SimExits(a, k)) /\ \A p \in a.open : SimExits(a, k)[p] = ExitFor(p, k)
<1>1. \A p \in a.open : p \in Positions /\ SimExits(a, k)[p] = ExitFor(p, k)
  BY AccountTypes DEF SimExits
<1>2. ASSUME NEW p \in a.open, ExitFor(p, k) # NoExit
      PROVE  ExitFor(p, k).reason \in Reasons /\ ExitFor(p, k).price \in Int
  BY <1>1, <1>2, PricesAreInt, ExitKinds
<1>3. QED
  BY <1>1, <1>2 DEF ExitsOf

LEMMA SimStepKeeps ==
  ASSUME NEW i \in Nat \ {0}, NEW a, AccountInv(a, i - 2), \A p \in a.open : p.leave = "all",
         NEW s, s = NoSignal \/ (s \in Signals /\ s.id = i - 1),
         NEW k, k.open \in Prices, k.high \in Prices, k.low \in Prices
  PROVE  LET b == SimFill(a, s, k, i)
             c == SimStep(a, s, k, i)
         IN  /\ AccountInv(b, i - 1) /\ \A p \in b.open : p.leave = "all"
             /\ c = CloseAll(b, SimExits(b, k), BaseRate, SimRates, i)
             /\ ExitsOf(b, SimExits(b, k))
             /\ AccountInv(c, i - 1) /\ \A p \in c.open : p.leave = "all"
             /\ c.open = b.open \ Leaving(b, SimExits(b, k))
             /\ c.trades = TradesOf(b, SimExits(b, k), i)
<1> DEFINE b == SimFill(a, s, k, i)
           c == SimStep(a, s, k, i)
<1>1. AccountInv(b, i - 1) /\ \A p \in b.open : p.leave = "all"
  <2>1. i - 2 \in Int /\ (i - 2) + 1 = i - 1
    OBVIOUS
  <2>2. QED
    BY <2>1, SimFillKeeps
<1>2. c = CloseAll(b, SimExits(b, k), BaseRate, SimRates, i)
  BY DEF SimStep, SimExits, SimRates
<1> HIDE DEF b, c
<1>3. ExitsOf(b, SimExits(b, k))
  BY <1>1, SimExitsOf DEF AccountInv
<1>4. /\ AccountInv(c, i - 1) /\ c.open = b.open \ Leaving(b, SimExits(b, k))
      /\ c.trades = TradesOf(b, SimExits(b, k), i)
  BY <1>1, <1>2, <1>3, CloseKeeps, SimRatesAreInt
<1>5. QED
  BY <1>1, <1>2, <1>3, <1>4 DEF b, c

-----------------------------------------------------------------------------
(* The market model is the simulator.                                      *)

\* Two accounts with the same positions, available fund and PnL after costs.
SameBooks(a, b) == a.open = b.open /\ a.available = b.available /\ a.net = b.net

LEMMA SameOpened ==
  ASSUME NEW a \in AccountRecords, NEW b \in AccountRecords, SameBooks(a, b),
         NEW s, NEW fill, NEW i, NEW leave
  PROVE  LET c == OpenPosition(a, s, fill, i, leave)
             e == OpenPosition(b, s, fill, i, leave)
         IN  SameBooks(c, e) /\ c.pending = a.pending
<1>1. ASSUME NEW x \in AccountRecords
      PROVE  LET c == OpenPosition(x, s, fill, i, leave) IN
             /\ c.available = x.available - Unit /\ c.net = x.net /\ c.pending = x.pending
             /\ c.open = x.open \cup {PositionOf(s, fill, i, leave)}
  BY DEF AccountRecords, OpenPosition, PositionOf
<1>2. QED
  BY <1>1 DEF SameBooks

\* The pending order of the market model is what the simulator fills.
LEMMA SameFilled ==
  ASSUME NEW a \in AccountRecords, NEW b \in AccountRecords, SameBooks(a, b),
         NEW s, NEW i \in Nat, i <= Length, a.pending = OrderOf(s, i - 1),
         NEW m \in Models, m.entry = "market", NEW k
  PROVE  LET c == Work(a, k, i, m) IN SameBooks(c, SimFill(b, s, k, i)) /\ c.pending = << >>
<1> DEFINE c == Work(a, k, i, m)
           start == [a EXCEPT !.pending = << >>]
           e == SimFill(b, s, k, i)
<1>1. a.pending = IF s # NoSignal /\ GeometryOk(s) THEN <<s>> ELSE << >>
  <2>1. Length \in Nat
    BY BacktestAssumption
  <2>2. i - 1 < Length
    BY <2>1
  <2>3. QED
    BY <2>2 DEF OrderOf
<1>2. start \in AccountRecords /\ start.pending = << >> /\ SameBooks(start, b)
  <2>1. << >> \in Seq(Orders)
    OBVIOUS
  <2>2. QED
    BY <2>1 DEF AccountRecords, SameBooks
<1> HIDE DEF start
<1>3. ASSUME NEW x \in AccountRecords, SameBooks(x, b), x.pending = << >>
      PROVE  /\ SameBooks(x, [b EXCEPT !.invalid = @ + 1])
             /\ SameBooks([x EXCEPT !.skipped = @ + 1], [b EXCEPT !.skipped = @ + 1])
             /\ [x EXCEPT !.skipped = @ + 1].pending = << >>
  BY <1>3 DEF SameBooks, AccountRecords
<1>4. CASE ~(s # NoSignal /\ GeometryOk(s))
  <2>1. Len(a.pending) = 0 /\ 0 \in Nat
    BY <1>1, <1>4
  <2>2. PICK d : Drains(d, a, k, i, m, 0) /\ c = d[0]
    BY <2>1, WorkDrains
  <2>3. d[0] = start
    BY <2>2 DEF Drains, start
  <2>4. e = b \/ e = [b EXCEPT !.invalid = @ + 1]
    BY <1>4 DEF SimFill
  <2> HIDE DEF c, e
  <2>5. QED
    BY <1>2, <1>3, <2>2, <2>3, <2>4 DEF c, e
<1>5. CASE s # NoSignal /\ GeometryOk(s)
  <2>1. Len(a.pending) = 1 /\ a.pending[1] = s /\ 1 \in Nat
    BY <1>1, <1>5
  <2>2. PICK d : Drains(d, a, k, i, m, 1) /\ c = d[1]
    BY <2>1, WorkDrains
  <2>3. d[0] = start /\ d[1] = WorkOne(d[0], a.pending[1], k, i, m)
    <3>1. d = [n \in 0 .. 1 |-> IF n = 0 THEN start ELSE WorkOne(d[n - 1], a.pending[n], k, i, m)]
      BY <2>2 DEF Drains, start
    <3>2. \A n \in 0 .. 1 : d[n] = IF n = 0 THEN start ELSE WorkOne(d[n - 1], a.pending[n], k, i, m)
      BY <3>1
    <3>3. QED
      BY <3>2
  <2>4. c = WorkMarket(start, s, k, i)
    BY <2>1, <2>2, <2>3 DEF WorkOne
  <2>5. /\ b.available \in Int /\ Unit \in Int /\ start.available = b.available
    BY <1>2, AccountTypes, BacktestAssumption DEF SameBooks
  <2>6. CASE b.available < Unit
    <3>1. ~(start.available >= Unit)
      BY <2>5, <2>6
    <3>2. c = [start EXCEPT !.skipped = @ + 1] /\ e = [b EXCEPT !.skipped = @ + 1]
      <4>1. c = [start EXCEPT !.skipped = @ + 1]
        BY <2>4, <3>1 DEF WorkMarket
      <4>2. e = [b EXCEPT !.skipped = @ + 1]
        BY <1>5, <2>6 DEF SimFill
      <4>3. QED
        BY <4>1, <4>2
    <3>3. QED
      BY <1>2, <1>3, <3>2
  <2>7. CASE ~(b.available < Unit)
    <3>1. start.available >= Unit
      BY <2>5, <2>7
    <3>2. c = OpenPosition(start, s, k.open, i, "all")
      BY <2>4, <3>1 DEF WorkMarket
    <3>3. e = OpenPosition(b, s, k.open, i, "all")
      BY <1>5, <2>7 DEF SimFill
    <3> HIDE DEF c, e
    <3>4. QED
      BY <1>2, <3>2, <3>3, SameOpened DEF c, e
  <2>8. QED
    BY <2>6, <2>7
<1>6. QED
  BY <1>4, <1>5

\* The same exits and rates close the same positions.
LEMMA SameClosed ==
  ASSUME NEW a \in AccountRecords, NEW b \in AccountRecords, SameBooks(a, b),
         NEW exit, NEW entryRate, NEW exitRate, NEW i
  PROVE  LET c == CloseAll(a, exit, entryRate, exitRate, i)
             e == CloseAll(b, exit, entryRate, exitRate, i)
         IN  SameBooks(c, e) /\ c.trades = e.trades /\ c.pending = a.pending
<1>1. /\ Leaving(a, exit) = Leaving(b, exit) /\ TradesOf(a, exit, i) = TradesOf(b, exit, i)
      /\ Gains(a, exit) = Gains(b, exit)
      /\ Nets(a, exit, entryRate, exitRate) = Nets(b, exit, entryRate, exitRate)
  BY DEF SameBooks, Leaving, TradesOf, Gains, Nets
<1>2. ASSUME NEW x \in AccountRecords
      PROVE  LET c == CloseAll(x, exit, entryRate, exitRate, i) IN
             /\ c.open = x.open \ Leaving(x, exit) /\ c.trades = TradesOf(x, exit, i)
             /\ c.net = x.net + SumFunctionOnSet(Nets(x, exit, entryRate, exitRate), Leaving(x, exit))
             /\ c.available = x.available + Unit * Cardinality(Leaving(x, exit))
                                + SumFunctionOnSet(Gains(x, exit), Leaving(x, exit))
             /\ c.pending = x.pending
  BY CloseAllFields
<1> DEFINE c == CloseAll(a, exit, entryRate, exitRate, i)
           e == CloseAll(b, exit, entryRate, exitRate, i)
<1>3. /\ c.open = a.open \ Leaving(a, exit) /\ c.trades = TradesOf(a, exit, i)
      /\ c.net = a.net + SumFunctionOnSet(Nets(a, exit, entryRate, exitRate), Leaving(a, exit))
      /\ c.available = a.available + Unit * Cardinality(Leaving(a, exit))
                         + SumFunctionOnSet(Gains(a, exit), Leaving(a, exit))
      /\ c.pending = a.pending
  BY <1>2
<1>4. /\ e.open = b.open \ Leaving(b, exit) /\ e.trades = TradesOf(b, exit, i)
      /\ e.net = b.net + SumFunctionOnSet(Nets(b, exit, entryRate, exitRate), Leaving(b, exit))
      /\ e.available = b.available + Unit * Cardinality(Leaving(b, exit))
                         + SumFunctionOnSet(Gains(b, exit), Leaving(b, exit))
  BY <1>2
<1> HIDE DEF c, e
<1>5. a.open = b.open /\ a.net = b.net /\ a.available = b.available
  BY DEF SameBooks
<1>6. SameBooks(c, e) /\ c.trades = e.trades
  BY ONLY <1>1, <1>3, <1>4, <1>5 DEF SameBooks
<1>7. QED
  BY <1>3, <1>6 DEF c, e

LEMMA QueueOrders ==
  ASSUME NEW a \in AccountRecords, a.pending = << >>, NEW i \in Nat, i <= Length,
         NEW s, s = NoSignal \/ s \in Signals
  PROVE  LET c == Queue(a, s, i) IN
         /\ c.open = a.open /\ c.trades = a.trades /\ c.available = a.available
         /\ c.net = a.net /\ c.pending = OrderOf(s, i)
<1> DEFINE b == [a EXCEPT !.signals = @ + 1]
           c == Queue(a, s, i)
<1>1. /\ b \in AccountRecords /\ b.pending = << >> /\ b.open = a.open /\ b.trades = a.trades
      /\ b.available = a.available /\ b.net = a.net
  <2>1. a.signals + 1 \in Int
    BY AccountTypes
  <2>2. QED
    BY <2>1 DEF AccountRecords
<1> HIDE DEF b
<1>2. Length \in Nat
  BY BacktestAssumption
<1>3. CASE s = NoSignal
  BY <1>3 DEF Queue, OrderOf
<1>4. CASE s # NoSignal /\ ~(GeometryOk(s) /\ i < Length)
  <2>1. c \in CountedOne(b)
    <3>1. GeometryOk(s) => i = Length
      BY <1>2, <1>4
    <3>2. QED
      BY <1>4, <3>1 DEF Queue, CountedOne, b
  <2> HIDE DEF c
  <2>2. /\ c.available = b.available /\ c.pending = b.pending /\ c.open = b.open
        /\ c.trades = b.trades /\ c.net = b.net
    BY <1>1, <2>1, Counted
  <2>3. OrderOf(s, i) = << >>
    BY <1>4 DEF OrderOf
  <2>4. QED
    BY <1>1, <2>2, <2>3 DEF c
<1>5. CASE s # NoSignal /\ GeometryOk(s) /\ i < Length
  <2>1. i # Length
    BY <1>2, <1>5
  <2>2. c = [b EXCEPT !.pending = Append(@, s)]
    BY <1>5, <2>1 DEF Queue, b
  <2> HIDE DEF c
  <2>3. /\ c.available = b.available /\ c.pending = Append(b.pending, s) /\ c.open = b.open
        /\ c.trades = b.trades /\ c.net = b.net
    BY <1>1, <2>2 DEF AccountRecords
  <2>4. Append(b.pending, s) = <<s>> /\ OrderOf(s, i) = <<s>>
    BY <1>1, <1>5 DEF OrderOf
  <2>5. QED
    BY <1>1, <2>3, <2>4 DEF c
<1>6. QED
  BY <1>3, <1>4, <1>5

LEMMA MarketRates ==
  ASSUME NEW m \in Models, m.entry = "market"
  PROVE  EntryRate(m) = BaseRate /\ [x \in Reasons |-> ExitRate(m, x)] = SimRates
<1>1. \A x : ExitRate(m, x) = BaseRate
  BY DEF ExitRate, BaseRate
<1>2. [x \in Reasons |-> ExitRate(m, x)] = [x \in Reasons |-> BaseRate]
  BY <1>1
<1>3. QED
  BY <1>2 DEF SimRates, EntryRate, BaseRate

LEMMA MarketStepMatches ==
  ASSUME NEW i \in Nat \ {0}, i <= Length,
         NEW a, AccountInv(a, i - 1), SignalsExplained(a),
         NEW b, AccountInv(b, i - 2), \A p \in b.open : p.leave = "all",
         SameBooks(a, b),
         NEW s, s = NoSignal \/ (s \in Signals /\ s.id = i - 1), a.pending = OrderOf(s, i - 1),
         NEW m \in Models, m.entry = "market",
         NEW k, k.open \in Prices, k.high \in Prices, k.low \in Prices,
         NEW t, t = NoSignal \/ (t \in Signals /\ t.id = i)
  PROVE  LET c == ExecStep(a, t, k, i, m)
             e == SimStep(b, s, k, i)
         IN  SameBooks(c, e) /\ c.trades = e.trades /\ c.pending = OrderOf(t, i)
<1> DEFINE w == Work(a, k, i, m)
           f == SimFill(b, s, k, i)
           x == ExecExits(w, k, i)
           u == ExecClose(w, x, i, m)
           c == ExecStep(a, t, k, i, m)
           e == SimStep(b, s, k, i)
<1>1. a \in AccountRecords /\ b \in AccountRecords
  BY DEF AccountInv
<1>2. w \in AccountRecords
  BY WorkKeeps DEF AccountInv
<1>3. SameBooks(w, f) /\ w.pending = << >>
  BY <1>1, SameFilled
<1>4. /\ f \in AccountRecords /\ \A p \in f.open : p.leave = "all"
      /\ e = CloseAll(f, SimExits(f, k), BaseRate, SimRates, i)
  BY SimStepKeeps DEF AccountInv
<1>5. c = Queue(u, t, i)
  BY DEF ExecStep, ExecExits
<1> HIDE DEF w, f
<1>6. x = SimExits(f, k)
  <2>1. w.open = f.open
    BY <1>3 DEF SameBooks
  <2>2. \A p \in f.open : ExecExit(p, k, i) = ExitFor(p, k)
    BY <1>4 DEF ExecExit
  <2>3. QED
    BY <2>1, <2>2 DEF ExecExits, SimExits
<1>7. u = CloseAll(w, SimExits(f, k), BaseRate, SimRates, i)
  BY <1>6, MarketRates DEF ExecClose
<1> HIDE DEF x, u, e
<1>8. SameBooks(u, e) /\ u.trades = e.trades /\ u.pending = << >>
  BY <1>2, <1>3, <1>4, <1>7, SameClosed
<1>9. u \in AccountRecords
  <2>1. AccountInv(w, i - 1)
    BY WorkKeeps DEF w
  <2>2. ExitsOf(w, SimExits(f, k))
    <3>1. ExitsOf(f, SimExits(f, k))
      BY <1>4, SimExitsOf
    <3>2. QED
      BY <1>3, <3>1 DEF SameBooks, ExitsOf
  <2>3. QED
    BY <1>7, <2>1, <2>2, SimRatesAreInt, CloseKeeps DEF AccountInv
<1> HIDE DEF c
<1>10. /\ c.open = u.open /\ c.trades = u.trades /\ c.available = u.available
       /\ c.net = u.net /\ c.pending = OrderOf(t, i)
  BY <1>5, <1>8, <1>9, QueueOrders
<1>11. QED
  BY <1>8, <1>10 DEF SameBooks, c, e

\* What the market model's last exits are worth: the marks, and the cap.
LEMMA MarketEndMatches ==
  ASSUME NEW a, NEW n \in Int, AccountInv(a, n), SignalsExplained(a),
         NEW b, SameBooks(a, b), NEW m \in Models, m.entry = "market", NEW close \in Prices
  PROVE  ExecEnd(a, close, m).net = b.net + OpenNet(b, close) + CapOfOpen(b, close)
<1> DEFINE w == NothingPending(a)
           x == EndExits(w, close)
           c == ExecEnd(a, close, m)
           marks == [p \in b.open |-> Net(Unrealized(p, close), p, close, BaseRate, BaseRate)]
           caps == [p \in b.open |-> CostUnit * (Gross(p, close) - Unrealized(p, close))]
           nets == Nets(w, x, BaseRate, SimRates)
<1>1. c = CloseAll(w, x, BaseRate, SimRates, Length)
  BY MarketRates DEF ExecEnd, NothingPending, EndExits, ExecClose
<1>2. /\ w \in AccountRecords /\ IsFiniteSet(w.open) /\ w.open = b.open /\ w.net = b.net
  BY NothingPendingKeeps DEF AccountInv, SameBooks
<1> HIDE DEF w
<1>3. /\ ExitsOf(w, x) /\ Leaving(w, x) = b.open
      /\ \A p \in b.open : x[p].reason = "eod" /\ x[p].price = close
  BY <1>2, EndExitsOf
<1> HIDE DEF x, c
<1>4. c.net = b.net + SumFunctionOnSet(nets, b.open)
  <2>1. c.net = w.net + SumFunctionOnSet(nets, Leaving(w, x))
    BY <1>1, <1>2, CloseAllFields
  <2>2. QED
    BY <1>2, <1>3, <2>1
<1>5. "eod" \in Reasons /\ SimRates["eod"] = BaseRate
  BY DEF SimRates, Reasons
<1>6. \A p \in b.open : nets[p] = Net(Gross(p, close), p, close, BaseRate, BaseRate)
  BY <1>2, <1>3, <1>5, LeavingAmounts, SimRatesAreInt
<1> HIDE DEF nets
<1>7. ASSUME NEW p \in b.open
      PROVE  marks[p] \in Int /\ caps[p] \in Int /\ nets[p] = marks[p] + caps[p]
  <2>1. p.fill \in Prices /\ close \in Int
    BY <1>2, AccountTypes, PositionTypes, PricesAreInt
  <2>2. Unrealized(p, close) \in Int /\ Gross(p, close) \in Int
    <3>1. IF p.side = "buy" THEN close <= close ELSE close <= close
      BY <2>1
    <3>2. QED
      BY <2>1, <3>1, GrossIsMonotone
  <2>3. Net(Unrealized(p, close), p, close, BaseRate, BaseRate) \in Int
    BY <2>1, <2>2, NetIsInt, SimRatesAreInt
  <2>4. /\ marks[p] = Net(Unrealized(p, close), p, close, BaseRate, BaseRate)
        /\ caps[p] = CostUnit * (Gross(p, close) - Unrealized(p, close))
    OBVIOUS
  <2> DEFINE entryCost == BaseRate * Unit
             exitCost == BaseRate * (Unit \div p.fill) * close
  <2>5. entryCost \in Int /\ exitCost \in Int
    <3>1. Unit \in Int /\ Unit \div p.fill \in Int /\ BaseRate \in Int /\ close \in Int
      <4>1. Unit \in Nat \ {0} /\ Unit \div p.fill \in Nat \ {0}
        BY <2>1, UnitsOfBase
      <4>2. QED
        BY <2>1, <4>1, SimRatesAreInt
    <3>2. QED
      BY ONLY <3>1
  <2>6. /\ nets[p] = CostUnit * Gross(p, close) - entryCost - exitCost
        /\ marks[p] = CostUnit * Unrealized(p, close) - entryCost - exitCost
    BY <1>6, <2>4 DEF Net
  <2> HIDE DEF entryCost, exitCost, marks, caps
  <2>7. CostUnit = 100
    BY DEF CostUnit
  <2>8. QED
    BY ONLY <2>2, <2>4, <2>5, <2>6, <2>7
<1>8. SumFunctionOnSet(nets, b.open) = SumFunctionOnSet(marks, b.open) + SumFunctionOnSet(caps, b.open)
  <2> HIDE DEF marks, caps
  <2>1. IsFiniteSet(b.open)
    BY <1>2
  <2>2. QED
    BY <1>7, <2>1, SumOfParts
<1>9. OpenNet(b, close) = SumFunctionOnSet(marks, b.open) /\ CapOfOpen(b, close) = SumFunctionOnSet(caps, b.open)
  BY DEF OpenNet, CapOfOpen
<1>10. /\ b.net \in Int /\ SumFunctionOnSet(marks, b.open) \in Int
       /\ SumFunctionOnSet(caps, b.open) \in Int
  <2>1. b.net \in Int
    BY <1>2, AccountTypes
  <2> HIDE DEF marks, caps
  <2>2. QED
    BY <1>2, <1>7, <2>1, SumIsInt
<1> HIDE DEF marks, caps, nets
<1>11. c.net = b.net + OpenNet(b, close) + CapOfOpen(b, close)
  BY ONLY <1>4, <1>8, <1>9, <1>10
<1>12. QED
  BY <1>11 DEF c

-----------------------------------------------------------------------------
(* The engine's round trips.                                               *)

LEMMA MinOfTwo ==
  ASSUME NEW x \in Int, NEW y \in Int
  PROVE  Min({x, y}) = IF x <= y THEN x ELSE y
<1>1. \E z \in {x, y} : \A w \in {x, y} : z <= w
  <2>1. CASE x <= y
    BY <2>1
  <2>2. CASE ~(x <= y)
    BY <2>2
  <2>3. QED
    BY <2>1, <2>2
<1>2. Min({x, y}) \in {x, y} /\ \A w \in {x, y} : Min({x, y}) <= w
  BY <1>1 DEF Min
<1>3. QED
  BY <1>2

FirstHit(p, path) == path[Min(Hits(p, path))]
Filled(p, path, late) == path[Min({Min(Hits(p, path)) + late, Len(path)})]
RoundFees(p, path, late, fee) ==
  FeeInQuote(fee.amount, fee.currency, p.fill)
    + FeeInQuote(fee.amount, fee.currency, Filled(p, path, late))
RawPnl(p, path, late, fee) ==
  RealizedPnl(p.side, p.fill, Filled(p, path, late), RoundFees(p, path, late, fee))

LEMMA RoundTripFields ==
  ASSUME NEW p, NEW path, NEW late, NEW fee
  PROVE  LET l == RoundTrip(p, path, late, fee)
             raw == RawPnl(p, path, late, fee)
         IN  /\ l.id = p.id /\ l.entry = p.entry /\ l.fill = p.fill
             /\ l.polled = FirstHit(p, path) /\ l.exit = Filled(p, path, late)
             /\ l.reason = EvaluateExit(p.side, FirstHit(p, path), p.tp, p.sl)
             /\ l.fees = RoundFees(p, path, late, fee)
             /\ l.booked = Book(raw, p.entry).booked /\ l.credit = Book(raw, p.entry).credit
             /\ l.gain = Gross(p, FirstHit(p, path))
  BY DEF RoundTrip, FirstHit, Filled, RoundFees, RawPnl

LEMMA TickPrices ==
  ASSUME NEW p \in Positions, NEW path \in Paths, Hits(p, path) # {}, NEW late \in 0 .. 1
  PROVE  /\ FirstHit(p, path) \in Prices /\ Filled(p, path, late) \in Prices
         /\ Reached(p, FirstHit(p, path)) \/ Stopped(p, FirstHit(p, path))
<1> DEFINE j == Min(Hits(p, path))
<1>1. j \in 1 .. Len(path) /\ (Reached(p, path[j]) \/ Stopped(p, path[j]))
  BY EngineLeavesNoWorse
<1>2. Len(path) \in Nat \ {0} /\ path \in [1 .. Len(path) -> Prices]
  BY CandleSpansTicks
<1> HIDE DEF j
<1>3. Min({j + late, Len(path)}) = IF j + late <= Len(path) THEN j + late ELSE Len(path)
  <2>1. j + late \in Int /\ Len(path) \in Int
    BY <1>1, <1>2
  <2>2. QED
    BY <2>1, MinOfTwo
<1>4. Min({j + late, Len(path)}) \in 1 .. Len(path)
  BY <1>1, <1>2, <1>3
<1>5. QED
  BY <1>1, <1>2, <1>4 DEF FirstHit, Filled, j

LEMMA FeesAreNat ==
  ASSUME NEW fee \in Fees, NEW x \in Prices
  PROVE  FeeInQuote(fee.amount, fee.currency, x) \in Nat
<1>1. fee.amount \in Nat /\ x \in Nat
  BY BacktestAssumption DEF Prices
<1>2. fee.amount * x \in Nat
  BY <1>1
<1>3. QED
  BY <1>1, <1>2 DEF FeeInQuote

\* settle_filled books what it credits, when the loss is capped by the fund.
LEMMA BooksTheCredit ==
  ASSUME NEW raw \in Int, NEW committed \in Nat
  PROVE  LET b == Book(raw, committed) IN
         /\ b.booked \in Int /\ b.credit \in Int
         /\ b.booked = b.credit - committed
         /\ raw <= b.booked /\ -committed <= b.booked
         /\ b.booked = raw \/ b.booked = -committed
  BY DEF Book, BookedPnl, CapLoss, CreditToAdd, CloseCredit, MaxOf

LEMMA RoundTripBooks ==
  ASSUME NEW p \in Positions, NEW path \in Paths, Hits(p, path) # {},
         NEW late \in 0 .. 1, NEW fee \in Fees
  PROVE  LET l == RoundTrip(p, path, late, fee) IN
         /\ l.booked = l.credit - l.entry
         /\ l.exit = l.polled /\ l.fill = l.entry =>
              /\ l.reason = "TP" => l.booked + l.fees >= 1
              /\ l.reason = "SL" => l.booked < 0
<1> DEFINE l == RoundTrip(p, path, late, fee)
           tick == FirstHit(p, path)
           exit == Filled(p, path, late)
           fees == RoundFees(p, path, late, fee)
           raw == RawPnl(p, path, late, fee)
           b == Book(raw, p.entry)
<1>1. /\ l.entry = p.entry /\ l.fill = p.fill /\ l.polled = tick /\ l.exit = exit
      /\ l.reason = EvaluateExit(p.side, tick, p.tp, p.sl) /\ l.fees = fees
      /\ l.booked = b.booked /\ l.credit = b.credit
  BY RoundTripFields
<1>2. /\ p.side \in {"buy", "sell"} /\ p.sl \in Int /\ p.tp \in Int
      /\ p.fill \in Prices /\ p.fill \in Nat \ {0} /\ p.entry \in Nat \ {0}
      /\ p.side = "buy" => p.sl < p.entry /\ p.entry < p.tp
      /\ p.side = "sell" => p.tp < p.entry /\ p.entry < p.sl
  BY PositionTypes
<1>3. tick \in Prices /\ exit \in Prices /\ tick \in Int /\ exit \in Int
  BY TickPrices, PricesAreInt
<1>4. fees \in Nat
  <2>1. /\ FeeInQuote(fee.amount, fee.currency, p.fill) \in Nat
        /\ FeeInQuote(fee.amount, fee.currency, exit) \in Nat
    BY <1>2, <1>3, FeesAreNat
  <2>2. QED
    BY <2>1 DEF RoundFees
<1>5. raw = IF p.side = "sell" THEN p.fill - exit - fees ELSE exit - p.fill - fees
  BY DEF RawPnl, RealizedPnl
<1>6. l.reason = "TP" => Reached(p, tick)
  BY <1>1, EngineLevels
<1>7. l.reason = "SL" => Stopped(p, tick)
  BY <1>1, EngineLevels
<1> HIDE DEF l, tick, exit, fees, raw
<1>8. raw \in Int
  BY <1>2, <1>3, <1>4, <1>5
<1>9. /\ b.booked \in Int /\ b.credit \in Int /\ b.booked = b.credit - p.entry
      /\ raw <= b.booked /\ -p.entry <= b.booked
      /\ b.booked = raw \/ b.booked = -p.entry
  BY <1>2, <1>8, BooksTheCredit
<1> HIDE DEF b
<1>10. ASSUME exit = tick, p.fill = p.entry, Reached(p, tick)
       PROVE  b.booked + fees >= 1
  <2>1. raw + fees >= 1
    BY <1>2, <1>3, <1>4, <1>5, <1>10 DEF Reached
  <2>2. QED
    BY <1>4, <1>8, <1>9, <2>1
<1>11. ASSUME exit = tick, p.fill = p.entry, Stopped(p, tick)
       PROVE  b.booked < 0
  <2>1. raw < 0
    BY <1>2, <1>3, <1>4, <1>5, <1>11 DEF Stopped
  <2>2. QED
    BY <1>2, <1>8, <1>9, <2>1
<1>12. QED
  BY <1>1, <1>6, <1>7, <1>9, <1>10, <1>11 DEF l

\* The simulator closes what the engine would, and books no more.
LEMMA SimulatorNeverOptimistic ==
  ASSUME NEW b, NEW n, AccountInv(b, n), NEW path \in Paths, NEW i
  PROVE  LET T == TradesOf(b, SimExits(b, CandleOf(path)), i)
             L == LiveStep(b.open, path)
         IN  /\ {t.id : t \in T} = {l.id : l \in L}
             /\ \A t \in T, l \in L : t.id = l.id => t.pnl <= l.gain
<1> DEFINE k == CandleOf(path)
           x == SimExits(b, k)
           T == TradesOf(b, x, i)
           L == LiveStep(b.open, path)
<1>1. /\ b.open \subseteq Positions
      /\ \A p, q \in b.open : p.id = q.id => p = q
  BY AccountTypes DEF AccountInv, UniqueIds
<1>2. /\ \A p \in b.open : x[p] = ExitFor(p, k)
      /\ \A p \in b.open : x[p] # NoExit <=> Hits(p, path) # {}
  BY <1>1, SimulatorLeavesWithEngine DEF SimExits
<1> HIDE DEF x
<1>3. ASSUME NEW t \in T
      PROVE  \E p \in b.open : Hits(p, path) # {} /\ t.id = p.id /\ t.pnl = Gross(p, x[p].price)
  <2>1. PICK p \in b.open : x[p] # NoExit /\ t = Trade(p, x[p], i)
    BY DEF TradesOf, Leaving
  <2>2. t.id = p.id /\ t.pnl = Gross(p, x[p].price)
    BY <2>1 DEF Trade
  <2>3. QED
    BY <1>2, <2>1, <2>2
<1>4. ASSUME NEW l \in L
      PROVE  \E p \in b.open : Hits(p, path) # {} /\ l.id = p.id /\ l.gain = Gross(p, FirstHit(p, path))
  <2>1. PICK p \in b.open, late \in 0 .. 1, fee \in Fees :
          Hits(p, path) # {} /\ l = RoundTrip(p, path, late, fee)
    BY DEF LiveStep
  <2>2. QED
    BY <2>1, RoundTripFields
<1>5. ASSUME NEW p \in b.open, Hits(p, path) # {}
      PROVE  (\E t \in T : t.id = p.id) /\ (\E l \in L : l.id = p.id)
  <2>1. Trade(p, x[p], i) \in T /\ Trade(p, x[p], i).id = p.id
    BY <1>2, <1>5 DEF TradesOf, Leaving, Trade
  <2>2. PICK fee : fee \in Fees
    BY BacktestAssumption
  <2>3. RoundTrip(p, path, 0, fee) \in L /\ RoundTrip(p, path, 0, fee).id = p.id
    BY <1>5, <2>2, RoundTripFields DEF LiveStep
  <2>4. QED
    BY <2>1, <2>3
<1>6. ASSUME NEW p \in b.open, Hits(p, path) # {}
      PROVE  Gross(p, x[p].price) <= Gross(p, FirstHit(p, path))
  <2>1. p \in Positions /\ p.fill \in Prices
    BY <1>1, PositionTypes
  <2>2. /\ x[p].price \in Int /\ FirstHit(p, path) \in Int
        /\ IF p.side = "buy" THEN x[p].price <= FirstHit(p, path) ELSE FirstHit(p, path) <= x[p].price
    BY <1>2, <1>6, <2>1, EngineLeavesNoWorse DEF FirstHit
  <2>3. QED
    BY <2>1, <2>2, GrossIsMonotone
<1> HIDE DEF T, L
<1>7. {t.id : t \in T} = {l.id : l \in L}
  BY <1>3, <1>4, <1>5
<1>8. ASSUME NEW t \in T, NEW l \in L, t.id = l.id
      PROVE  t.pnl <= l.gain
  <2>1. PICK p \in b.open : Hits(p, path) # {} /\ t.id = p.id /\ t.pnl = Gross(p, x[p].price)
    BY <1>3
  <2>2. PICK q \in b.open : Hits(q, path) # {} /\ l.id = q.id /\ l.gain = Gross(q, FirstHit(q, path))
    BY <1>4
  <2>3. p = q
    BY <1>1, <1>8, <2>1, <2>2
  <2>4. QED
    BY <1>6, <2>1, <2>2, <2>3
<1>9. QED
  BY <1>7, <1>8 DEF T, L, x

-----------------------------------------------------------------------------
(* The inductive invariant.                                                *)

LEMMA SignalsOfClose ==
  ASSUME NEW close \in Prices, index \in Nat, NEW s \in SignalsAt(close)
  PROVE  s = NoSignal \/ (s \in Signals /\ s.id = index + 1)
<1>1. SUFFICES ASSUME NEW side \in Sides, NEW atr \in Atrs, s = SignalAt(index + 1, side, close, atr)
               PROVE  s \in Signals /\ s.id = index + 1
  BY DEF SignalsAt
<1>2. atr \in Nat /\ SlMult \in Nat /\ TpMult \in Nat /\ MaxSl \in Nat /\ close \in Int
  BY BacktestAssumption, PricesAreInt
<1>3. atr * SlMult \in Int /\ atr * TpMult \in Int
  BY <1>2
<1> DEFINE sl == Min({atr * SlMult, MaxSl})
<1>4. sl \in Int
  BY <1>2, <1>3, MinOfTwo
<1> HIDE DEF sl
<1>5. Levels(side, close, atr).sl \in Int /\ Levels(side, close, atr).tp \in Int
  BY <1>2, <1>3, <1>4 DEF Levels, sl
<1>6. QED
  BY <1>1, <1>5 DEF SignalAt, Signals

LEMMA InitEstablishesInv == Init => BacktestInv
<1> SUFFICES ASSUME Init PROVE BacktestInv
  OBVIOUS
<1>1. /\ Unit \in Nat \ {0} /\ 1 \in Prices /\ 0 \in 0 .. (Length + 1)
      /\ ~(0 > Length) /\ Length \in Nat
  BY BacktestAssumption DEF Prices
<1> DEFINE a == NewAccount
<1>2. /\ a.available = 2 * Unit /\ a.pending = << >> /\ a.open = {} /\ a.trades = {}
      /\ a.closed = 0 /\ a.gross = 0 /\ a.net = 0 /\ a.signals = 0
      /\ a.expired = 0 /\ a.skipped = 0 /\ a.invalid = 0
  BY DEF NewAccount
<1>3. a \in AccountRecords
  BY <1>1 DEF NewAccount, AccountRecords
<1> HIDE DEF a
<1>4. IsFiniteSet(a.open) /\ Cardinality(a.open) = 0 /\ Len(a.pending) = 0
  BY <1>2, FS_EmptySet
<1>5. FundExplained(a)
  BY <1>1, <1>2, <1>4 DEF FundExplained
<1>6. ASSUME NEW n PROVE AccountInv(a, n)
  <2>1. UniqueIds(a, n)
    BY <1>2, <1>4 DEF UniqueIds
  <2>2. QED
    BY <1>3, <1>4, <1>5, <2>1 DEF AccountInv
<1>7. SignalsExplained(a) /\ LimitInv(a)
  BY <1>2, <1>4 DEF SignalsExplained, Held, Counts, LimitInv
<1>8. index = 0 /\ signal = NoSignal /\ mark = 1 /\ sim = a
      /\ exec = [m \in Models |-> a]
  BY DEF Init, a
<1>9. SignalInv /\ SimInv
  BY <1>2, <1>6, <1>8 DEF SignalInv, SimInv
<1>10. ASSUME NEW m \in Models PROVE ExecInv(m)
  <2>1. exec[m] = a
    BY <1>8
  <2>2. MarketInv(a)
    BY <1>1, <1>2, <1>8 DEF MarketInv, Ended, OrderOf
  <2>3. QED
    BY <1>6, <1>7, <2>1, <2>2 DEF ExecInv
<1>11. QED
  BY <1>1, <1>8, <1>9, <1>10 DEF BacktestInv

\* What the invariant says before a candle.
LEMMA BeforeCandle ==
  ASSUME BacktestInv, NEW path \in Paths, Candle(path)
  PROVE  LET i == index + 1
             k == CandleOf(path)
         IN  /\ i \in Nat \ {0} /\ i <= Length /\ i - 1 = index /\ i - 2 = index - 1
             /\ ~Ended /\ ~Ended' /\ index' = i
             /\ k.open \in Prices /\ k.high \in Prices /\ k.low \in Prices /\ k.close \in Prices
             /\ AccountInv(sim, i - 2) /\ \A p \in sim.open : p.leave = "all"
             /\ signal = NoSignal \/ (signal \in Signals /\ signal.id = i - 1)
             /\ signal' = NoSignal \/ (signal' \in Signals /\ signal'.id = i)
<1> DEFINE k == CandleOf(path)
<1>1. index \in Nat /\ Length \in Nat /\ index < Length /\ index' = index + 1
  BY BacktestAssumption DEF BacktestInv, Candle
<1>2. ~Ended /\ ~Ended'
  BY <1>1 DEF Ended
<1>3. k.open \in Prices /\ k.high \in Prices /\ k.low \in Prices /\ k.close \in Prices
  BY CandleSpansTicks
<1>4. signal' \in SignalsAt(k.close)
  BY DEF Candle
<1> HIDE DEF k
<1>5. signal' = NoSignal \/ (signal' \in Signals /\ signal'.id = index + 1)
  BY <1>1, <1>3, <1>4, SignalsOfClose
<1>6. (index + 1) - 1 = index /\ (index + 1) - 2 = index - 1 /\ index + 1 <= Length
      /\ index + 1 \in Nat \ {0}
  BY <1>1
<1>7. signal = NoSignal \/ (signal \in Signals /\ signal.id = index)
  BY <1>2 DEF BacktestInv, SignalInv
<1>8. AccountInv(sim, index - 1) /\ \A p \in sim.open : p.leave = "all"
  BY DEF BacktestInv, SimInv
<1>9. QED
  BY <1>1, <1>2, <1>3, <1>5, <1>6, <1>7, <1>8 DEF k

LEMMA CandleKeepsInv ==
  ASSUME BacktestInv, NEW path \in Paths, Candle(path)
  PROVE  BacktestInv'
<1> DEFINE i == index + 1
           k == CandleOf(path)
<1>1. /\ i \in Nat \ {0} /\ i <= Length /\ i - 1 = index /\ i - 2 = index - 1
      /\ ~Ended /\ ~Ended' /\ index' = i
      /\ k.open \in Prices /\ k.high \in Prices /\ k.low \in Prices /\ k.close \in Prices
      /\ AccountInv(sim, i - 2) /\ \A p \in sim.open : p.leave = "all"
      /\ signal = NoSignal \/ (signal \in Signals /\ signal.id = i - 1)
      /\ signal' = NoSignal \/ (signal' \in Signals /\ signal'.id = i)
  BY BeforeCandle
<1>2. /\ mark' = k.close /\ sim' = SimStep(sim, signal, k, i)
      /\ exec' = [m \in Models |-> ExecStep(exec[m], signal', k, i, m)]
  BY DEF Candle
<1> HIDE DEF i, k
<1>3. index' \in 0 .. (Length + 1)
  <2>1. Length \in Nat
    BY BacktestAssumption
  <2>2. QED
    BY <1>1, <2>1
<1>4. SignalInv'
  BY <1>1 DEF SignalInv
<1>5. SimInv'
  <2> DEFINE c == SimStep(sim, signal, k, i)
  <2>0. /\ i \in Nat \ {0} /\ k.open \in Prices /\ k.high \in Prices /\ k.low \in Prices
        /\ AccountInv(sim, i - 2) /\ \A p \in sim.open : p.leave = "all"
        /\ signal = NoSignal \/ (signal \in Signals /\ signal.id = i - 1)
    BY <1>1
  <2>1. AccountInv(c, i - 1) /\ \A p \in c.open : p.leave = "all"
    BY ONLY <2>0, SimStepKeeps
  <2>2. sim' = c /\ index' - 1 = i - 1
    BY <1>1, <1>2
  <2> HIDE DEF c
  <2>3. QED
    BY <2>1, <2>2 DEF SimInv
<1>6. ASSUME NEW m \in Models
      PROVE  ExecInv(m)'
  <2>1. /\ AccountInv(exec[m], i - 1) /\ SignalsExplained(exec[m])
        /\ m.entry = "limit" => LimitInv(exec[m])
        /\ m.entry = "market" => MarketInv(exec[m])
    BY <1>1 DEF BacktestInv, ExecInv
  <2>2. exec'[m] = ExecStep(exec[m], signal', k, i, m)
    BY <1>2
  <2>3. /\ AccountInv(exec'[m], i) /\ SignalsExplained(exec'[m])
        /\ m.entry = "limit" => LimitInv(exec'[m])
    BY <1>1, <2>1, <2>2, ExecStepKeeps
  <2>4. ASSUME m.entry = "market"
        PROVE  MarketInv(exec[m])'
    <3>1. SameBooks(exec[m], sim) /\ exec[m].pending = OrderOf(signal, i - 1)
      BY <1>1, <2>1, <2>4 DEF MarketInv, SameBooks
    <3>2. /\ SameBooks(exec'[m], sim') /\ exec'[m].trades = sim'.trades
          /\ exec'[m].pending = OrderOf(signal', i)
      <4> DEFINE c == ExecStep(exec[m], signal', k, i, m)
                 e == SimStep(sim, signal, k, i)
      <4>1. SameBooks(c, e) /\ c.trades = e.trades /\ c.pending = OrderOf(signal', i)
        BY <1>1, <2>1, <2>4, <3>1, MarketStepMatches
      <4> HIDE DEF c, e
      <4>2. exec'[m] = c /\ sim' = e
        BY <1>2, <2>2 DEF c, e
      <4>3. QED
        BY <4>1, <4>2
    <3>3. QED
      BY <1>1, <3>2 DEF MarketInv, SameBooks
  <2>5. QED
    BY <1>1, <2>3, <2>4 DEF ExecInv
<1>7. DOMAIN exec' = Models
  BY <1>2
<1>8. QED
  BY <1>1, <1>2, <1>3, <1>4, <1>5, <1>6, <1>7 DEF BacktestInv

LEMMA LaterIds ==
  ASSUME NEW a, NEW n \in Int, AccountInv(a, n)
  PROVE  AccountInv(a, n + 1)
<1>1. UniqueIds(a, n + 1)
  BY UniqueIdsMono DEF AccountInv
<1>2. QED
  BY <1>1 DEF AccountInv

LEMMA FinishKeepsInv ==
  ASSUME BacktestInv, Finish
  PROVE  BacktestInv'
<1>1. /\ index = Length /\ Length \in Nat /\ index' = index + 1 /\ ~Ended /\ Ended'
      /\ signal' = signal /\ mark' = mark /\ sim' = sim
      /\ exec' = [m \in Models |-> ExecEnd(exec[m], mark, m)]
  BY BacktestAssumption DEF Finish, Ended
<1>2. index' \in 0 .. (Length + 1) /\ mark' \in Prices /\ mark \in Prices
  BY <1>1 DEF BacktestInv
<1>3. SignalInv'
  BY <1>1 DEF BacktestInv, SignalInv
<1>4. SimInv'
  <2>1. AccountInv(sim, index - 1) /\ \A p \in sim.open : p.leave = "all"
    BY DEF BacktestInv, SimInv
  <2>2. index - 1 \in Int /\ (index - 1) + 1 = index' - 1
    BY <1>1
  <2>3. AccountInv(sim', index' - 1)
    BY <1>1, <2>1, <2>2, LaterIds
  <2>4. QED
    BY <1>1, <2>1, <2>3 DEF SimInv
<1>5. ASSUME NEW m \in Models
      PROVE  ExecInv(m)'
  <2>1. /\ AccountInv(exec[m], index) /\ SignalsExplained(exec[m])
        /\ m.entry = "limit" => LimitInv(exec[m])
        /\ m.entry = "market" => MarketInv(exec[m])
    BY DEF BacktestInv, ExecInv
  <2>2. exec'[m] = ExecEnd(exec[m], mark, m) /\ index \in Int
    BY <1>1
  <2>3. /\ AccountInv(exec'[m], index) /\ SignalsExplained(exec'[m])
        /\ m.entry = "limit" => LimitInv(exec'[m])
    BY <1>2, <2>1, <2>2, ExecEndKeeps
  <2>4. AccountInv(exec'[m], index')
    BY <1>1, <2>2, <2>3, LaterIds
  <2>5. ASSUME m.entry = "market"
        PROVE  MarketInv(exec[m])'
    <3>1. SameBooks(exec[m], sim)
      BY <1>1, <2>1, <2>5 DEF MarketInv, SameBooks
    <3>2. exec'[m].net = sim.net + OpenNet(sim, mark) + CapOfOpen(sim, mark)
      BY <1>2, <2>1, <2>2, <2>5, <3>1, MarketEndMatches
    <3>3. QED
      BY <1>1, <3>2 DEF MarketInv
  <2>6. QED
    BY <2>3, <2>4, <2>5 DEF ExecInv
<1>6. DOMAIN exec' = Models
  BY <1>1
<1>7. QED
  BY <1>2, <1>3, <1>4, <1>5, <1>6 DEF BacktestInv

LEMMA StepKeepsInv ==
  ASSUME BacktestInv, [Next]_vars
  PROVE  BacktestInv'
<1>1. CASE \E path \in Paths : Candle(path)
  BY <1>1, CandleKeepsInv
<1>2. CASE Finish
  BY <1>2, FinishKeepsInv
<1>3. CASE UNCHANGED vars
  <2>1. /\ index' = index /\ signal' = signal /\ mark' = mark /\ sim' = sim /\ exec' = exec
    BY <1>3 DEF vars
  <2>2. Ended' = Ended
    BY <2>1 DEF Ended
  <2>3. SignalInv' /\ SimInv'
    BY <2>1, <2>2 DEF BacktestInv, SignalInv, SimInv
  <2>4. ASSUME NEW m \in Models PROVE ExecInv(m)'
    BY <2>1, <2>2 DEF BacktestInv, ExecInv, MarketInv
  <2>5. QED
    BY <2>1, <2>3, <2>4 DEF BacktestInv
<1>4. QED
  BY <1>1, <1>2, <1>3 DEF Next

\* The accounts are records of their kind, no id is used twice, fund and signals
\* are explained, and the market model holds what the simulator holds, with the
\* order that the simulator is about to fill (harness/sim.rs,
\* harness/sweep/execution.rs).
THEOREM BacktestInvariant == Spec => []BacktestInv
<1>1. Init => BacktestInv
  BY InitEstablishesInv
<1>2. BacktestInv /\ [Next]_vars => BacktestInv'
  BY StepKeepsInv
<1>3. QED
  BY <1>1, <1>2, PTL DEF Spec

-----------------------------------------------------------------------------
(* The properties.                                                         *)

\* Whatever the order of a candle's ticks, the simulator leaves where the
\* engine leaves and books no more (exit_for in harness/sim.rs, evaluate_exit
\* in position_exit/decision.rs), for all prices, levels and candle lengths.
THEOREM SimulatorIsNeverOptimistic == Spec => []NeverOptimistic
<1>1. Init => NeverOptimistic
  BY DEF Init, NeverOptimistic, NewAccount
<1>2. BacktestInv /\ NeverOptimistic /\ [Next]_vars => NeverOptimistic'
  <2> SUFFICES ASSUME BacktestInv, NeverOptimistic, [Next]_vars
               PROVE  NeverOptimistic'
    OBVIOUS
  <2>1. ASSUME NEW path \in Paths, Candle(path)
        PROVE  NeverOptimistic'
    <3> DEFINE i == index + 1
               k == CandleOf(path)
               b == SimFill(sim, signal, k, i)
    <3>1. /\ i \in Nat \ {0} /\ AccountInv(sim, i - 2) /\ \A p \in sim.open : p.leave = "all"
          /\ k.open \in Prices /\ k.high \in Prices /\ k.low \in Prices
          /\ signal = NoSignal \/ (signal \in Signals /\ signal.id = i - 1)
      BY <2>1, BeforeCandle
    <3>2. sim' = SimStep(sim, signal, k, i) /\ live' = LiveStep(b.open, path)
      BY <2>1 DEF Candle
    <3> HIDE DEF i
    <3>3. AccountInv(b, i - 1) /\ sim'.trades = TradesOf(b, SimExits(b, k), i)
      BY <3>1, <3>2, SimStepKeeps
    <3> HIDE DEF b
    <3>4. /\ {t.id : t \in sim'.trades} = {l.id : l \in live'}
          /\ \A t \in sim'.trades, l \in live' : t.id = l.id => t.pnl <= l.gain
      BY <3>2, <3>3, SimulatorNeverOptimistic
    <3>5. QED
      BY <3>4 DEF NeverOptimistic
  <2>2. CASE Finish
    BY <2>2, BacktestAssumption DEF Finish, NeverOptimistic, Ended
  <2>3. CASE UNCHANGED vars
    BY <2>3 DEF vars, NeverOptimistic, Ended
  <2>4. QED
    BY <2>1, <2>2, <2>3 DEF Next
<1>3. QED
  BY <1>1, <1>2, BacktestInvariant, PTL DEF Spec

\* The market model trades exactly like sim.rs (harness/sweep/execution.rs): at
\* every candle the same positions and trades, and at the end the same PnL after
\* costs but for the cap on what is still open.
THEOREM MarketModelIsTheSimulator == Spec => []MarketMatchesSim
<1>1. BacktestInv => MarketMatchesSim
  BY DEF BacktestInv, ExecInv, MarketInv, MarketMatchesSim
<1>2. QED
  BY <1>1, BacktestInvariant, PTL

\* Fund and signals add up in every account, through fills, exits, expiries and
\* the end of the data (simulate and simulate_execution).
THEOREM EveryAccountIsExplained == Spec => []AccountsExplained
<1>1. BacktestInv => AccountsExplained
  <2> SUFFICES ASSUME BacktestInv PROVE AccountsExplained
    OBVIOUS
  <2>1. FundExplained(sim)
    BY DEF BacktestInv, SimInv, AccountInv
  <2>2. \A m \in Models : /\ FundExplained(exec[m]) /\ SignalsExplained(exec[m])
                          /\ exec[m] \in AccountRecords /\ IsFiniteSet(exec[m].open)
    BY DEF BacktestInv, ExecInv, AccountInv
  <2>3. \A a \in Accounts : FundExplained(a)
    BY <2>1, <2>2 DEF BacktestInv, Accounts, Range
  <2>4. ASSUME NEW a \in AccountRecords, IsFiniteSet(a.open), SignalsExplained(a)
        PROVE  a.signals = a.closed + Cardinality(a.open) + Len(a.pending)
                             + a.expired + a.skipped + a.invalid
    <3>1. a.signals = a.closed + ((Cardinality(a.open) + Len(a.pending))
                                    + (a.expired + a.skipped + a.invalid))
      BY <2>4 DEF SignalsExplained, Held, Counts
    <3>2. /\ a.closed \in Int /\ Cardinality(a.open) \in Int /\ Len(a.pending) \in Int
          /\ a.expired \in Int /\ a.skipped \in Int /\ a.invalid \in Int
      BY <2>4, AccountTypes, HeldIsInt
    <3> DEFINE ids == a.closed + Cardinality(a.open) + Len(a.pending)
    <3>3. a.closed + (Cardinality(a.open) + Len(a.pending)) = ids /\ ids \in Int
      BY ONLY <3>2
    <3>4. a.signals = ids + (a.expired + a.skipped + a.invalid)
      <4> DEFINE held == Cardinality(a.open) + Len(a.pending)
                 counted == a.expired + a.skipped + a.invalid
      <4>1. held \in Int /\ counted \in Int /\ a.closed \in Int /\ a.closed + held = ids
        BY ONLY <3>2, <3>3
      <4>2. a.signals = a.closed + (held + counted)
        BY <3>1
      <4> HIDE DEF held, counted, ids
      <4>3. a.signals = ids + counted
        BY ONLY <4>1, <4>2
      <4>4. QED
        BY <4>3 DEF counted
    <3>5. QED
      <4> HIDE DEF ids
      <4>1. a.signals = ids + a.expired + a.skipped + a.invalid
        BY ONLY <3>2, <3>3, <3>4
      <4>2. QED
        BY <4>1 DEF ids
  <2>5. QED
    BY <2>2, <2>3, <2>4 DEF AccountsExplained, FundExplained
<1>2. QED
  BY <1>1, BacktestInvariant, PTL

\* A limit entry that leaves through its stop has lost, whatever its offset,
\* buffer and validity: limit_fill refuses a fill beyond the stop.
THEOREM StoppedLimitEntriesLose == Spec => []StopsLose
<1>1. BacktestInv => StopsLose
  BY DEF BacktestInv, ExecInv, LimitInv, StopsLose
<1>2. QED
  BY <1>1, BacktestInvariant, PTL

\* What settle_filled persists is what it credits less the fund of the entry,
\* at every tick, lateness and fee, and its sign is the decision's (pnl.rs).
THEOREM BooksMatchBalances == Spec => []BookedMatchesBalance
<1>1. Init => BookedMatchesBalance
  BY DEF Init, BookedMatchesBalance
<1>2. BacktestInv /\ BookedMatchesBalance /\ [Next]_vars => BookedMatchesBalance'
  <2> SUFFICES ASSUME BacktestInv, BookedMatchesBalance, [Next]_vars
               PROVE  BookedMatchesBalance'
    OBVIOUS
  <2>1. ASSUME NEW path \in Paths, Candle(path)
        PROVE  BookedMatchesBalance'
    <3> DEFINE i == index + 1
               k == CandleOf(path)
               b == SimFill(sim, signal, k, i)
    <3>1. /\ i \in Nat \ {0} /\ AccountInv(sim, i - 2) /\ \A p \in sim.open : p.leave = "all"
          /\ k.open \in Prices /\ k.high \in Prices /\ k.low \in Prices
          /\ signal = NoSignal \/ (signal \in Signals /\ signal.id = i - 1)
      BY <2>1, BeforeCandle
    <3>2. live' = LiveStep(b.open, path)
      BY <2>1 DEF Candle
    <3> HIDE DEF i
    <3>3. b.open \subseteq Positions
      BY <3>1, SimStepKeeps, AccountTypes DEF AccountInv
    <3> HIDE DEF b
    <3>4. QED
      BY <3>2, <3>3, RoundTripBooks DEF LiveStep, BookedMatchesBalance
  <2>2. CASE Finish
    BY <2>2 DEF Finish, BookedMatchesBalance
  <2>3. CASE UNCHANGED vars
    BY <2>3 DEF vars, BookedMatchesBalance
  <2>4. QED
    BY <2>1, <2>2, <2>3 DEF Next
<1>3. QED
  BY <1>1, <1>2, BacktestInvariant, PTL DEF Spec
=============================================================================
