------------------------------- MODULE Screening -------------------------------
(***************************************************************************)
(* What the research tools of the analyzer compute from a data set: the    *)
(* chronological partitions, the metrics of a partition, their pool over   *)
(* symbols, the ranking of the candidates (harness/sweep/ranking.rs), the  *)
(* cost ladder's verdict, and the two decision rules for execution models  *)
(* (analyzer-execution.rs, harness/sweep/confirmation.rs).                 *)
(*                                                                         *)
(* A history stands for a data set and a configuration: the set of the     *)
(* signals the replay emits, each with the candle its trade closes at, the *)
(* gross result then, the mark while it is open, whether it closes at its  *)
(* target, and whether a resting limit order would have been filled.       *)
(* Backtest models how the simulators find these; here every trade has the *)
(* notional Notional and the fund never runs out.  Ratios are compared by  *)
(* their numerators and denominators.                                      *)
(***************************************************************************)
EXTENDS Integers, FiniteSets, Sequences, FiniteSetsExt, SequencesExt, Functions

CONSTANTS
  Symbols, Candidates, Baseline,
  Rank,            \* the order of the candidates' labels
  N, Window,       \* candles of a data set, and those a configuration needs first
  InitFund, Notional,
  PerUnit,         \* costs are parts of 1 / PerUnit of a notional
  BaseRate, StressRate,
  Ladder,          \* the ladder's rates, ascending
  Viable,          \* the rate a break-even must reach
  Maker, Taker,    \* rates of a limit and of a market leg, slippage included
  Thresholds       \* [trades, dd, folds, symbols, share]

ASSUME ScreeningAssumption ==
  /\ IsFiniteSet(Symbols) /\ IsFiniteSet(Candidates) /\ Baseline \in Candidates
  /\ Rank \in [Candidates -> Nat] /\ IsInjective(Rank)
  /\ {N, Window, InitFund, Notional, PerUnit} \subseteq Nat \ {0}
  /\ {BaseRate, StressRate, Viable, Maker, Taker} \subseteq Nat
  /\ Ladder \in Seq(Nat) /\ \A i \in 1 .. Len(Ladder) - 1 : Ladder[i] < Ladder[i + 1]
  /\ \E i \in 2 .. Len(Ladder) : Ladder[i] = Viable

Trades == [at : 0 .. N - 1, exit : 0 .. N, gross : Int, mark : Int, short : BOOLEAN,
           target : BOOLEAN, limit : BOOLEAN]

-----------------------------------------------------------------------------
(* Partitions *)

Pct(n, p) == (n * p) \div 100

Slice(first, last) == [start |-> Pct(N, first), end |-> Pct(N, last)]

FoldNames == {"fold1", "fold2", "fold3"}

\* Mutant: the last fold is scored up to the end of the data.
SplitsPastValidation ==
  [train |-> Slice(0, 60), validation |-> Slice(60, 80), holdout |-> Slice(80, 100),
   fold1 |-> Slice(40, 55), fold2 |-> Slice(55, 70), fold3 |-> Slice(70, 100)]

Splits ==
  [train |-> Slice(0, 60), validation |-> Slice(60, 80), holdout |-> Slice(80, 100),
   fold1 |-> Slice(40, 55), fold2 |-> Slice(55, 70), fold3 |-> Slice(70, 80)]

Whole == [start |-> 0, end |-> N]

\* The candle a slice may first signal at: the Window candles before it warm up
\* the indicators, and are missing only at the start of the data.
EvalStart(s) == IF s.start >= Window THEN s.start ELSE Window

-----------------------------------------------------------------------------
(* Metrics of a partition *)

Entered(h, s) == {t \in h : t.at >= EvalStart(s) /\ t.at + 1 < s.end}

Closed(h, s) == {t \in Entered(h, s) : t.exit < s.end}

\* The cost of both legs, the second on the notional at the price of the exit, which
\* falls when a short gains; all amounts from here on are in 1 / PerUnit.
NetOf(t, gross, entryRate, exitRate) ==
  PerUnit * gross - entryRate * Notional
    - exitRate * (Notional + IF t.short THEN -gross ELSE gross)

\* The deepest fall of the fund below an earlier peak, over the trades in the
\* order they close and the marks of the open ones at the end.  Trades of a
\* history close at distinct candles.
Drawdown(closed, net, open) ==
  LET at(j) == SumFunctionOnSet(net, {t \in closed : t.exit <= j})
                 + IF j = N THEN open ELSE 0
      ends == {t.exit : t \in closed} \cup {-1, N}
  IN Max({at(p[1]) - at(p[2]) : p \in {q \in ends \X ends : q[1] <= q[2]}})

Metrics(closed, net, open) ==
  LET wins == {t \in closed : net[t] > 0}
      losses == {t \in closed : net[t] < 0}
      total(ts) == SumFunctionOnSet(net, ts)
  IN [trades |-> Cardinality(closed),
      profit |-> total(wins), loss |-> total(losses),
      closed |-> total(closed), open |-> open,
      dd |-> Drawdown(closed, net, open)]

\* metrics_from_outcome, on what simulate makes of a slice: a position still
\* open at the end of the slice is marked at its last close, never carried on.
SliceMetrics(h, s, rate) ==
  LET closed == Closed(h, s)
      net == [t \in closed |-> NetOf(t, t.gross, rate, rate)]
      marks == [t \in Entered(h, s) \ closed |-> NetOf(t, t.mark, rate, rate)]
  IN Metrics(closed, net, SumFunction(marks))

Pool(part) ==
  LET sum(f(_)) == SumFunction([s \in DOMAIN part |-> f(part[s])])
  IN [trades |-> sum(LAMBDA m : m.trades),
      profit |-> sum(LAMBDA m : m.profit), loss |-> sum(LAMBDA m : m.loss),
      closed |-> sum(LAMBDA m : m.closed), open |-> sum(LAMBDA m : m.open),
      dd |-> Max({part[s].dd : s \in DOMAIN part} \cup {0})]

\* net_expectancy, closed / trades, is positive, or greater than another's.
Positive(m) == m.closed > 0

Weight(m) == IF m.trades = 0 THEN 1 ELSE m.trades

Exceeds(m, o) == m.closed * Weight(o) > o.closed * Weight(m)

\* net_profit_factor, profit / |loss|, is above one; without a loss it is undefined
\* and any profit will do.
ProfitFactorOk(m) == IF m.loss = 0 THEN m.trades > 0 /\ m.profit > 0 ELSE m.profit > - m.loss

-----------------------------------------------------------------------------
(* Screening: analyzer-sweep *)

Scored(withHoldout) ==
  {"train", "validation"} \cup FoldNames \cup IF withHoldout THEN {"holdout"} ELSE {}

\* evaluate_candidate on the data sets of the loaded symbols; data[s] is the
\* candidate's history on symbol s.
Outcome(data, loaded, withHoldout) ==
  LET pooled(name, rate) ==
        Pool([s \in loaded |-> SliceMetrics(data[s], Splits[name], rate)])
  IN [perSymbol |-> [s \in loaded |-> SliceMetrics(data[s], Splits.validation, BaseRate)],
      base |-> [name \in Scored(withHoldout) |-> pooled(name, BaseRate)],
      stress |-> pooled("validation", StressRate)]

PositiveFolds(o) == Cardinality({f \in FoldNames : Positive(o.base[f])})

PositiveSymbols(o) == {s \in DOMAIN o.perSymbol : Positive(o.perSymbol[s])}

\* max_symbol_share_pct is over the threshold.
Concentrated(o) ==
  \E s \in DOMAIN o.perSymbol :
    100 * o.perSymbol[s].trades > Thresholds.share * o.base.validation.trades

\* rejection_reason, without the order in which the first failure is reported.
Rejected(o) ==
  \/ ~Positive(o.base.validation)
  \/ \E s \in DOMAIN o.perSymbol :
       100 * o.perSymbol[s].dd > Thresholds.dd * InitFund * PerUnit
  \/ PositiveFolds(o) < Thresholds.folds
  \/ o.base.validation.trades < Thresholds.trades
  \/ Concentrated(o)
  \/ Cardinality(PositiveSymbols(o)) < Thresholds.symbols

\* The first key on which two outcomes differ decides, the label the last of them.
Before(outcomes, a, b) ==
  LET A == outcomes[a].base.validation
      B == outcomes[b].base.validation
      fa == PositiveFolds(outcomes[a])
      fb == PositiveFolds(outcomes[b])
      tied == ~Exceeds(A, B) /\ ~Exceeds(B, A)
  IN \/ Exceeds(A, B)
     \/ tied /\ A.dd < B.dd
     \/ tied /\ A.dd = B.dd /\ fa > fb
     \/ tied /\ A.dd = B.dd /\ fa = fb /\ A.trades > B.trades
     \/ tied /\ A.dd = B.dd /\ fa = fb /\ A.trades = B.trades /\ Rank[a] < Rank[b]

\* rank: the qualifiers, best first.
Winners(outcomes) ==
  LET qualifiers == {c \in DOMAIN outcomes : ~Rejected(outcomes[c])}
      places == 1 .. Cardinality(qualifiers)
  IN CHOOSE w \in [places -> qualifiers] :
       \A i, j \in places : i < j => Before(outcomes, w[i], w[j])

-----------------------------------------------------------------------------
(* The cost ladder *)

\* Break-evens are fractions; Never is a ladder whose last rate still pays.
Never == <<1, 0>>

AtLeast(x, y) == x[1] * y[2] >= y[1] * x[2]

\* break_even_bps: results[i] is the pooled result at rate Ladder[i].  The trades
\* are the same at each rate, so the expectancies compare as the results do.
\* Mutant: a result of exactly zero does not cross.
BreakEvenStrict(results) ==
  LET crossings == {i \in 1 .. Len(Ladder) - 1 : results[i] > 0 /\ results[i + 1] < 0}
      i == Min(crossings)
  IN IF results[1] <= 0 THEN <<0, 1>>
     ELSE IF crossings = {} THEN Never
     ELSE <<Ladder[i] * (results[i] - results[i + 1])
              + (Ladder[i + 1] - Ladder[i]) * results[i],
            results[i] - results[i + 1]>>

BreakEven(results) ==
  LET crossings == {i \in 1 .. Len(Ladder) - 1 : results[i] > 0 /\ results[i + 1] <= 0}
      i == Min(crossings)
  IN IF results[1] <= 0 THEN <<0, 1>>
     ELSE IF crossings = {} THEN Never
     ELSE <<Ladder[i] * (results[i] - results[i + 1])
              + (Ladder[i + 1] - Ladder[i]) * results[i],
            results[i] - results[i + 1]>>

\* The results of a candidate on each symbol at one rate, and pooled along the ladder.
LadderMetrics(data, name, rate) ==
  [s \in Symbols |-> SliceMetrics(data[s], Splits[name], rate)]

Results(data, name) ==
  [i \in 1 .. Len(Ladder) |-> Pool(LadderMetrics(data, name, Ladder[i])).closed]

\* The break-evens of the candidates that pay at no cost, and the best of them:
\* Never compares as the greatest.
BreakEvens(data, name) ==
  {BreakEven(Results(data[c], name)) : c \in {d \in Candidates : Results(data[d], name)[1] > 0}}

BestBreakEven(points) == CHOOSE x \in points : \A y \in points : AtLeast(x, y)

Verdict(data, name) ==
  LET points == BreakEvens(data, name)
  IN IF points = {} THEN "no edge"
     ELSE IF AtLeast(BestBreakEven(points), <<Viable, 1>>) THEN "proceed" ELSE "below costs"

-----------------------------------------------------------------------------
(* Execution models *)

ExecModels == {"market", "limit"}

EntryRate(m) == IF m = "market" THEN Taker ELSE Maker

ExitRate(m, target) == IF m = "limit" /\ target THEN Maker ELSE Taker

\* ExecPartition: simulate_execution closes what is open at the end of the
\* slice, and counts every signal of it, the last candle's too.
ExecPart(h, s, m) ==
  LET signals == {t \in h : t.at >= EvalStart(s) /\ t.at < s.end}
      filled == {t \in signals : t.at + 1 < s.end /\ (m = "limit" => t.limit)}
      net(t) == IF t.exit < s.end THEN NetOf(t, t.gross, EntryRate(m), ExitRate(m, t.target))
                                  ELSE NetOf(t, t.mark, EntryRate(m), ExitRate(m, FALSE))
  IN [metrics |-> Metrics(filled, [t \in filled |-> net(t)], 0),
      signals |-> Cardinality(signals), filled |-> Cardinality(filled)]

PoolExec(parts) ==
  [metrics |-> Pool([s \in DOMAIN parts |-> parts[s].metrics]),
   signals |-> SumFunction([s \in DOMAIN parts |-> parts[s].signals]),
   filled |-> SumFunction([s \in DOMAIN parts |-> parts[s].filled])]

ExecParts(data, name, m) == [s \in Symbols |-> ExecPart(data[s], Splits[name], m)]

\* analyzer-execution's decide for one candidate: a limit model is selected on the
\* validation, and rescues the candidate if it holds up on the holdout.
\* Mutant: the market to beat is that of the holdout.
SelectedModelAgainstHoldout(data) ==
  LET limit == PoolExec(ExecParts(data, "validation", "limit"))
      market == PoolExec(ExecParts(data, "holdout", "market"))
  IN IF /\ 2 * limit.filled >= limit.signals /\ limit.signals > 0
        /\ Positive(limit.metrics) /\ Exceeds(limit.metrics, market.metrics)
     THEN "limit" ELSE "none"

SelectedModel(data) ==
  LET limit == PoolExec(ExecParts(data, "validation", "limit"))
      market == PoolExec(ExecParts(data, "validation", "market"))
  IN IF /\ 2 * limit.filled >= limit.signals /\ limit.signals > 0
        /\ Positive(limit.metrics) /\ Exceeds(limit.metrics, market.metrics)
     THEN "limit" ELSE "none"

Rescues(data) ==
  LET parts == ExecParts(data, "holdout", "limit")
      pooled == PoolExec(parts).metrics
  IN /\ SelectedModel(data) = "limit"
     /\ Positive(pooled) /\ ProfitFactorOk(pooled)
     /\ 3 * Cardinality({s \in Symbols : Positive(parts[s].metrics)}) >= 2 * Cardinality(Symbols)

\* evaluate_full_period: the limit model on the whole of each data set.
FullPeriod(data, symbols) == [s \in symbols |-> ExecPart(data[s], Whole, "limit")]

\* confirmation's decide, under a rule [trades, symbols].
Confirmed(data, symbols, rule) ==
  LET parts == FullPeriod(data, symbols)
      pooled == PoolExec(parts).metrics
  IN /\ pooled.trades >= rule.trades
     /\ Positive(pooled) /\ ProfitFactorOk(pooled)
     /\ Cardinality({s \in symbols : Positive(parts[s].metrics)}) >= rule.symbols
=============================================================================
