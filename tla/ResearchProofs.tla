----------------------------- MODULE ResearchProofs -----------------------------
(***************************************************************************)
(* The research tools, for any data, lock, edits and thresholds.           *)
(*                                                                         *)
(* A confirmation decides by what was committed (ConfirmInv).              *)
(* What a sweep and a ladder report, in this run or an earlier one, is     *)
(* what the data say (ReportInv): the sweep ranks on what was scored       *)
(* before the holdout and advises only on the whole of the candidates; the *)
(* ladder's verdict is that of its own results at the viable rate.  And no *)
(* choice made before the holdout changes with what the holdout pays.      *)
(* The lemmas between the two invariants are about Screening's operators.  *)
(***************************************************************************)
EXTENDS Research, SumTheorems

(***************************************************************************)
(* A confirmation decides by what was committed.  The lock is read again   *)
(* after its digest was checked, so not the digest ensures it but          *)
(* validate_lock, which compares what the later phases use; the invariant  *)
(* follows those fields from there to the files.                           *)
(***************************************************************************)

ConfirmPhases == {"digest", "parse", "verify", "validate", "load", "evaluate", "done", "failed"}
                 \cup Artifact

\* The decision under the lock as committed.
Pinned == Confirmed(data[Lock.candidate], Lock.symbols,
                    [trades |-> Lock.trades, symbols |-> Lock.wins])

LockPinned == /\ lock.candidate = Lock.candidate /\ lock.symbols = Lock.symbols
              /\ lock.trades = Lock.trades /\ lock.wins = Lock.wins

ConfirmInv ==
  /\ files = [f \in Artifact |-> files[f]]
  /\ tool = "confirm" =>
       /\ pc \in ConfirmPhases
       /\ pc \in {"load", "evaluate"} => LockPinned
       /\ pc = "evaluate" => loaded = Lock.symbols
       /\ pc \in Artifact => (results.passed <=> Pinned)
       /\ \A f \in Artifact : files[f] \notin {None, Torn} => (files[f].passed <=> Pinned)

\* A step that keeps the artifacts, the lock and the results.
LEMMA PhaseKeepsInv ==
  ASSUME ConfirmInv, UNCHANGED <<files, tool, data, lock>>,
         tool = "confirm" =>
           /\ pc' \in ConfirmPhases
           /\ pc' \in {"load", "evaluate"} => LockPinned
           /\ pc' = "evaluate" => loaded' = Lock.symbols
           /\ pc' \in Artifact => pc \in Artifact /\ UNCHANGED results
  PROVE  ConfirmInv'
<1>1. Pinned' = Pinned /\ LockPinned' = LockPinned
  BY DEF Pinned, LockPinned
<1>2. QED
  BY <1>1 DEF ConfirmInv

\* A run begins, or dies.
LEMMA EndsKeepInv ==
  ASSUME ConfirmInv, UNCHANGED <<files, tool, data>>, pc' \in {"failed", "digest"}
  PROVE  ConfirmInv'
<1>1. Pinned' = Pinned
  BY DEF Pinned
<1>2. QED
  BY <1>1 DEF ConfirmInv, ConfirmPhases, Artifact

LEMMA SweepKeepsInv ==
  ASSUME ConfirmInv,
         LoadSymbols \/ ScoreCandidates \/ RankCandidates \/ ScoreFrozen \/ ReportSweep
  PROVE  ConfirmInv'
<1>1. tool # "confirm"
  BY DEF ConfirmInv, ConfirmPhases, Artifact, LoadSymbols, ScoreCandidates, RankCandidates,
         ScoreFrozen, ReportSweep
<1>2. UNCHANGED <<tool, files>>
  BY Zenon DEF LoadSymbols, ScoreCandidates, RankCandidates, ScoreFrozen, ReportSweep, kept
<1>3. QED
  BY <1>1, <1>2 DEF ConfirmInv

LEMMA LadderKeepsInv ==
  ASSUME ConfirmInv, LoadDatasets \/ EvaluateLadder \/ EvaluateExecution
  PROVE  ConfirmInv'
<1>1. tool # "confirm" /\ UNCHANGED <<tool, files>>
  BY DEF LoadDatasets, EvaluateLadder, EvaluateExecution, Load, Compute, kept
<1>2. QED
  BY <1>1 DEF ConfirmInv

LEMMA CheckingKeepsInv ==
  ASSUME ConfirmInv, VerifyDigest \/ Verify \/ ValidateLock
  PROVE  ConfirmInv'
<1>1. UNCHANGED <<files, tool, data, lock, results>>
  BY DEF VerifyDigest, Verify, ValidateLock, memory, kept
<1>2. pc' \in {"parse", "validate", "failed"} \/ (pc' = "load" /\ LockPinned)
  BY DEF VerifyDigest, Verify, ValidateLock, LockPinned
<1>3. pc' \in ConfirmPhases /\ pc' \notin Artifact /\ pc' # "evaluate"
      /\ (pc' \in {"load", "evaluate"} => LockPinned)
  BY <1>2 DEF ConfirmPhases, Artifact, LockPinned
<1>4. QED
  BY <1>1, <1>3, PhaseKeepsInv, Zenon

LEMMA LoadLockKeepsInv ==
  ASSUME ConfirmInv, LoadLock
  PROVE  ConfirmInv'
<1>1. UNCHANGED <<files, tool, data>> /\ pc' = "verify"
  BY DEF LoadLock, kept
<1>2. Pinned' = Pinned
  BY <1>1 DEF Pinned
<1>3. QED
  BY <1>1, <1>2 DEF ConfirmInv, ConfirmPhases, Artifact

LEMMA LoadLockedKeepsInv ==
  ASSUME ConfirmInv, LoadLocked
  PROVE  ConfirmInv'
<1>1. /\ tool = "confirm" /\ pc = "load" /\ UNCHANGED <<files, tool, data, lock, results>>
      /\ \/ loaded' = lock.symbols /\ pc' = "evaluate"
         \/ pc' = "failed"
  BY DEF LoadLocked, Load, Fail, kept
<1>2. LockPinned
  BY <1>1 DEF ConfirmInv
<1>3. QED
  BY <1>1, <1>2, PhaseKeepsInv DEF LockPinned, ConfirmPhases, Artifact

LEMMA EvaluateLockedKeepsInv ==
  ASSUME ConfirmInv, EvaluateLocked
  PROVE  ConfirmInv'
<1> DEFINE verdict == Confirmed(data[lock.candidate], loaded,
                                [trades |-> lock.trades, symbols |-> lock.wins])
<1>1. /\ tool = "confirm" /\ pc = "evaluate" /\ UNCHANGED <<files, tool, data, lock, loaded>>
      /\ \/ results' = [passed |-> verdict, lock |-> lock] /\ pc' = "csv"
         \/ pc' = "failed"
  BY DEF EvaluateLocked, Compute, Fail, kept
<1>2. verdict = Pinned
  BY <1>1 DEF ConfirmInv, LockPinned, Pinned
<1>3. Pinned' = Pinned
  BY <1>1 DEF Pinned
<1>4. CASE pc' = "failed"
  BY <1>1, <1>4, EndsKeepInv
<1>5. CASE results' = [passed |-> verdict, lock |-> lock] /\ pc' = "csv"
  <2>1. results'.passed = Pinned
    BY <1>2, <1>5
  <2> HIDE DEF verdict
  <2>2. results'.passed <=> Pinned'
    BY <2>1, <1>3, Zenon
  <2>3. pc' \in ConfirmPhases /\ pc' \notin {"load", "evaluate"}
    BY <1>5 DEF ConfirmPhases, Artifact
  <2>4. files' = [f \in Artifact |-> files'[f]]
    BY <1>1 DEF ConfirmInv
  <2>5. \A f \in Artifact : files'[f] \notin {None, Torn} => (files'[f].passed <=> Pinned')
    BY <1>1, <1>3 DEF ConfirmInv
  <2>6. QED
    BY <2>2, <2>3, <2>4, <2>5 DEF ConfirmInv
<1>6. QED
  BY <1>1, <1>4, <1>5

LEMMA WritingKeepsInv ==
  ASSUME ConfirmInv, (\E f \in Artifact : Truncate(f)) \/ (\E i \in 1 .. 3 : Fill(i))
  PROVE  ConfirmInv'
<1>1. PICK f \in Artifact, said \in {Torn, results} :
        /\ pc = f /\ files' = [files EXCEPT ![f] = said]
        /\ UNCHANGED <<tool, data, results, lock, loaded>>
  BY DEF Truncate, Fill, Artifacts, Artifact, memory, kept
<1>2. pc' \in Artifact \cup {"done", "failed"}
  BY <1>1 DEF Truncate, Fill, Artifacts, Artifact
<1>3. Pinned' = Pinned
  BY <1>1 DEF Pinned
<1>4. tool = "confirm" => (results.passed <=> Pinned)
  BY <1>1 DEF ConfirmInv
<1>5. files' = [g \in Artifact |-> files'[g]]
  BY <1>1 DEF ConfirmInv
<1>6. tool = "confirm" =>
        \A g \in Artifact : files'[g] \notin {None, Torn} => (files'[g].passed <=> Pinned)
  BY <1>1, <1>4 DEF ConfirmInv
<1>7. pc' \in ConfirmPhases /\ pc' \notin {"load", "evaluate"}
  BY <1>2 DEF ConfirmPhases, Artifact
<1>8. QED
  BY <1>1, <1>3, <1>4, <1>5, <1>6, <1>7 DEF ConfirmInv

LEMMA NextKeepsConfirmInv ==
  ASSUME ConfirmInv, [Next]_vars
  PROVE  ConfirmInv'
<1>1. CASE LoadSymbols \/ ScoreCandidates \/ RankCandidates \/ ScoreFrozen \/ ReportSweep
  BY <1>1, SweepKeepsInv
<1>2. CASE LoadDatasets \/ EvaluateLadder \/ EvaluateExecution
  BY <1>2, LadderKeepsInv
<1>3. CASE VerifyDigest \/ Verify \/ ValidateLock
  BY <1>3, CheckingKeepsInv
<1>4. CASE LoadLock
  BY <1>4, LoadLockKeepsInv
<1>5. CASE LoadLocked
  BY <1>5, LoadLockedKeepsInv
<1>6. CASE EvaluateLocked
  BY <1>6, EvaluateLockedKeepsInv
<1>7. CASE EditLock \/ EditSource \/ UNCHANGED vars
  <2>1. UNCHANGED <<pc, files, tool, data, lock, loaded, results>>
    BY <1>7 DEF EditLock, EditSource, vars, memory, kept
  <2>2. QED
    BY <2>1, PhaseKeepsInv DEF ConfirmInv
<1>8. CASE (\E f \in Artifact : Truncate(f)) \/ (\E i \in 1 .. 3 : Fill(i))
  BY <1>8, WritingKeepsInv
<1>9. CASE Die
  BY <1>9, EndsKeepInv DEF Die, Fail, kept
<1>10. CASE RunAgain
  <2>1. UNCHANGED <<tool, data, files>> /\ (tool = "confirm" => pc' = "digest")
    BY <1>10 DEF RunAgain, FirstPhase
  <2>2. Pinned' = Pinned
    BY <2>1 DEF Pinned
  <2>3. QED
    BY <2>1, <2>2 DEF ConfirmInv, ConfirmPhases, Artifact
<1>11. QED
  BY <1>1, <1>2, <1>3, <1>4, <1>5, <1>6, <1>7, <1>8, <1>9, <1>10, Zenon DEF Next

LEMMA InitIsConfirmInv ==
  ASSUME Init
  PROVE  ConfirmInv
<1>1. files = [f \in Artifact |-> None] /\ (tool = "confirm" => pc = "digest")
  BY DEF Init, FirstPhase
<1>2. QED
  BY <1>1 DEF ConfirmInv, ConfirmPhases, Artifact

\* A confirmation decides as the candidate, symbols and decision rule of the committed
\* lock do, for any data, any lock and any edits while it ran (analyzer-confirm).
THEOREM ResearchDecidesByThePinned == Spec => []DecidesByThePinned
<1>1. Init => ConfirmInv
  BY InitIsConfirmInv
<1>2. ConfirmInv /\ [Next]_vars => ConfirmInv'
  BY NextKeepsConfirmInv
<1>3. ConfirmInv => DecidesByThePinned
  BY DEF ConfirmInv, DecidesByThePinned, Published, Pinned, Artifact
<1>4. QED
  BY <1>1, <1>2, <1>3, PTL DEF Spec

(***************************************************************************)
(* What the tools compute is made of integers, and of finitely many.       *)
(***************************************************************************)

\* What a candidate's simulation of a symbol leaves: trades that last, one at a time.
History(h) == /\ h \subseteq Trades
              /\ \A t \in h : t.at < t.exit
              /\ \A t, o \in h : t # o => t.exit # o.exit

LEMMA DataAreHistories ==
  ASSUME NEW d \in Data, NEW c \in Candidates, NEW s \in Symbols
  PROVE  /\ DOMAIN d = Candidates /\ DOMAIN d[c] = Symbols
         /\ History(d[c][s])
  BY ResearchAssumption DEF History

LEMMA HistoryIsFinite ==
  ASSUME NEW h, History(h)
  PROVE  IsFiniteSet(h)
<1> DEFINE m == [t \in h |-> t.exit]
<1>1. m \in [h -> 0 .. N]
  BY DEF History, Trades
<1>2. m \in Injection(h, 0 .. N)
  BY <1>1 DEF History, Injection, IsInjective
<1>3. IsFiniteSet(0 .. N)
  BY ScreeningAssumption, FS_Interval
<1> HIDE DEF m
<1>4. QED
  BY <1>2, <1>3, FS_Injection

LEMMA NetIsInt ==
  ASSUME NEW t, NEW g \in Int, NEW a \in Nat, NEW b \in Nat
  PROVE  NetOf(t, g, a, b) \in Int
<1>1. PerUnit \in Int /\ Notional \in Int /\ -g \in Int
  BY ScreeningAssumption
<1>2. /\ PerUnit * g \in Int /\ a * Notional \in Int
      /\ b * (Notional + g) \in Int /\ b * (Notional + -g) \in Int
  BY <1>1
<1>3. QED
  BY <1>2 DEF NetOf

\* The fund's fall is a difference of two of its values.
LEMMA DrawdownIsInt ==
  ASSUME NEW closed, IsFiniteSet(closed), closed \subseteq Trades,
         NEW net, \A t \in closed : net[t] \in Int, NEW open \in Int
  PROVE  Drawdown(closed, net, open) \in Int
<1> DEFINE at(j) == SumFunctionOnSet(net, {t \in closed : t.exit <= j})
                      + IF j = N THEN open ELSE 0
           exits == {t.exit : t \in closed}
           ends == exits \cup {-1, N}
           pairs == {q \in ends \X ends : q[1] <= q[2]}
           falls == {at(p[1]) - at(p[2]) : p \in pairs}
<1>1. \A j : at(j) \in Int
  <2> TAKE j
  <2>1. IsFiniteSet({t \in closed : t.exit <= j})
    BY FS_Subset
  <2>2. SumFunctionOnSet(net, {t \in closed : t.exit <= j}) \in Int
    BY <2>1, SumIsInt
  <2>3. QED
    BY <2>2
<1>2. IsFiniteSet(pairs) /\ <<-1, N>> \in pairs
  <2>1. IsFiniteSet(exits)
    <3> DEFINE f == [t \in closed |-> t.exit]
    <3>1. exits = {f[t] : t \in closed}
      OBVIOUS
    <3> HIDE DEF f, exits
    <3>2. QED
      BY <3>1, ImageIsFinite
  <2>2. IsFiniteSet(ends)
    <3>1. IsFiniteSet({-1, N}) /\ ends = exits \cup {-1, N}
      <4>1. IsFiniteSet({-1}) /\ {-1, N} = {-1} \cup {N}
        BY FS_Singleton
      <4>2. QED
        BY <4>1, FS_AddElement
    <3> HIDE DEF exits, ends
    <3>2. QED
      BY <2>1, <3>1, FS_Union
  <2>3. IsFiniteSet(ends \X ends)
    <3> HIDE DEF ends
    <3>1. QED
      BY <2>2, FS_Product
  <2>4. <<-1, N>> \in pairs
    BY ScreeningAssumption
  <2>5. pairs \in SUBSET (ends \X ends)
    OBVIOUS
  <2> HIDE DEF pairs, ends
  <2>6. QED
    BY <2>3, <2>4, <2>5, FS_Subset
<1>3. IsFiniteSet(falls) /\ falls # {} /\ falls \subseteq Int
  <2> DEFINE f == [p \in pairs |-> at(p[1]) - at(p[2])]
  <2>1. falls = {f[p] : p \in pairs}
    OBVIOUS
  <2>2. falls \subseteq Int
    <3> HIDE DEF at, pairs
    <3>1. QED
      BY <1>1
  <2>3. falls # {}
    <3> HIDE DEF at, pairs
    <3>1. QED
      BY <1>2
  <2> HIDE DEF f, pairs, falls
  <2>4. QED
    BY <1>2, <2>1, <2>2, <2>3, ImageIsFinite
<1>4. Drawdown(closed, net, open) = Max(falls)
  BY DEF Drawdown
<1>5. Max(falls) \in falls
  <2> HIDE DEF falls
  <2>1. QED
    BY <1>3, MaxExists DEF Max
<1>6. QED
  <2> HIDE DEF falls
  <2>1. QED
    BY <1>3, <1>4, <1>5

\* The figures the tools compare and add up.
Figures(m) == m.trades \in Nat /\ m.closed \in Int /\ m.dd \in Int

\* A slice's metrics are figures, whatever trades of the data it closes.
LEMMA MetricsAreFigures ==
  ASSUME NEW closed, IsFiniteSet(closed), closed \subseteq Trades,
         NEW net, \A t \in closed : net[t] \in Int, NEW open \in Int
  PROVE  Figures(Metrics(closed, net, open))
<1>1. Cardinality(closed) \in Nat
  BY FS_CardinalityType
<1>2. SumFunctionOnSet(net, closed) \in Int
  BY SumIsInt
<1>3. Drawdown(closed, net, open) \in Int
  BY DrawdownIsInt
<1>4. QED
  BY <1>1, <1>2, <1>3 DEF Figures, Metrics

LEMMA SliceFigures ==
  ASSUME NEW h, History(h), NEW s, NEW rate \in Nat
  PROVE  Figures(SliceMetrics(h, s, rate))
<1> DEFINE closed == Closed(h, s)
           left == Entered(h, s) \ closed
           net == [t \in closed |-> NetOf(t, t.gross, rate, rate)]
           marks == [t \in left |-> NetOf(t, t.mark, rate, rate)]
<1>1. closed \in SUBSET h /\ left \in SUBSET h /\ h \subseteq Trades
  BY DEF Closed, Entered, History
<1>2. IsFiniteSet(closed) /\ IsFiniteSet(left)
  BY <1>1, HistoryIsFinite, FS_Subset
<1>3. \A t \in Trades : t.gross \in Int /\ t.mark \in Int
  BY DEF Trades
<1>4. \A t \in closed : net[t] \in Int
  <2> TAKE t \in closed
  <2>1. t.gross \in Int
    BY <1>1, <1>3
  <2>2. QED
    BY <2>1, NetIsInt
<1>5. \A t \in left : marks[t] \in Int
  <2> HIDE DEF left
  <2> TAKE t \in left
  <2>1. t.mark \in Int
    BY <1>1, <1>3
  <2>2. QED
    BY <2>1, NetIsInt
<1>6. SumFunction(marks) \in Int
  <2>1. SumFunction(marks) = SumFunctionOnSet(marks, left)
    BY DEF SumFunction
  <2> HIDE DEF marks, left
  <2>2. QED
    BY <1>2, <1>5, <2>1, SumIsInt
<1>7. SliceMetrics(h, s, rate) = Metrics(closed, net, SumFunction(marks))
  BY DEF SliceMetrics
<1> HIDE DEF closed, left, net, marks
<1>8. QED
  BY <1>1, <1>2, <1>4, <1>6, <1>7, MetricsAreFigures

LEMMA PoolFigures ==
  ASSUME NEW part, IsFiniteSet(DOMAIN part), \A s \in DOMAIN part : Figures(part[s])
  PROVE  Figures(Pool(part))
<1> DEFINE S == DOMAIN part
           trades == [s \in S |-> part[s].trades]
           closed == [s \in S |-> part[s].closed]
           falls == {part[s].dd : s \in S} \cup {0}
<1>1. SumFunction(trades) \in Nat
  <2>1. SumFunction(trades) = SumFunctionOnSet(trades, S) /\ \A s \in S : trades[s] \in Nat
    BY DEF SumFunction, Figures
  <2> HIDE DEF trades
  <2>2. QED
    BY <2>1, SumIsNat
<1>2. SumFunction(closed) \in Int
  <2>1. SumFunction(closed) = SumFunctionOnSet(closed, S) /\ \A s \in S : closed[s] \in Int
    BY DEF SumFunction, Figures
  <2> HIDE DEF closed
  <2>2. QED
    BY <2>1, SumIsInt
<1>3. Max(falls) \in Int
  <2> DEFINE f == [s \in S |-> part[s].dd]
             im == {f[s] : s \in S}
  <2>1. falls = im \cup {0} /\ falls \subseteq Int /\ falls # {}
    BY DEF Figures
  <2>2. IsFiniteSet(im)
    <3> HIDE DEF f
    <3>1. QED
      BY ImageIsFinite
  <2> HIDE DEF im, falls
  <2>3. IsFiniteSet(falls)
    BY <2>1, <2>2, FS_AddElement
  <2>4. QED
    BY <2>1, <2>3, MaxExists DEF Max
<1>4. /\ Pool(part).trades = SumFunction(trades)
      /\ Pool(part).closed = SumFunction(closed)
      /\ Pool(part).dd = Max(falls)
  BY DEF Pool
<1>5. QED
  BY <1>1, <1>2, <1>3, <1>4 DEF Figures

(***************************************************************************)
(* The cost ladder: a break-even reaches the viable rate exactly when the  *)
(* results say so, and the best of the break-evens when one of them does.  *)
(***************************************************************************)

\* The line from a result x > 0 at rate l to a result y <= 0 at rate m crosses zero
\* past l, at m only if y is zero, and never past m.
LEMMA Crossing ==
  ASSUME NEW l \in Int, NEW m \in Int, NEW v \in Int, NEW x \in Int, NEW y \in Int,
         l < m, x > 0, y <= 0,
         NEW d \in Int, d = x - y, NEW b \in Int, b = l * d + (m - l) * x
  PROVE  /\ v <= l => b >= v * d
         /\ v = m => (b >= v * d <=> y >= 0)
         /\ v > m => ~(b >= v * d)
<1> DEFINE g == m - l
<1>1. d \in Int /\ d > 0 /\ g \in Int /\ g > 0
  OBVIOUS
<1>2. g * x \in Int /\ g * x > 0 /\ g * y \in Int /\ g * y <= 0 /\ (g * y = 0 <=> y = 0)
  BY <1>1
<1>3. l * d \in Int /\ m * d \in Int /\ v * d \in Int /\ m * d = l * d + g * d
  BY <1>1
<1>4. g * d = g * x - g * y
  BY <1>1
<1>5. b = m * d + g * y
  <2>1. b = l * d + g * x
    OBVIOUS
  <2> HIDE DEF g
  <2>2. QED
    BY <1>2, <1>3, <1>4, <2>1
<1>6. v <= l => l * d >= v * d
  BY <1>1
<1>7. v > m => v * d > m * d
  BY <1>1
<1>8. (v <= l => b >= v * d) /\ (v = m => (b >= v * d <=> y >= 0)) /\ (v > m => ~(b >= v * d))
  <2> HIDE DEF g
  <2>1. b \in Int /\ b >= l * d
    <3>1. b = l * d + g * x
      BY DEF g
    <3>2. QED
      BY <1>2, <1>3, <3>1
  <2>2. v <= l => b >= v * d
    BY <1>3, <1>6, <2>1
  <2>3. v > m => ~(b >= v * d)
    BY <1>2, <1>3, <1>5, <1>7
  <2>4. v = m => (b >= v * d <=> y >= 0)
    BY <1>2, <1>3, <1>5
  <2>5. QED
    BY <2>2, <2>3, <2>4
<1>9. QED
  BY <1>8

\* Neighbouring rungs ascend, so all do.
LEMMA LadderAscends ==
  /\ Len(Ladder) \in Nat /\ Ladder \in [1 .. Len(Ladder) -> Nat]
  /\ \A i, j \in 1 .. Len(Ladder) : i < j => Ladder[i] < Ladder[j]
<1>1. Len(Ladder) \in Nat /\ Ladder \in [1 .. Len(Ladder) -> Nat]
  <2>1. Ladder \in Seq(Nat)
    BY ScreeningAssumption
  <2>2. QED
    BY ONLY <2>1
<1>2. ASSUME NEW i \in 1 .. Len(Ladder), NEW j \in 1 .. Len(Ladder), i < j, ~(Ladder[i] < Ladder[j])
      PROVE  FALSE
  <2> DEFINE n == Len(Ladder)
             U == {k \in i + 1 .. n : ~(Ladder[i] < Ladder[k])}
  <2>1. IsFiniteSet(U) /\ U # {} /\ U \subseteq Int
    <3>1. IsFiniteSet(i + 1 .. n)
      BY <1>1, FS_Interval
    <3>2. U \in SUBSET (i + 1 .. n) /\ j \in U /\ U \subseteq Int
      BY <1>1, <1>2
    <3> HIDE DEF U
    <3>3. QED
      BY <1>1, <3>1, <3>2, FS_Subset
  <2>2. PICK k \in U : \A y \in U : k =< y
    <3> HIDE DEF U
    <3>1. QED
      BY <2>1, MaxExists
  <2>3. k \in i + 1 .. n /\ k - 1 \in 1 .. n /\ k - 1 \in 1 .. n - 1 /\ k - 1 \notin U
    BY <1>1, <2>2
  <2>4. Ladder[k - 1] < Ladder[k]
    <3>1. Ladder[k - 1] < Ladder[(k - 1) + 1]
      BY <2>3, ScreeningAssumption
    <3>2. QED
      BY <2>3, <3>1
  <2>5. CASE k = i + 1
    BY <2>2, <2>4, <2>5
  <2>6. CASE k # i + 1
    <3>1. Ladder[i] < Ladder[k - 1]
      BY <1>1, <2>3, <2>6
    <3>2. Ladder[i] \in Nat /\ Ladder[k - 1] \in Nat /\ Ladder[k] \in Nat
      BY <1>1, <2>3
    <3>3. QED
      BY <2>2, <2>4, <3>1, <3>2
  <2>7. QED
    BY <2>5, <2>6
<1>3. QED
  BY <1>1, <1>2

\* The first rung that does not pay is the one after the first crossing.
LEMMA PaysUpTo ==
  ASSUME NEW n \in Nat, NEW r \in [1 .. n -> Int], NEW k \in 1 .. n, r[1] > 0,
         \A i \in 1 .. k - 1 : ~(r[i] > 0 /\ r[i + 1] <= 0)
  PROVE  r[k] > 0
<1> DEFINE U == {i \in 1 .. k : r[i] <= 0}
<1>1. SUFFICES ASSUME k \in U PROVE FALSE
  OBVIOUS
<1>2. IsFiniteSet(U) /\ U # {} /\ U \subseteq Int
  <2>1. IsFiniteSet(1 .. k)
    BY FS_Interval
  <2> HIDE DEF U
  <2>2. U \in SUBSET (1 .. k) /\ U \subseteq Int
    BY DEF U
  <2>3. QED
    BY <1>1, <2>1, <2>2, FS_Subset
<1>3. PICK i \in U : \A j \in U : i =< j
  <2> HIDE DEF U
  <2>1. QED
    BY <1>2, MaxExists
<1>4. i # 1 /\ i \in 1 .. k
  BY <1>3
<1>5. i - 1 \in 1 .. k - 1 /\ i - 1 \in 1 .. k /\ i - 1 \notin U
  BY <1>3, <1>4
<1>6. r[i - 1] > 0 /\ r[(i - 1) + 1] <= 0
  BY <1>3, <1>4, <1>5
<1>7. QED
  BY <1>5, <1>6

\* What the ladder shows of a candidate with these results.
Survives(r) == \A i \in 1 .. Len(Ladder) : /\ Ladder[i] < Viable => r[i] > 0
                                           /\ Ladder[i] = Viable => r[i] >= 0

\* A break-even: none within the ladder, or a fraction.
Point(p) == p = Never \/ (p[1] \in Int /\ p[2] \in Int /\ p[2] > 0)

\* A break-even at or past the viable rate says that every cheaper rung still pays.
LEMMA BreakEvenTells ==
  ASSUME NEW r \in [1 .. Len(Ladder) -> Int], r[1] > 0
  PROVE  /\ Point(BreakEven(r))
         /\ AtLeast(BreakEven(r), <<Viable, 1>>) <=> Survives(r)
<1> DEFINE n == Len(Ladder)
           X == {i \in 1 .. n - 1 : r[i] > 0 /\ r[i + 1] <= 0}
<1>1. n \in Nat /\ Ladder \in [1 .. n -> Nat] /\ Viable \in Nat
  BY LadderAscends, ScreeningAssumption
<1>2. PICK k \in 2 .. n : Ladder[k] = Viable
  BY ScreeningAssumption
<1>3. \A i \in 1 .. n : (Ladder[i] < Viable <=> i < k) /\ (Ladder[i] = Viable <=> i = k)
  <2> TAKE i \in 1 .. n
  <2>1. k \in 1 .. n /\ Ladder[i] \in Nat /\ Ladder[k] \in Nat
    BY <1>1
  <2>2. (i < k => Ladder[i] < Ladder[k]) /\ (k < i => Ladder[k] < Ladder[i])
    BY <2>1, LadderAscends
  <2>3. i < k \/ i = k \/ k < i
    BY <2>1
  <2>4. QED
    BY <1>2, <2>1, <2>2, <2>3
<1>4. Survives(r) <=> (\A i \in 1 .. k - 1 : r[i] > 0) /\ r[k] >= 0
  BY <1>1, <1>3 DEF Survives
<1>5. CASE X = {}
  <2>1. BreakEven(r) = Never
    <3> HIDE DEF Never
    <3>1. QED
      BY <1>5 DEF BreakEven
  <2>2. ASSUME NEW i \in 1 .. k PROVE r[i] > 0
    <3>1. i \in 1 .. n /\ \A j \in 1 .. i - 1 : ~(r[j] > 0 /\ r[j + 1] <= 0)
      BY <1>1, <1>5
    <3>2. QED
      BY <1>1, <3>1, PaysUpTo
  <2>3. Survives(r)
    <3>1. \A i \in 1 .. k - 1 : r[i] > 0
      BY <2>2
    <3>2. r[k] > 0 /\ r[k] \in Int
      BY <1>1, <2>2
    <3>3. QED
      BY <1>4, <3>1, <3>2
  <2>4. QED
    BY <1>1, <2>1, <2>3 DEF Point, AtLeast, Never
<1>6. CASE X # {}
  <2> DEFINE i == Min(X)
  <2>1. i \in X /\ \A j \in X : i =< j
    <3>1. IsFiniteSet(1 .. n - 1)
      BY <1>1, FS_Interval
    <3>2. X \in SUBSET (1 .. n - 1) /\ X \subseteq Int
      OBVIOUS
    <3> HIDE DEF X
    <3>3. IsFiniteSet(X)
      BY <3>1, <3>2, FS_Subset
    <3>4. QED
      BY <1>6, <3>2, <3>3, MaxExists DEF Min
  <2> DEFINE b == <<Ladder[i] * (r[i] - r[i + 1]) + (Ladder[i + 1] - Ladder[i]) * r[i],
                    r[i] - r[i + 1]>>
  <2>2. BreakEven(r) = b
    <3>1. ~(r[1] <= 0)
      BY <1>1, <1>2
    <3>2. QED
      BY <1>6, <3>1 DEF BreakEven
  <2> HIDE DEF i
  <2>3. i \in 1 .. n - 1 /\ r[i] > 0 /\ r[i + 1] <= 0 /\ i \in 1 .. n /\ i + 1 \in 1 .. n
    BY <1>1, <2>1
  <2>4. /\ Ladder[i] \in Int /\ Ladder[i + 1] \in Int /\ Ladder[i] < Ladder[i + 1]
        /\ r[i] \in Int /\ r[i + 1] \in Int
    BY <1>1, <2>3, LadderAscends
  <2>5. ASSUME NEW j \in 1 .. i PROVE r[j] > 0
    <3>1. j \in 1 .. n /\ \A h \in 1 .. j - 1 : h \in 1 .. n - 1 /\ ~(i =< h)
      BY <1>1, <2>3
    <3>2. \A h \in 1 .. j - 1 : ~(r[h] > 0 /\ r[h + 1] <= 0)
      BY <2>1, <3>1
    <3>3. QED
      BY <1>1, <3>1, <3>2, PaysUpTo
  <2>6. /\ b[1] = Ladder[i] * (r[i] - r[i + 1]) + (Ladder[i + 1] - Ladder[i]) * r[i]
        /\ b[2] = r[i] - r[i + 1]
        /\ b[1] \in Int /\ b[2] \in Int /\ b[2] > 0
    BY <2>3, <2>4
  <2> HIDE DEF b
  <2>15. /\ Viable <= Ladder[i] => b[1] >= Viable * b[2]
         /\ Viable = Ladder[i + 1] => (b[1] >= Viable * b[2] <=> r[i + 1] >= 0)
         /\ Viable > Ladder[i + 1] => ~(b[1] >= Viable * b[2])
    <3>1. Viable \in Int
      BY <1>1
    <3> DEFINE l == Ladder[i]
               m == Ladder[i + 1]
               x == r[i]
               y == r[i + 1]
               c == b[1]
    <3>2. l \in Int /\ m \in Int /\ x \in Int /\ y \in Int /\ l < m /\ x > 0 /\ y <= 0
      BY <2>3, <2>4
    <3> DEFINE d == b[2]
    <3>3. c \in Int /\ d \in Int /\ d = x - y /\ c = l * d + (m - l) * x
      BY <2>6
    <3> HIDE DEF l, m, x, y, c, d
    <3>4. /\ Viable <= l => c >= Viable * d
          /\ Viable = m => (c >= Viable * d <=> y >= 0)
          /\ Viable > m => ~(c >= Viable * d)
      BY <3>1, <3>2, <3>3, Crossing
    <3>5. QED
      BY <3>4 DEF l, m, x, y, c, d
  <2>7. AtLeast(b, <<Viable, 1>>) <=> b[1] >= Viable * b[2]
    <3>1. b[1] * 1 = b[1]
      BY <2>6
    <3>2. QED
      BY <3>1 DEF AtLeast
  <2>8. ASSUME k <= i PROVE AtLeast(b, <<Viable, 1>>) <=> Survives(r)
    <3>1. Viable <= Ladder[i]
      BY <1>1, <1>2, <2>3, <2>4, <2>8, LadderAscends
    <3>2. b[1] >= Viable * b[2]
      BY <2>15, <3>1
    <3>3. Survives(r)
      <4>1. k \in 1 .. i /\ \A j \in 1 .. k - 1 : j \in 1 .. i
        BY <1>1, <2>3, <2>8
      <4>2. r[k] \in Int
        BY <1>1
      <4>3. QED
        BY <1>4, <2>5, <4>1, <4>2
    <3>4. QED
      BY <2>7, <3>2, <3>3
  <2>9. ASSUME k = i + 1 PROVE AtLeast(b, <<Viable, 1>>) <=> Survives(r)
    <3>1. b[1] >= Viable * b[2] <=> r[k] >= 0
      BY <1>2, <2>9, <2>15
    <3>2. \A j \in 1 .. k - 1 : r[j] > 0
      BY <1>1, <2>3, <2>5, <2>9
    <3>3. QED
      BY <1>4, <2>7, <3>1, <3>2
  <2>10. ASSUME i + 1 < k PROVE AtLeast(b, <<Viable, 1>>) <=> Survives(r)
    <3>1. Viable > Ladder[i + 1]
      BY <1>1, <1>2, <2>3, <2>10, LadderAscends
    <3>2. ~(b[1] >= Viable * b[2])
      BY <2>15, <3>1
    <3>3. i + 1 \in 1 .. k - 1 /\ ~(r[i + 1] > 0)
      BY <1>1, <2>3, <2>4, <2>10
    <3>4. ~Survives(r)
      BY <1>4, <3>3
    <3>5. QED
      BY <2>7, <3>2, <3>4
  <2>11. k <= i \/ k = i + 1 \/ i + 1 < k
    BY <1>1, <2>3
  <2>12. AtLeast(b, <<Viable, 1>>) <=> Survives(r)
    BY <2>8, <2>9, <2>10, <2>11
  <2>13. Point(b)
    BY <2>6 DEF Point
  <2>14. QED
    BY <2>2, <2>12, <2>13
<1>7. QED
  BY <1>5, <1>6

\* Break-evens compare as fractions do, a ladder that still pays at its end above them all.
LEMMA AtLeastOrders ==
  /\ \A x, y : Point(x) /\ Point(y) => AtLeast(x, y) \/ AtLeast(y, x)
  /\ \A x, y, z : Point(x) /\ Point(y) /\ Point(z) /\ AtLeast(x, y) /\ AtLeast(y, z) => AtLeast(x, z)
<1>1. \A x : Point(x) => /\ x[1] \in Int /\ x[2] \in Int /\ x[2] >= 0
                         /\ x[2] = 0 => x[1] = 1
  BY DEF Point, Never
<1>2. ASSUME NEW x, NEW y, Point(x), Point(y) PROVE AtLeast(x, y) \/ AtLeast(y, x)
  <2>1. x[1] * y[2] \in Int /\ y[1] * x[2] \in Int
    BY <1>1, <1>2
  <2>2. QED
    BY <2>1 DEF AtLeast
<1>3. ASSUME NEW x, NEW y, NEW z, Point(x), Point(y), Point(z), AtLeast(x, y), AtLeast(y, z)
      PROVE  AtLeast(x, z)
  <2> DEFINE a == x[1]
             b == x[2]
             c == y[1]
             d == y[2]
             e == z[1]
             f == z[2]
  <2>1. /\ a \in Int /\ b \in Int /\ c \in Int /\ d \in Int /\ e \in Int /\ f \in Int
        /\ b >= 0 /\ d >= 0 /\ f >= 0
        /\ (b = 0 => a = 1) /\ (d = 0 => c = 1) /\ (f = 0 => e = 1)
    BY <1>1, <1>3
  <2>2. a * d >= c * b /\ c * f >= e * d
    BY <1>3 DEF AtLeast
  <2> HIDE DEF a, b, c, d, e, f
  <2>3. a * f >= e * b
    <3>1. CASE d = 0
      <4>1. b <= 0
        BY <2>1, <2>2, <3>1
      <4>2. b = 0 /\ a = 1
        BY <2>1, <4>1
      <4>3. a * f = f /\ e * b = 0
        BY <2>1, <4>2
      <4>4. QED
        BY <2>1, <4>3
    <3>2. CASE d > 0
      <4>1. (a * d) * f >= (c * b) * f /\ (c * f) * b >= (e * d) * b
        BY <2>1, <2>2
      <4>2. (a * d) * f = (a * f) * d /\ (c * b) * f = (c * f) * b /\ (e * d) * b = (e * b) * d
        BY <2>1
      <4> DEFINE p == a * f
                 q == e * b
                 r == (c * f) * b
      <4>3. p \in Int /\ q \in Int /\ r \in Int
        BY <2>1
      <4>4. p * d >= r /\ r >= q * d
        BY <4>1, <4>2
      <4> HIDE DEF p, q, r
      <4>5. p * d >= q * d
        <5>1. p * d \in Int /\ q * d \in Int
          BY <2>1, <4>3
        <5>2. QED
          BY <4>3, <4>4, <5>1
      <4>6. p >= q
        BY <2>1, <3>2, <4>3, <4>5
      <4>7. QED
        BY <4>6 DEF p, q
    <3>3. QED
      BY <2>1, <3>1, <3>2
  <2>4. QED
    BY <2>3 DEF AtLeast, a, b, c, d, e, f
<1>4. QED
  BY <1>2, <1>3

\* A candidate has a result at every rung.
LEMMA ResultsAreInts ==
  ASSUME NEW d \in Data, NEW c \in Candidates, NEW name
  PROVE  Results(d[c], name) \in [1 .. Len(Ladder) -> Int]
<1> SUFFICES ASSUME NEW i \in 1 .. Len(Ladder)
             PROVE  Pool(LadderMetrics(d[c], name, Ladder[i])).closed \in Int
  BY DEF Results
<1> DEFINE part == LadderMetrics(d[c], name, Ladder[i])
<1>1. Ladder[i] \in Nat
  BY LadderAscends
<1>2. DOMAIN part = Symbols /\ IsFiniteSet(Symbols)
  BY ScreeningAssumption DEF LadderMetrics
<1>3. \A s \in Symbols : Figures(part[s])
  <2> TAKE s \in Symbols
  <2>1. part[s] = SliceMetrics(d[c][s], Splits[name], Ladder[i])
    BY DEF LadderMetrics
  <2> HIDE DEF part
  <2>2. QED
    BY <1>1, <2>1, DataAreHistories, SliceFigures
<1> HIDE DEF part
<1>4. Figures(Pool(part))
  BY <1>2, <1>3, PoolFigures
<1>5. QED
  BY <1>4 DEF Figures, part

\* The verdict is to proceed exactly when some candidate survives the ladder.
LEMMA VerdictTells ==
  ASSUME NEW d \in Data, NEW name
  PROVE  Verdict(d, name) = "proceed" <=> \E c \in Candidates : Survives(Results(d[c], name))
<1> DEFINE paying == {c \in Candidates : Results(d[c], name)[1] > 0}
           points == BreakEvens(d, name)
           v == <<Viable, 1>>
<1>1. Len(Ladder) \in Nat /\ 1 \in 1 .. Len(Ladder) /\ Ladder[1] < Viable /\ Viable \in Nat
  <2>1. PICK k \in 2 .. Len(Ladder) : Ladder[k] = Viable
    BY ScreeningAssumption
  <2>2. 1 \in 1 .. Len(Ladder) /\ k \in 1 .. Len(Ladder) /\ 1 < k
    BY LadderAscends
  <2>3. QED
    BY <2>1, <2>2, LadderAscends, ScreeningAssumption
<1>2. \A c \in Candidates : Survives(Results(d[c], name)) => c \in paying
  BY <1>1 DEF Survives
<1>3. \A c \in paying : /\ Point(BreakEven(Results(d[c], name)))
                        /\ AtLeast(BreakEven(Results(d[c], name)), v)
                             <=> Survives(Results(d[c], name))
  BY ResultsAreInts, BreakEvenTells
<1>4. points = {BreakEven(Results(d[c], name)) : c \in paying}
  BY DEF BreakEvens
<1>5. \A x \in points : Point(x)
  <2> HIDE DEF points, paying
  <2>1. QED
    BY <1>3, <1>4
<1>6. Point(v) /\ v[1] = Viable /\ v[2] = 1
  BY <1>1 DEF Point
<1>7. IsFiniteSet(points)
  <2> DEFINE f == [c \in paying |-> BreakEven(Results(d[c], name))]
  <2>1. IsFiniteSet(paying)
    BY ScreeningAssumption, FS_Subset
  <2>2. points = {f[c] : c \in paying}
    BY <1>4
  <2> HIDE DEF f, points, paying
  <2>3. QED
    BY <2>1, <2>2, ImageIsFinite
<1> HIDE DEF points, paying, v
<1>8. CASE points = {}
  <2>1. Verdict(d, name) = "no edge"
    BY <1>8 DEF Verdict, points
  <2>2. paying = {}
    BY <1>4, <1>8
  <2>3. QED
    BY <1>2, <2>1, <2>2
<1>9. CASE points # {}
  <2> DEFINE best == BestBreakEven(points)
             R == {p \in points \X points : AtLeast(p[1], p[2])}
  <2>1. \A x, y \in points : <<x, y>> \in R <=> AtLeast(x, y)
    OBVIOUS
  <2> HIDE DEF R
  <2>2. \A x, y \in points : <<x, y>> \in R \/ <<y, x>> \in R
    BY <1>5, <2>1, AtLeastOrders
  <2>3. \A x, y, z \in points : <<x, y>> \in R /\ <<y, z>> \in R => <<x, z>> \in R
    BY <1>5, <2>1, AtLeastOrders
  <2>4. \E x \in points : \A y \in points : <<x, y>> \in R
    BY <1>7, <1>9, <2>2, <2>3, GreatestExists
  <2>5. best \in points /\ \A y \in points : AtLeast(best, y)
    BY <2>1, <2>4, Zenon DEF BestBreakEven
  <2> HIDE DEF best
  <2>6. Verdict(d, name) = IF AtLeast(best, v) THEN "proceed" ELSE "below costs"
    BY <1>9 DEF Verdict, best, points, v
  <2>7. AtLeast(best, v) <=> \E c \in paying : Survives(Results(d[c], name))
    <3>1. ASSUME AtLeast(best, v) PROVE \E c \in paying : Survives(Results(d[c], name))
      <4>1. PICK c \in paying : best = BreakEven(Results(d[c], name))
        BY <1>4, <2>5
      <4>2. QED
        BY <1>3, <3>1, <4>1
    <3>2. ASSUME NEW c \in paying, Survives(Results(d[c], name)) PROVE AtLeast(best, v)
      <4>1. BreakEven(Results(d[c], name)) \in points
        BY <1>4
      <4>2. AtLeast(BreakEven(Results(d[c], name)), v)
        BY <1>3, <3>2
      <4>3. QED
        BY <1>5, <1>6, <2>5, <4>1, <4>2, AtLeastOrders
    <3>3. QED
      BY <3>1, <3>2
  <2>8. paying \subseteq Candidates
    BY DEF paying
  <2>9. QED
    BY <1>2, <2>6, <2>7, <2>8
<1>10. QED
  BY <1>8, <1>9

(***************************************************************************)
(* The ranking: it reads the validation and the folds alone, and it can    *)
(* always be done, because the order of the candidates is a strict one.    *)
(***************************************************************************)

\* The partitions that the ranking reads.
Ranked == {"validation"} \cup FoldNames

\* Two outcomes that agree on what the ranking reads.
Same(o, p) == /\ o.perSymbol = p.perSymbol
              /\ \A name \in Ranked : o.base[name] = p.base[name]

\* Outcomes that agree on those are rejected, ordered and ranked alike.
LEMMA RejectedAgrees ==
  ASSUME NEW o, NEW p, Same(o, p)
  PROVE  /\ PositiveFolds(o) = PositiveFolds(p)
         /\ Rejected(o) <=> Rejected(p)
<1>1. /\ o.perSymbol = p.perSymbol /\ o.base.validation = p.base.validation
      /\ \A f \in FoldNames : o.base[f] = p.base[f]
  BY DEF Same, Ranked
<1>2. {f \in FoldNames : Positive(o.base[f])} = {f \in FoldNames : Positive(p.base[f])}
  BY <1>1
<1>3. PositiveFolds(o) = PositiveFolds(p)
  BY <1>2 DEF PositiveFolds
<1>4. PositiveSymbols(o) = PositiveSymbols(p) /\ (Concentrated(o) <=> Concentrated(p))
  BY <1>1 DEF PositiveSymbols, Concentrated
<1>5. QED
  BY <1>1, <1>3, <1>4 DEF Rejected

LEMMA BeforeAgrees ==
  ASSUME NEW o, NEW p, NEW a, NEW b, Same(o[a], p[a]), Same(o[b], p[b])
  PROVE  Before(o, a, b) <=> Before(p, a, b)
<1>1. o[a].base.validation = p[a].base.validation /\ o[b].base.validation = p[b].base.validation
  BY DEF Same, Ranked
<1>2. /\ PositiveFolds(o[a]) = PositiveFolds(p[a])
      /\ PositiveFolds(o[b]) = PositiveFolds(p[b])
  BY RejectedAgrees
<1>3. QED
  BY <1>1, <1>2, Zenon DEF Before

LEMMA WinnersAgree ==
  ASSUME NEW o, NEW p, DOMAIN o = DOMAIN p, \A c \in DOMAIN o : Same(o[c], p[c])
  PROVE  Winners(o) = Winners(p)
<1> DEFINE q == {c \in DOMAIN o : ~Rejected(o[c])}
           places == 1 .. Cardinality(q)
<1>1. q = {c \in DOMAIN p : ~Rejected(p[c])}
  BY RejectedAgrees
<1>2. Winners(o) = CHOOSE w \in [places -> q] :
                     \A i, j \in places : i < j => Before(o, w[i], w[j])
  BY DEF Winners
<1>3. Winners(p) = CHOOSE w \in [places -> q] :
                     \A i, j \in places : i < j => Before(p, w[i], w[j])
  BY <1>1 DEF Winners
<1>4. ASSUME NEW w \in [places -> q]
      PROVE  (\A i, j \in places : i < j => Before(o, w[i], w[j]))
               <=> (\A i, j \in places : i < j => Before(p, w[i], w[j]))
  <2>1. ASSUME NEW i \in places, NEW j \in places
        PROVE  Before(o, w[i], w[j]) <=> Before(p, w[i], w[j])
    <3>1. w[i] \in DOMAIN o /\ w[j] \in DOMAIN o
      OBVIOUS
    <3>2. QED
      BY <3>1, BeforeAgrees
  <2>2. QED
    BY <2>1
<1> HIDE DEF q, places
<1>5. QED
  BY <1>2, <1>3, <1>4

\* Expectancies are compared as fractions with denominators that are not zero.
LEMMA ExceedsOrders ==
  ASSUME NEW m, Figures(m), NEW o, Figures(o), NEW p, Figures(p)
  PROVE  /\ ~(Exceeds(m, o) /\ Exceeds(o, m))
         /\ Exceeds(m, o) /\ ~Exceeds(p, o) => Exceeds(m, p)
         /\ ~Exceeds(o, m) /\ Exceeds(o, p) => Exceeds(m, p)
         /\ ~Exceeds(m, o) /\ ~Exceeds(o, p) => ~Exceeds(m, p)
<1> DEFINE a == m.closed
           b == o.closed
           c == p.closed
           x == Weight(m)
           y == Weight(o)
           z == Weight(p)
<1>1. /\ a \in Int /\ b \in Int /\ c \in Int
      /\ x \in Int /\ y \in Int /\ z \in Int /\ x > 0 /\ y > 0 /\ z > 0
  BY DEF Figures, Weight
<1>2. /\ Exceeds(m, o) <=> a * y > b * x
      /\ Exceeds(o, m) <=> b * x > a * y
      /\ Exceeds(p, o) <=> c * y > b * z
      /\ Exceeds(o, p) <=> b * z > c * y
      /\ Exceeds(m, p) <=> a * z > c * x
  BY DEF Exceeds
<1> HIDE DEF a, b, c, x, y, z
<1> DEFINE ay == a * y
           bx == b * x
           cy == c * y
           bz == b * z
           az == a * z
           cx == c * x
<1>3. /\ ay \in Int /\ bx \in Int /\ cy \in Int /\ bz \in Int /\ az \in Int /\ cx \in Int
      /\ ay * z = az * y /\ cy * x = cx * y /\ bx * z = bz * x
  BY <1>1
<1> HIDE DEF ay, bx, cy, bz, az, cx
<1>4. /\ ay > bx => ay * z > bx * z
      /\ ay <= bx => ay * z <= bx * z
      /\ bz > cy => bz * x > cy * x
      /\ bz <= cy => bz * x <= cy * x
      /\ ay >= bx => ay * z >= bx * z
      /\ bz >= cy => bz * x >= cy * x
  BY <1>1, <1>3
<1>5. /\ az * y > cx * y => az > cx
      /\ az * y <= cx * y => az <= cx
  BY <1>1, <1>3
<1>6. /\ ay * z \in Int /\ bx * z \in Int /\ bz * x \in Int /\ cy * x \in Int
      /\ az * y \in Int /\ cx * y \in Int
  BY <1>1, <1>3
<1>7. /\ ay > bx /\ ~(cy > bz) => az > cx
      /\ ~(bx > ay) /\ bz > cy => az > cx
      /\ ~(ay > bx) /\ ~(bz > cy) => ~(az > cx)
  BY <1>3, <1>4, <1>5, <1>6
<1>8. QED
  BY <1>2, <1>3, <1>7 DEF ay, bx, cy, bz, az, cx

\* Candidates with figures are in a strict order.
LEMMA BeforeOrders ==
  ASSUME NEW o, DOMAIN o \subseteq Candidates,
         \A c \in DOMAIN o : Figures(o[c].base.validation)
  PROVE  /\ \A a, b \in DOMAIN o : a # b => Before(o, a, b) \/ Before(o, b, a)
         /\ \A a, b, c \in DOMAIN o : Before(o, a, b) /\ Before(o, b, c) => Before(o, a, c)
<1> DEFINE V(c) == o[c].base.validation
           F(c) == PositiveFolds(o[c])
           Tied(a, b) == ~Exceeds(V(a), V(b)) /\ ~Exceeds(V(b), V(a))
           Later(a, b) == \/ V(a).dd < V(b).dd
                          \/ V(a).dd = V(b).dd /\ F(a) > F(b)
                          \/ V(a).dd = V(b).dd /\ F(a) = F(b) /\ V(a).trades > V(b).trades
                          \/ /\ V(a).dd = V(b).dd /\ F(a) = F(b) /\ V(a).trades = V(b).trades
                             /\ Rank[a] < Rank[b]
<1>1. \A c \in DOMAIN o : /\ V(c).dd \in Int /\ V(c).trades \in Int /\ F(c) \in Int /\ Rank[c] \in Int
  <2> TAKE c \in DOMAIN o
  <2>1. IsFiniteSet(FoldNames)
    <3>1. IsFiniteSet({"fold1"})
      BY FS_Singleton
    <3>2. IsFiniteSet({"fold1"} \cup {"fold2"})
      BY <3>1, FS_AddElement
    <3>3. IsFiniteSet(({"fold1"} \cup {"fold2"}) \cup {"fold3"})
      BY <3>2, FS_AddElement
    <3>4. ({"fold1"} \cup {"fold2"}) \cup {"fold3"} = FoldNames
      BY DEF FoldNames
    <3>5. QED
      BY <3>3, <3>4
  <2>2. F(c) \in Nat
    <3>1. IsFiniteSet({f \in FoldNames : Positive(o[c].base[f])})
      BY <2>1, FS_Subset
    <3>2. QED
      BY <3>1, FS_CardinalityType DEF PositiveFolds
  <2>3. Rank[c] \in Int
    BY ScreeningAssumption
  <2>4. V(c).dd \in Int /\ V(c).trades \in Int
    BY DEF Figures
  <2>5. QED
    BY <2>2, <2>3, <2>4
<1>2. \A a, b : Before(o, a, b) <=> Exceeds(V(a), V(b)) \/ (Tied(a, b) /\ Later(a, b))
  BY DEF Before
<1>3. \A a, b \in DOMAIN o : a # b => Rank[a] # Rank[b]
  BY ScreeningAssumption DEF IsInjective
<1>4. \A a \in DOMAIN o : Figures(V(a))
  OBVIOUS
<1> HIDE DEF V, F
<1>5. \A a, b \in DOMAIN o : a # b => Later(a, b) \/ Later(b, a)
  BY <1>1, <1>3
<1>6. \A a, b, c \in DOMAIN o : Later(a, b) /\ Later(b, c) => Later(a, c)
  BY <1>1
<1> HIDE DEF Later
<1>7. ASSUME NEW a \in DOMAIN o, NEW b \in DOMAIN o, a # b
      PROVE  Before(o, a, b) \/ Before(o, b, a)
  BY <1>2, <1>5, <1>7
<1>8. ASSUME NEW a \in DOMAIN o, NEW b \in DOMAIN o, NEW c \in DOMAIN o,
             Before(o, a, b), Before(o, b, c)
      PROVE  Before(o, a, c)
  <2>1. Figures(V(a)) /\ Figures(V(b)) /\ Figures(V(c))
    BY <1>4
  <2>2. CASE Exceeds(V(a), V(b))
    <3>1. ~Exceeds(V(c), V(b))
      <4>1. Exceeds(V(b), V(c)) \/ ~Exceeds(V(c), V(b))
        BY <1>2, <1>8
      <4>2. QED
        BY <2>1, <4>1, ExceedsOrders
    <3>2. Exceeds(V(a), V(c))
      BY <2>1, <2>2, <3>1, ExceedsOrders
    <3>3. QED
      BY <1>2, <3>2
  <2>3. CASE Tied(a, b) /\ Later(a, b) /\ Exceeds(V(b), V(c))
    <3>1. Exceeds(V(a), V(c))
      BY <2>1, <2>3, ExceedsOrders
    <3>2. QED
      BY <1>2, <3>1
  <2>4. CASE Tied(a, b) /\ Later(a, b) /\ Tied(b, c) /\ Later(b, c)
    <3>1. ~Exceeds(V(a), V(c)) /\ ~Exceeds(V(c), V(a))
      BY <2>1, <2>4, ExceedsOrders
    <3>2. Later(a, c)
      BY <1>6, <2>4
    <3>3. QED
      BY <1>2, <3>1, <3>2
  <2>5. QED
    BY <1>2, <1>8, <2>2, <2>3, <2>4
<1>9. QED
  BY <1>7, <1>8

\* The winners are the candidates that qualify, in that order.
LEMMA WinnersAreQualifiers ==
  ASSUME NEW o, DOMAIN o \subseteq Candidates,
         \A c \in DOMAIN o : Figures(o[c].base.validation)
  PROVE  LET q == {c \in DOMAIN o : ~Rejected(o[c])}
         IN /\ Cardinality(q) \in Nat /\ Winners(o) \in [1 .. Cardinality(q) -> q]
            /\ \A i, j \in 1 .. Cardinality(q) : i < j => Before(o, Winners(o)[i], Winners(o)[j])
<1> DEFINE q == {c \in DOMAIN o : ~Rejected(o[c])}
           R == {p \in q \X q : Before(o, p[1], p[2])}
<1>1. IsFiniteSet(q) /\ q \subseteq DOMAIN o
  BY ScreeningAssumption, FS_Subset
<1>2. \A a, b \in q : <<a, b>> \in R <=> Before(o, a, b)
  OBVIOUS
<1>3. Winners(o) = CHOOSE w \in [1 .. Cardinality(q) -> q] :
                     \A i, j \in 1 .. Cardinality(q) : i < j => Before(o, w[i], w[j])
  BY DEF Winners
<1> HIDE DEF q, R
<1>4. \A a, b \in q : a # b => <<a, b>> \in R \/ <<b, a>> \in R
  BY <1>1, <1>2, BeforeOrders
<1>5. \A a, b, c \in q : <<a, b>> \in R /\ <<b, c>> \in R => <<a, c>> \in R
  BY <1>1, <1>2, BeforeOrders
<1>6. PICK w \in [1 .. Cardinality(q) -> q] :
        \A i, j \in 1 .. Cardinality(q) : i < j => <<w[i], w[j]>> \in R
  BY <1>1, <1>4, <1>5, SortExists
<1>7. \A i, j \in 1 .. Cardinality(q) : i < j => Before(o, w[i], w[j])
  BY <1>2, <1>6
<1>8. Cardinality(q) \in Nat
  BY <1>1, FS_CardinalityType
<1>9. /\ Winners(o) \in [1 .. Cardinality(q) -> q]
      /\ \A i, j \in 1 .. Cardinality(q) : i < j => Before(o, Winners(o)[i], Winners(o)[j])
  BY <1>3, <1>7, Zenon
<1>10. QED
  BY <1>8, <1>9 DEF q

(***************************************************************************)
(* Another holdout: the trades of a history are renamed, those that end in *)
(* the holdout with another result, and what is scored before is the same. *)
(***************************************************************************)

\* The trades of a history as w renames them, and those entered in a period.
Image(w, V) == {w[t] : t \in V}

Early(h, from, to) == {t \in h : t.at >= from /\ t.at < to}

\* Trades renamed one for one, with the same exits and the same results.
LEMMA MetricsRenamed ==
  ASSUME NEW A, IsFiniteSet(A), NEW w, NEW B, B = Image(w, A),
         \A t, o \in A : w[t] = w[o] => t = o,
         NEW f, NEW g, \A t \in A : f[t] \in Int /\ f[t] = g[w[t]] /\ w[t].exit = t.exit,
         NEW open
  PROVE  Metrics(A, f, open) = Metrics(B, g, open)
<1>0. B = {w[t] : t \in A}
  BY DEF Image
<1>1. ASSUME NEW V \in SUBSET A
      PROVE  SumFunctionOnSet(f, V) = SumFunctionOnSet(g, {w[t] : t \in V})
  <2>1. IsFiniteSet(V)
    BY <1>1, FS_Subset
  <2>2. /\ \A t \in V : f[t] \in Int /\ f[t] = g[w[t]]
        /\ \A t, o \in V : w[t] = w[o] => t = o
    BY <1>1
  <2>3. QED
    BY ONLY <2>1, <2>2, SumRenamed
<1>2. Cardinality(A) = Cardinality(B)
  <2> DEFINE v == [t \in A |-> w[t]]
  <2>1. v \in Bijection(A, B)
    BY <1>0 DEF Bijection, Injection, Surjection, IsInjective
  <2> HIDE DEF v
  <2>2. QED
    BY <2>1, FS_Bijection DEF ExistsBijection
<1>3. SumFunctionOnSet(f, {t \in A : f[t] > 0}) = SumFunctionOnSet(g, {t \in B : g[t] > 0})
  <2>1. {t \in B : g[t] > 0} = {w[t] : t \in {o \in A : f[o] > 0}}
    BY <1>0
  <2>2. QED
    BY <1>1, <2>1
<1>4. SumFunctionOnSet(f, {t \in A : f[t] < 0}) = SumFunctionOnSet(g, {t \in B : g[t] < 0})
  <2>1. {t \in B : g[t] < 0} = {w[t] : t \in {o \in A : f[o] < 0}}
    BY <1>0
  <2>2. QED
    BY <1>1, <2>1
<1>5. SumFunctionOnSet(f, A) = SumFunctionOnSet(g, B)
  BY <1>0, <1>1
<1>6. Drawdown(A, f, open) = Drawdown(B, g, open)
  <2>1. \A j : SumFunctionOnSet(f, {t \in A : t.exit <= j})
                 = SumFunctionOnSet(g, {t \in B : t.exit <= j})
    <3> TAKE j
    <3>1. {t \in B : t.exit <= j} = {w[t] : t \in {o \in A : o.exit <= j}}
      BY <1>0
    <3>2. QED
      BY <1>1, <3>1
  <2>2. {t.exit : t \in A} = {t.exit : t \in B}
    BY <1>0
  <2> DEFINE a(j) == SumFunctionOnSet(f, {t \in A : t.exit <= j})
             b(j) == SumFunctionOnSet(g, {t \in B : t.exit <= j})
             ends == {t.exit : t \in A} \cup {-1, N}
             pairs == {q \in ends \X ends : q[1] <= q[2]}
             at(j) == a(j) + IF j = N THEN open ELSE 0
             bt(j) == b(j) + IF j = N THEN open ELSE 0
  <2>3. Drawdown(A, f, open) = Max({at(p[1]) - at(p[2]) : p \in pairs})
    BY DEF Drawdown
  <2>4. Drawdown(B, g, open) = Max({bt(p[1]) - bt(p[2]) : p \in pairs})
    BY <2>2 DEF Drawdown
  <2>5. \A j : at(j) = bt(j)
    BY <2>1
  <2>6. {at(p[1]) - at(p[2]) : p \in pairs} = {bt(p[1]) - bt(p[2]) : p \in pairs}
    <3> HIDE DEF at, bt, pairs
    <3>1. QED
      BY <2>5
  <2> HIDE DEF at, bt, pairs
  <2>7. QED
    BY <2>3, <2>4, <2>6
<1>7. QED
  BY <1>2, <1>3, <1>4, <1>5, <1>6 DEF Metrics

\* What a trade becomes.
Renamed(h, gross) ==
  [t \in h |-> IF t.exit >= HoldoutStart THEN [t EXCEPT !.gross = gross] ELSE t]

LEMMA HoldoutIsInt == HoldoutStart \in Int
<1>1. N \in Nat
  BY ScreeningAssumption
<1>2. QED
  BY ONLY <1>1 DEF HoldoutStart, Pct

\* Another result in the holdout: the trades remain distinct, and enter and leave when they did.
LEMMA RenamedKeeps ==
  ASSUME NEW h, History(h), NEW gross
  PROVE  LET w == Renamed(h, gross)
         IN /\ \A t \in h : /\ w[t].at = t.at /\ w[t].exit = t.exit /\ w[t].mark = t.mark
                            /\ w[t].target = t.target /\ w[t].limit = t.limit /\ w[t].short = t.short
                            /\ t.exit < HoldoutStart => w[t] = t
            /\ \A t, o \in h : w[t] = w[o] => t = o
<1> DEFINE w == Renamed(h, gross)
<1>1. ASSUME NEW t \in h
      PROVE  /\ w[t].at = t.at /\ w[t].exit = t.exit /\ w[t].mark = t.mark
             /\ w[t].target = t.target /\ w[t].limit = t.limit /\ w[t].short = t.short
             /\ t.exit < HoldoutStart => w[t] = t
  <2>1. t \in Trades
    BY DEF History
  <2>2. t.exit \in Int /\ w[t] = IF t.exit >= HoldoutStart THEN [t EXCEPT !.gross = gross] ELSE t
    BY <2>1 DEF Renamed, Trades
  <2>3. CASE t.exit >= HoldoutStart
    <3>1. w[t] = [t EXCEPT !.gross = gross]
      BY <2>2, <2>3
    <3>2. QED
      BY <2>1, <2>2, <2>3, <3>1, HoldoutIsInt DEF Trades
  <2>4. CASE ~(t.exit >= HoldoutStart)
    BY <2>2, <2>4
  <2>5. QED
    BY <2>3, <2>4
<1>2. \A t, o \in h : w[t] = w[o] => t = o
  <2> TAKE t, o \in h
  <2>1. w[t].exit = t.exit /\ w[o].exit = o.exit
    BY <1>1
  <2>2. t # o => t.exit # o.exit
    BY DEF History
  <2> HIDE DEF w
  <2>3. QED
    BY <2>1, <2>2
<1> HIDE DEF w
<1>3. QED
  BY <1>1, <1>2 DEF w

\* What is entered before the holdout.
LEMMA EarlyRenamed ==
  ASSUME NEW h, History(h), NEW gross, NEW from \in Int, NEW to \in Int, to <= HoldoutStart
  PROVE  Early(Rewritten(h, gross), from, to) = Image(Renamed(h, gross), Early(h, from, to))
<1> DEFINE w == Renamed(h, gross)
           new == [at |-> HoldoutStart, exit |-> N - 1, gross |-> gross, mark |-> gross,
                   short |-> FALSE, target |-> gross > 0, limit |-> gross > 0]
           early == {o \in h : o.at < HoldoutStart}
<1>1. Rewritten(h, gross) = {w[t] : t \in early} \cup {new}
  BY DEF Rewritten, Renamed
<1>2. new.at = HoldoutStart /\ HoldoutStart \in Int
  BY HoldoutIsInt
<1>3. \A t \in h : w[t].at = t.at /\ t.at \in Int
  <2>1. \A t \in h : t.at \in Int
    BY DEF History, Trades
  <2>2. \A t \in h : w[t].at = t.at
    BY RenamedKeeps
  <2>3. QED
    BY <2>1, <2>2
<1> HIDE DEF w, new
<1>4. QED
  BY <1>1, <1>2, <1>3 DEF w, Early, Image

\* What the choices read ends where the holdout starts.
LEMMA SplitsBeforeHoldout ==
  ASSUME NEW name \in {"train", "validation"} \cup FoldNames
  PROVE  /\ Splits[name].start \in Int /\ Splits[name].end \in Int
         /\ Splits[name].end <= HoldoutStart
<1>1. N \in Int /\ N > 0
  BY ScreeningAssumption
<1>2. \A p \in {0, 40, 55, 60, 70, 80} : Pct(N, p) \in Int /\ Pct(N, p) <= HoldoutStart
  BY <1>1 DEF Pct, HoldoutStart
<1>3. /\ Splits.train = Slice(0, 60) /\ Splits.validation = Slice(60, 80)
      /\ Splits.fold1 = Slice(40, 55) /\ Splits.fold2 = Slice(55, 70)
      /\ Splits.fold3 = Slice(70, 80)
  BY DEF Splits
<1>4. PICK p \in {0, 40, 55, 60, 70, 80}, q \in {0, 40, 55, 60, 70, 80} :
        Splits[name] = Slice(p, q)
  BY <1>3 DEF FoldNames
<1>5. Splits[name].start = Pct(N, p) /\ Splits[name].end = Pct(N, q)
  BY <1>4 DEF Slice
<1>6. QED
  BY <1>2, <1>5

LEMMA EvalStartIsInt ==
  ASSUME NEW s, s.start \in Int
  PROVE  EvalStart(s) \in Int
  BY ScreeningAssumption DEF EvalStart

\* A slice that ends before the holdout has the same metrics with any result in the holdout.
LEMMA SliceBlind ==
  ASSUME NEW h, History(h), NEW gross, NEW s, s.start \in Int, s.end \in Int,
         s.end <= HoldoutStart, NEW rate \in Nat
  PROVE  SliceMetrics(Rewritten(h, gross), s, rate) = SliceMetrics(h, s, rate)
<1> DEFINE w == Renamed(h, gross)
           r == Rewritten(h, gross)
           left(k) == Entered(k, s) \ Closed(k, s)
           marks(k) == [t \in left(k) |-> NetOf(t, t.mark, rate, rate)]
           net(k) == [t \in Closed(k, s) |-> NetOf(t, t.gross, rate, rate)]
<1>1. \A t \in h : /\ w[t].exit = t.exit /\ w[t].mark = t.mark /\ t.exit \in Int
                   /\ w[t].short = t.short
                   /\ t.exit < HoldoutStart => w[t] = t
  <2>1. \A t \in h : t.exit \in Int
    BY DEF History, Trades
  <2>2. \A t \in h : /\ w[t].exit = t.exit /\ w[t].mark = t.mark /\ w[t].short = t.short
                     /\ t.exit < HoldoutStart => w[t] = t
    BY RenamedKeeps
  <2>3. QED
    BY <2>1, <2>2
<1>2. \A t, o \in h : w[t] = w[o] => t = o
  BY RenamedKeeps
<1> HIDE DEF w
<1>3. Entered(r, s) = Image(w, Entered(h, s))
  <2>1. /\ EvalStart(s) \in Int /\ s.end - 1 \in Int /\ s.end - 1 <= HoldoutStart
    BY EvalStartIsInt, HoldoutIsInt
  <2>2. Early(r, EvalStart(s), s.end - 1) = Image(w, Early(h, EvalStart(s), s.end - 1))
    BY <2>1, EarlyRenamed DEF w
  <2>3. \A t \in h : t.at \in Int
    BY DEF History, Trades
  <2>4. \A t \in r : t.at \in Int
    <3>1. \A t \in h : w[t].at = t.at
      BY RenamedKeeps DEF w
    <3>2. ASSUME NEW t \in r PROVE (\E o \in h : t = w[o]) \/ t.at = HoldoutStart
      BY DEF Rewritten, w, Renamed
    <3> HIDE DEF r
    <3>3. QED
      BY <2>3, <3>1, <3>2, HoldoutIsInt
  <2> HIDE DEF r
  <2>5. Entered(r, s) = Early(r, EvalStart(s), s.end - 1)
    BY <2>1, <2>4 DEF Entered, Early
  <2>6. Entered(h, s) = Early(h, EvalStart(s), s.end - 1)
    BY <2>1, <2>3 DEF Entered, Early
  <2>7. QED
    BY <2>2, <2>5, <2>6
<1> HIDE DEF r
<1>4. Entered(h, s) \subseteq h
  BY DEF Entered
<1>5. Closed(r, s) = Closed(h, s)
  <2>1. \A t \in Entered(h, s) : w[t].exit < s.end => w[t] = t
    BY <1>1, <1>4, HoldoutIsInt
  <2>2. \A t \in Entered(h, s) : w[t].exit = t.exit
    BY <1>1, <1>4
  <2>3. QED
    BY <1>3, <2>1, <2>2 DEF Closed, Image
<1>6. left(r) = Image(w, left(h))
  <2>1. \A t \in Entered(h, s) : w[t].exit = t.exit
    BY <1>1, <1>4
  <2>2. left(r) = {t \in Entered(r, s) : ~(t.exit < s.end)}
    BY DEF Closed
  <2>3. left(h) = {t \in Entered(h, s) : ~(t.exit < s.end)}
    BY DEF Closed
  <2> HIDE DEF left
  <2>4. QED
    BY <1>3, <2>1, <2>2, <2>3 DEF Image
<1>7. SumFunction(marks(r)) = SumFunction(marks(h))
  <2> DEFINE f == marks(h)
             g == marks(r)
             L == left(h)
  <2>1. left(h) \in SUBSET h /\ IsFiniteSet(left(h))
    BY <1>4, HistoryIsFinite, FS_Subset
  <2>2. \A t \in L : f[t] = NetOf(t, t.mark, rate, rate) /\ t.mark \in Int
    <3>1. \A t \in h : t.mark \in Int
      BY DEF History, Trades
    <3>2. QED
      BY <2>1, <3>1
  <2>3. \A t \in L : f[t] \in Int
    <3> HIDE DEF f, L
    <3>1. QED
      BY <2>2, NetIsInt
  <2>4. \A t \in L : g[w[t]] = NetOf(t, t.mark, rate, rate)
    <3>1. \A t \in left(h) : w[t] \in left(r) /\ w[t].mark = t.mark /\ w[t].short = t.short
      BY <1>1, <1>6, <2>1 DEF Image
    <3>2. \A t \in left(h) : NetOf(w[t], w[t].mark, rate, rate) = NetOf(t, t.mark, rate, rate)
      BY <3>1 DEF NetOf
    <3> HIDE DEF left
    <3>3. QED
      BY <3>1, <3>2
  <2>5. \A t, o \in L : w[t] = w[o] => t = o
    BY <1>2, <2>1
  <2>6. SumFunction(f) = SumFunctionOnSet(f, L) /\ SumFunction(g) = SumFunctionOnSet(g, {w[t] : t \in L})
    BY <1>6 DEF SumFunction, Image
  <2>7. IsFiniteSet(L)
    BY <2>1
  <2> HIDE DEF f, g, L
  <2>8. \A t \in L : f[t] \in Int /\ f[t] = g[w[t]]
    BY <2>2, <2>3, <2>4
  <2>9. SumFunctionOnSet(f, L) = SumFunctionOnSet(g, {w[t] : t \in L})
    BY ONLY <2>5, <2>7, <2>8, SumRenamed
  <2>10. SumFunction(f) = SumFunction(g)
    BY <2>6, <2>9
  <2>11. QED
    BY <2>10 DEF f, g
<1>8. SliceMetrics(r, s, rate) = Metrics(Closed(r, s), net(r), SumFunction(marks(r)))
  BY DEF SliceMetrics
<1>9. SliceMetrics(h, s, rate) = Metrics(Closed(h, s), net(h), SumFunction(marks(h)))
  BY DEF SliceMetrics
<1>10. net(r) = net(h)
  BY <1>5
<1> HIDE DEF net, marks
<1>11. SliceMetrics(r, s, rate) = SliceMetrics(h, s, rate)
  BY <1>5, <1>7, <1>8, <1>9, <1>10
<1>12. QED
  BY <1>11 DEF r

\* The outcome of a candidate while the holdout is not scored (outcomes_from_metrics with
\* include_holdout false).
Chosen(history, symbols) == Outcome(history, symbols, FALSE)

\* The choices of the sweep are made on outcomes of the partitions before the holdout.
LEMMA OutcomeBlind ==
  ASSUME NEW d \in Data, NEW c \in Candidates, NEW symbols, symbols \subseteq Symbols, NEW gross,
         NEW o, \A s \in Symbols : o[s] = Rewritten(d[c][s], gross)
  PROVE  Chosen(o, symbols) = Chosen(d[c], symbols)
<1>1. ASSUME NEW s \in symbols, NEW name \in {"train", "validation"} \cup FoldNames, NEW rate \in Nat
      PROVE  SliceMetrics(o[s], Splits[name], rate) = SliceMetrics(d[c][s], Splits[name], rate)
  <2>1. History(d[c][s]) /\ o[s] = Rewritten(d[c][s], gross)
    BY DataAreHistories
  <2>2. SliceMetrics(Rewritten(d[c][s], gross), Splits[name], rate)
          = SliceMetrics(d[c][s], Splits[name], rate)
    BY <2>1, SplitsBeforeHoldout, SliceBlind
  <2>3. QED
    BY <2>1, <2>2
<1>2. BaseRate \in Nat /\ StressRate \in Nat
  BY ScreeningAssumption
<1>3. Splits.validation = Splits["validation"]
  OBVIOUS
<1>4. [s \in symbols |-> SliceMetrics(o[s], Splits.validation, BaseRate)]
        = [s \in symbols |-> SliceMetrics(d[c][s], Splits.validation, BaseRate)]
  <2>1. QED
    BY <1>1, <1>2
<1>5. \A name \in {"train", "validation"} \cup FoldNames : \A rate \in Nat :
        Pool([s \in symbols |-> SliceMetrics(o[s], Splits[name], rate)])
          = Pool([s \in symbols |-> SliceMetrics(d[c][s], Splits[name], rate)])
  <2> TAKE name \in {"train", "validation"} \cup FoldNames
  <2> TAKE rate \in Nat
  <2>1. [s \in symbols |-> SliceMetrics(o[s], Splits[name], rate)]
          = [s \in symbols |-> SliceMetrics(d[c][s], Splits[name], rate)]
    BY <1>1
  <2>2. QED
    BY <2>1
<1>6. Scored(FALSE) = {"train", "validation"} \cup FoldNames
  BY DEF Scored
<1>7. [name \in Scored(FALSE) |-> Pool([s \in symbols |-> SliceMetrics(o[s], Splits[name], BaseRate)])]
        = [name \in Scored(FALSE) |-> Pool([s \in symbols |-> SliceMetrics(d[c][s], Splits[name], BaseRate)])]
  BY <1>2, <1>5, <1>6
<1>8. Pool([s \in symbols |-> SliceMetrics(o[s], Splits["validation"], StressRate)])
        = Pool([s \in symbols |-> SliceMetrics(d[c][s], Splits["validation"], StressRate)])
  BY <1>2, <1>5
<1>9. QED
  BY <1>4, <1>7, <1>8 DEF Chosen, Outcome

\* So has an execution model on such a slice.
LEMMA ExecBlind ==
  ASSUME NEW h, History(h), NEW gross, NEW s, s.start \in Int, s.end \in Int,
         s.end <= HoldoutStart, NEW m
  PROVE  ExecPart(Rewritten(h, gross), s, m) = ExecPart(h, s, m)
<1> DEFINE w == Renamed(h, gross)
           r == Rewritten(h, gross)
           signals(k) == {t \in k : t.at >= EvalStart(s) /\ t.at < s.end}
           filled(k) == {t \in signals(k) : t.at + 1 < s.end /\ (m = "limit" => t.limit)}
           net(t) == IF t.exit < s.end THEN NetOf(t, t.gross, EntryRate(m), ExitRate(m, t.target))
                                       ELSE NetOf(t, t.mark, EntryRate(m), ExitRate(m, FALSE))
           nets(k) == [t \in filled(k) |-> net(t)]
<1>1. \A t \in h : /\ w[t].at = t.at /\ w[t].exit = t.exit /\ w[t].mark = t.mark
                   /\ w[t].target = t.target /\ w[t].limit = t.limit /\ w[t].short = t.short
                   /\ t.exit < HoldoutStart => w[t] = t
  BY RenamedKeeps
<1>2. \A t, o \in h : w[t] = w[o] => t = o
  BY RenamedKeeps
<1>3. \A t \in h : t.exit \in Int /\ t.mark \in Int /\ t.gross \in Int
  BY DEF History, Trades
<1>4. signals(r) = Image(w, signals(h))
  <2>1. EvalStart(s) \in Int
    BY EvalStartIsInt
  <2>2. Early(r, EvalStart(s), s.end) = Image(w, Early(h, EvalStart(s), s.end))
    BY <2>1, EarlyRenamed
  <2> HIDE DEF w, r
  <2>3. QED
    BY <2>2 DEF Early
<1> HIDE DEF w, r
<1>5. signals(h) \subseteq h
  OBVIOUS
<1> HIDE DEF signals
<1>6. filled(r) = Image(w, filled(h))
  BY <1>1, <1>4, <1>5 DEF Image
<1>7. filled(h) \subseteq h
  BY <1>5
<1>8. ASSUME NEW V \in SUBSET h
      PROVE  Cardinality(Image(w, V)) = Cardinality(V)
  <2> DEFINE v == [t \in V |-> w[t]]
  <2>1. v \in Bijection(V, Image(w, V))
    BY <1>2 DEF Bijection, Injection, Surjection, IsInjective, Image
  <2>2. IsFiniteSet(V)
    BY HistoryIsFinite, FS_Subset
  <2> HIDE DEF v
  <2>3. QED
    BY <2>1, <2>2, FS_Bijection DEF ExistsBijection
<1>9. Cardinality(signals(r)) = Cardinality(signals(h))
  BY <1>4, <1>5, <1>8
<1>10. Cardinality(filled(r)) = Cardinality(filled(h))
  <2> HIDE DEF filled
  <2>1. QED
    BY <1>6, <1>7, <1>8
<1> HIDE DEF filled
<1>11. \A t \in h : net(w[t]) = net(t)
  <2> TAKE t \in h
  <2>1. CASE t.exit < s.end
    <3>1. w[t] = t
      BY <1>1, <1>3, <2>1, HoldoutIsInt
    <3>2. QED
      BY <3>1
  <2>2. CASE ~(t.exit < s.end)
    BY <1>1, <2>2 DEF NetOf
  <2>3. QED
    BY <2>1, <2>2
<1>12. \A t \in h : net(t) \in Int
  <2> TAKE t \in h
  <2>1. EntryRate(m) \in Nat /\ \A b : ExitRate(m, b) \in Nat
    BY ScreeningAssumption DEF EntryRate, ExitRate
  <2>2. NetOf(t, t.gross, EntryRate(m), ExitRate(m, t.target)) \in Int
    BY <1>3, <2>1, NetIsInt
  <2>3. NetOf(t, t.mark, EntryRate(m), ExitRate(m, FALSE)) \in Int
    BY <1>3, <2>1, NetIsInt
  <2>4. QED
    BY <2>2, <2>3
<1> HIDE DEF net
<1>13. Metrics(filled(h), nets(h), 0) = Metrics(filled(r), nets(r), 0)
  <2> DEFINE A == filled(h)
             B == filled(r)
             f == nets(h)
             g == nets(r)
  <2>1. IsFiniteSet(A) /\ B = Image(w, A)
    BY <1>6, <1>7, HistoryIsFinite, FS_Subset
  <2>2. \A t, o \in A : w[t] = w[o] => t = o
    BY <1>2, <1>7
  <2>3. \A t \in A : f[t] \in Int /\ f[t] = g[w[t]] /\ w[t].exit = t.exit
    BY <1>1, <1>6, <1>7, <1>11, <1>12 DEF Image
  <2> HIDE DEF A, B, f, g
  <2>4. Metrics(A, f, 0) = Metrics(B, g, 0)
    BY ONLY <2>1, <2>2, <2>3, MetricsRenamed
  <2>5. QED
    BY <2>4 DEF A, B, f, g
<1>14. ExecPart(r, s, m) = [metrics |-> Metrics(filled(r), nets(r), 0),
                            signals |-> Cardinality(signals(r)), filled |-> Cardinality(filled(r))]
  BY DEF ExecPart, signals, filled, net
<1>15. ExecPart(h, s, m) = [metrics |-> Metrics(filled(h), nets(h), 0),
                            signals |-> Cardinality(signals(h)), filled |-> Cardinality(filled(h))]
  BY DEF ExecPart, signals, filled, net
<1> HIDE DEF nets
<1>16. ExecPart(r, s, m) = ExecPart(h, s, m)
  BY <1>9, <1>10, <1>13, <1>14, <1>15
<1>17. QED
  BY <1>16 DEF r

\* And analyzer-execution selects a model on the validation.
LEMMA SelectionBlind ==
  ASSUME NEW d \in Data, NEW c \in Candidates, NEW gross,
         NEW o, \A s \in Symbols : o[s] = Rewritten(d[c][s], gross)
  PROVE  SelectedModel(o) = SelectedModel(d[c])
<1>1. \A m : ExecParts(o, "validation", m) = ExecParts(d[c], "validation", m)
  <2> TAKE m
  <2>1. ASSUME NEW s \in Symbols
        PROVE  ExecPart(o[s], Splits["validation"], m) = ExecPart(d[c][s], Splits["validation"], m)
    <3>1. History(d[c][s]) /\ o[s] = Rewritten(d[c][s], gross)
      BY DataAreHistories
    <3>2. QED
      BY <3>1, SplitsBeforeHoldout, ExecBlind
  <2>2. QED
    BY <2>1 DEF ExecParts
<1>2. QED
  BY <1>1 DEF SelectedModel

(***************************************************************************)
(* What the artifacts say, for any data and whatever failed or died, in    *)
(* this run of a tool or an earlier one.                                   *)
(***************************************************************************)

\* What the artifacts are to say, tool by tool, for these data.
LadderResult == [validation |-> Verdict(data, "validation"), holdout |-> Verdict(data, "holdout")]

ExecutionResult == [selected |-> [c \in Candidates |-> SelectedModel(data[c])],
                    rescued |-> {c \in Candidates : Rescues(data[c])}]

\* What a sweep of everything would find: every candidate, on every symbol, holdout included.
WholeOutcomes == [c \in Candidates |-> Outcome(data[c], Symbols, TRUE)]

\* Advice, when there is any, is about the winners of the whole and reads their holdouts.
SoundAdvice(r) ==
  r.advice # "insufficient evidence" =>
    /\ r.winners = Winners(WholeOutcomes)
    /\ ToSet(r.winners) \cup {Baseline} \subseteq r.holdouts
    /\ r.negative = {c \in ToSet(r.winners) : ~Positive(WholeOutcomes[c].base.holdout)}

\* A result that says what the data say.
Sound(r) == /\ tool = "sweep" => SoundAdvice(r)
            /\ tool = "ladder" => r = LadderResult
            /\ tool = "execution" => r = ExecutionResult

Ended == {"done", "failed"} \cup Artifact

\* The phases that each tool has, and those in which it has ended or writes.
ToolPhase(p) ==
  /\ tool = "sweep" => p \in {"load", "score", "rank", "frozen", "recommend"} \cup Ended
  /\ tool \in {"ladder", "execution"} => p \in {"load", "evaluate"} \cup Ended
  /\ tool = "confirm" => p \in {"digest", "parse", "verify", "validate", "load", "evaluate"}
                                 \cup Ended

\* The first pass: every candidate it could evaluate is scored without the holdout,
\* and without an error that is every candidate on every symbol.
Screened ==
  /\ DOMAIN outcomes \subseteq Candidates
  /\ outcomes = [c \in DOMAIN outcomes |-> Outcome(data[c], loaded, FALSE)]
  /\ loaded = {} => DOMAIN outcomes = {}
  /\ errors = {} => loaded = Symbols /\ (loaded # {} => DOMAIN outcomes = Candidates)

\* The second: the winners are those of the whole evidence, and scored on all of it.
ScoredWhole ==
  /\ winners = Winners(WholeOutcomes) /\ ToSet(winners) \subseteq Candidates
  /\ \A c \in ToSet(winners) \cup {Baseline} :
       c \in DOMAIN outcomes /\ outcomes[c] = WholeOutcomes[c]

\* What a sweep holds, phase by phase.
SweepInv ==
  /\ loaded \subseteq Symbols
  /\ pc = "score" => (errors = {} => loaded = Symbols)
  /\ pc \in {"rank", "frozen"} => Screened
  /\ pc = "frozen" => winners = Winners(outcomes)
  /\ pc = "recommend" => (errors = {} /\ winners # <<>> => ScoredWhole)

\* What a tool holds, about to write or on disk, is sound.
ReportInv ==
  /\ tool \in Tools /\ data \in Data
  /\ files = [f \in Artifact |-> files[f]]
  /\ ToolPhase(pc)
  /\ tool = "sweep" => SweepInv
  /\ pc \in Artifact => Sound(results)
  /\ tool = "execution" => (results # None => Sound(results))
  /\ \A f \in Artifact : files[f] \notin {None, Torn} => Sound(files[f])

\* Outcomes on the data rank by figures.
LEMMA OutcomeFigures ==
  ASSUME NEW d \in Data, NEW c \in Candidates, NEW symbols, symbols \subseteq Symbols, NEW w
  PROVE  Figures(Outcome(d[c], symbols, w).base.validation)
<1> DEFINE part == [s \in symbols |-> SliceMetrics(d[c][s], Splits["validation"], BaseRate)]
<1>1. Outcome(d[c], symbols, w).base.validation = Pool(part)
  BY DEF Outcome, Scored
<1>2. BaseRate \in Nat /\ IsFiniteSet(symbols)
  BY ScreeningAssumption, FS_Subset
<1>3. \A s \in symbols : Figures(part[s])
  <2> TAKE s \in symbols
  <2>1. Figures(SliceMetrics(d[c][s], Splits["validation"], BaseRate))
    BY <1>2, DataAreHistories, SliceFigures
  <2>2. QED
    BY <2>1
<1>4. DOMAIN part = symbols
  OBVIOUS
<1> HIDE DEF part
<1>5. QED
  BY <1>1, <1>2, <1>3, <1>4, PoolFigures

\* The holdout adds nothing that the ranking reads.
LEMMA OutcomeSame ==
  ASSUME NEW h, NEW symbols
  PROVE  Same(Outcome(h, symbols, FALSE), Outcome(h, symbols, TRUE))
  BY DEF Same, Ranked, Outcome, Scored

\* The winners are among the candidates scored: none scored, none wins.
LEMMA WinnersOfOutcomes ==
  ASSUME NEW d \in Data, NEW symbols, symbols \subseteq Symbols, NEW D, D \subseteq Candidates, NEW w,
         NEW o, DOMAIN o = D, \A c \in D : o[c] = Outcome(d[c], symbols, w)
  PROVE  /\ ToSet(Winners(o)) \subseteq D
         /\ D = {} => Winners(o) = <<>>
<1> DEFINE q == {c \in DOMAIN o : ~Rejected(o[c])}
<1>1. DOMAIN o = D /\ \A c \in D : Figures(o[c].base.validation)
  BY OutcomeFigures
<1>2. Cardinality(q) \in Nat /\ Winners(o) \in [1 .. Cardinality(q) -> q]
  BY <1>1, WinnersAreQualifiers
<1>3. q \subseteq D
  BY <1>1
<1> HIDE DEF q
<1>4. ToSet(Winners(o)) \subseteq D
  BY <1>2, <1>3 DEF ToSet
<1>5. D = {} => Winners(o) = <<>>
  <2>1. SUFFICES ASSUME D = {} PROVE Winners(o) = <<>>
    OBVIOUS
  <2>2. q = {} /\ Cardinality(q) = 0
    BY <1>3, <2>1, FS_EmptySet
  <2>3. DOMAIN Winners(o) = {} /\ Winners(o) = [i \in {} |-> Winners(o)[i]]
    BY <1>2, <2>2
  <2>4. QED
    BY <1>2, <2>2
<1>6. QED
  BY <1>4, <1>5

\* A step that leaves the artifacts alone.
LEMMA StepKeepsReport ==
  ASSUME ReportInv, UNCHANGED <<tool, data, files>>, ToolPhase(pc'),
         tool = "sweep" => SweepInv',
         pc' \in Artifact => Sound(results'),
         tool = "execution" => (results' # None => Sound(results'))
  PROVE  ReportInv'
<1>1. \A r : Sound(r)' <=> Sound(r)
  BY DEF Sound, SoundAdvice, LadderResult, ExecutionResult, WholeOutcomes
<1>2. ToolPhase(pc)'
  BY DEF ToolPhase
<1>3. QED
  BY <1>1, <1>2 DEF ReportInv

\* The phases of the sweep, in their order.
LEMMA LoadSymbolsKeeps ==
  ASSUME ReportInv, LoadSymbols
  PROVE  ReportInv'
<1>1. PICK bad \in Failing(Symbols) :
        /\ loaded' = Symbols \ bad /\ errors' = {<<"load", s>> : s \in bad}
  BY DEF LoadSymbols
<1>2. tool = "sweep" /\ pc' = "score" /\ UNCHANGED <<tool, data, files>>
  BY DEF LoadSymbols, kept
<1>3. errors' = {} => bad = {}
  BY <1>1
<1>4. SweepInv'
  BY <1>1, <1>2, <1>3 DEF SweepInv
<1>5. QED
  BY <1>2, <1>4, StepKeepsReport DEF ToolPhase, Artifact

LEMMA ScoreCandidatesKeeps ==
  ASSUME ReportInv, ScoreCandidates
  PROVE  ReportInv'
<1>1. tool = "sweep" /\ pc = "score" /\ SweepInv
  BY DEF ScoreCandidates, ReportInv, ToolPhase, Tools, Ended, Artifact
<1>2. pc' = "rank" /\ UNCHANGED <<tool, data, files, loaded>>
  BY DEF ScoreCandidates, kept
<1>3. PICK bad : /\ bad \subseteq IF loaded = {} THEN {} ELSE Candidates
                 /\ outcomes' = [c \in IF loaded = {} THEN {} ELSE Candidates \ bad |->
                                   Outcome(data[c], loaded, FALSE)]
                 /\ errors' = errors \cup {<<"score", c>> : c \in bad}
  BY DEF ScoreCandidates, Failing
<1>4. errors' = {} => bad = {} /\ errors = {}
  BY <1>3
<1>5. DOMAIN outcomes' = IF loaded = {} THEN {} ELSE Candidates \ bad
  BY <1>3
<1>6. outcomes' = [c \in DOMAIN outcomes' |-> Outcome(data[c], loaded, FALSE)]
  BY <1>3
<1>7. Screened'
  BY <1>1, <1>2, <1>4, <1>5, <1>6 DEF Screened, SweepInv
<1>8. SweepInv'
  BY <1>1, <1>2, <1>7 DEF SweepInv
<1>9. QED
  BY <1>1, <1>2, <1>8, StepKeepsReport DEF ToolPhase, Artifact

LEMMA RankCandidatesKeeps ==
  ASSUME ReportInv, RankCandidates
  PROVE  ReportInv'
<1>1. tool = "sweep" /\ pc = "rank" /\ SweepInv
  BY DEF RankCandidates, ReportInv, ToolPhase, Tools, Ended, Artifact
<1>2. /\ pc' = "frozen" /\ winners' = Winners(outcomes)
      /\ UNCHANGED <<tool, data, files, loaded, outcomes, errors>>
  BY DEF RankCandidates, kept
<1>3. Screened'
  BY <1>1, <1>2 DEF SweepInv, Screened
<1>4. winners' = Winners(outcomes')
  BY <1>2
<1>5. SweepInv'
  BY <1>1, <1>2, <1>3, <1>4 DEF SweepInv
<1>6. QED
  BY <1>1, <1>2, <1>5, StepKeepsReport DEF ToolPhase, Artifact

\* The winners of the first pass are those of the whole evidence, when there was all of it.
LEMMA WinnersOfTheWhole ==
  ASSUME data \in Data, Screened, errors = {}, loaded # {}
  PROVE  Winners(outcomes) = Winners(WholeOutcomes) /\ ToSet(Winners(outcomes)) \subseteq Candidates
<1>1. loaded = Symbols /\ outcomes = [c \in Candidates |-> Outcome(data[c], Symbols, FALSE)]
  BY DEF Screened
<1>2. \A c \in Candidates : Same(outcomes[c], WholeOutcomes[c])
  <2> TAKE c \in Candidates
  <2>1. /\ outcomes[c] = Outcome(data[c], Symbols, FALSE)
        /\ WholeOutcomes[c] = Outcome(data[c], Symbols, TRUE)
    BY <1>1 DEF WholeOutcomes
  <2>2. QED
    BY <2>1, OutcomeSame
<1>3. DOMAIN outcomes = Candidates /\ DOMAIN WholeOutcomes = Candidates
  BY <1>1 DEF WholeOutcomes
<1>4. Winners(outcomes) = Winners(WholeOutcomes)
  BY <1>2, <1>3, WinnersAgree
<1>5. ToSet(Winners(outcomes)) \subseteq Candidates
  <2>1. \A c \in Candidates : outcomes[c] = Outcome(data[c], Symbols, FALSE)
    BY <1>1
  <2>2. QED
    BY <1>3, <2>1, WinnersOfOutcomes
<1>6. QED
  BY <1>4, <1>5

LEMMA ScoreFrozenKeeps ==
  ASSUME ReportInv, ScoreFrozen
  PROVE  ReportInv'
<1> DEFINE frozen == IF loaded = {} THEN {} ELSE {Baseline} \cup ToSet(winners)
<1>1. /\ tool = "sweep" /\ pc = "frozen" /\ SweepInv /\ Screened
      /\ data \in Data /\ winners = Winners(outcomes)
  BY DEF ScoreFrozen, ReportInv, SweepInv, ToolPhase, Tools, Ended, Artifact
<1>2. pc' = "recommend" /\ UNCHANGED <<tool, data, files, loaded, winners>>
  BY DEF ScoreFrozen, kept
<1>3. PICK bad \in SUBSET frozen :
        /\ outcomes' = [c \in DOMAIN outcomes \cup (frozen \ bad) |->
                          IF c \in frozen \ bad THEN Outcome(data[c], loaded, TRUE)
                                                ELSE outcomes[c]]
        /\ errors' = errors \cup {<<"frozen", c>> : c \in bad}
  BY DEF ScoreFrozen, Failing
<1>4. ASSUME errors' = {}, winners' # <<>>
      PROVE  ScoredWhole'
  <2>1. errors = {} /\ bad = {}
    BY <1>3, <1>4
  <2>2. loaded # {}
    <3>1. SUFFICES ASSUME loaded = {} PROVE winners = <<>>
      BY <1>2, <1>4
    <3>2. /\ DOMAIN outcomes = {} /\ loaded \subseteq Symbols
          /\ outcomes = [c \in DOMAIN outcomes |-> Outcome(data[c], loaded, FALSE)]
      BY <1>1, <3>1 DEF Screened, SweepInv
    <3>3. \A c \in DOMAIN outcomes : outcomes[c] = Outcome(data[c], loaded, FALSE)
      BY <3>2
    <3>4. QED
      BY <1>1, <3>2, <3>3, WinnersOfOutcomes
  <2>3. loaded = Symbols
    BY <1>1, <2>1 DEF Screened
  <2>4. winners = Winners(WholeOutcomes) /\ ToSet(winners) \subseteq Candidates
    BY <1>1, <2>1, <2>2, WinnersOfTheWhole
  <2>5. WholeOutcomes' = WholeOutcomes
    BY <1>2 DEF WholeOutcomes
  <2>6. ASSUME NEW c \in ToSet(winners) \cup {Baseline}
        PROVE  c \in DOMAIN outcomes' /\ outcomes'[c] = WholeOutcomes[c]
    <3>1. c \in frozen \ bad /\ c \in Candidates
      BY <2>1, <2>2, <2>4, ScreeningAssumption
    <3> HIDE DEF frozen
    <3>2. QED
      BY <1>3, <2>3, <3>1 DEF WholeOutcomes
  <2>7. QED
    BY <1>2, <2>4, <2>5, <2>6 DEF ScoredWhole
<1>5. SweepInv'
  BY <1>1, <1>2, <1>4 DEF SweepInv
<1>6. QED
  BY <1>1, <1>2, <1>5, StepKeepsReport DEF ToolPhase, Artifact

LEMMA ReportSweepKeeps ==
  ASSUME ReportInv, ReportSweep
  PROVE  ReportInv'
<1>1. tool = "sweep" /\ pc = "recommend" /\ SweepInv
  BY DEF ReportSweep, ReportInv, ToolPhase, Tools, Ended, Artifact
<1>2. /\ pc' = "csv" /\ UNCHANGED <<tool, data, files, loaded, outcomes, winners, errors>>
      /\ results' = [advice |-> Recommendation, winners |-> winners,
                     holdouts |-> {c \in Candidates : HasHoldout(c)},
                     negative |-> NegativeHoldouts]
  BY DEF ReportSweep, kept
<1>3. ASSUME Recommendation # "insufficient evidence"
      PROVE  /\ winners = Winners(WholeOutcomes)
             /\ ToSet(winners) \cup {Baseline} \subseteq {c \in Candidates : HasHoldout(c)}
             /\ NegativeHoldouts = {c \in ToSet(winners) :
                                      ~Positive(WholeOutcomes[c].base.holdout)}
  <2>1. errors = {} /\ winners # <<>>
    BY <1>3 DEF Recommendation
  <2>2. ScoredWhole
    BY <1>1, <2>1 DEF SweepInv
  <2>3. \A c \in ToSet(winners) \cup {Baseline} :
          c \in Candidates /\ c \in DOMAIN outcomes /\ outcomes[c] = WholeOutcomes[c]
    BY <2>2, ScreeningAssumption DEF ScoredWhole
  <2>4. \A c \in Candidates : "holdout" \in DOMAIN WholeOutcomes[c].base
    BY DEF WholeOutcomes, Outcome, Scored
  <2>5. \A c \in ToSet(winners) \cup {Baseline} : HasHoldout(c)
    BY <2>3, <2>4 DEF HasHoldout
  <2>6. \A c \in ToSet(winners) : outcomes[c].base.holdout = WholeOutcomes[c].base.holdout
    BY <2>3
  <2>7. QED
    BY <2>2, <2>3, <2>5, <2>6 DEF ScoredWhole, NegativeHoldouts
<1>4. Sound(results')
  <2>1. SoundAdvice(results')
    BY <1>2, <1>3 DEF SoundAdvice
  <2>2. QED
    BY <1>1, <2>1 DEF Sound
<1>5. SweepInv'
  BY <1>1, <1>2 DEF SweepInv
<1>6. ToolPhase(pc')
  BY <1>1, <1>2 DEF ToolPhase, Ended, Artifact
<1>7. QED
  BY <1>1, <1>2, <1>4, <1>5, <1>6, StepKeepsReport

\* The ladder and the execution study.
LEMMA StudyKeeps ==
  ASSUME ReportInv, LoadDatasets \/ EvaluateLadder \/ EvaluateExecution
  PROVE  ReportInv'
<1>1. CASE LoadDatasets
  <2>1. /\ tool \in {"ladder", "execution"} /\ pc' \in {"evaluate", "failed"}
        /\ UNCHANGED <<tool, data, files, results>>
    BY <1>1 DEF LoadDatasets, Load, Fail, kept
  <2>2. tool = "execution" => (results' # None => Sound(results'))
    BY <2>1 DEF ReportInv
  <2>3. QED
    BY <2>1, <2>2, StepKeepsReport DEF ToolPhase, Artifact, Ended
<1>2. CASE EvaluateLadder
  <2>1. /\ tool = "ladder" /\ UNCHANGED <<tool, data, files>>
        /\ \/ results' = LadderResult /\ pc' = "csv"
           \/ pc' = "failed"
    BY <1>2 DEF EvaluateLadder, Compute, Fail, kept, LadderResult
  <2>2. pc' \in Artifact => Sound(results')
    BY <2>1 DEF Sound, Artifact
  <2>3. QED
    BY <2>1, <2>2, StepKeepsReport DEF ToolPhase, Artifact, Ended
<1>3. CASE EvaluateExecution
  <2>1. /\ tool = "execution" /\ UNCHANGED <<tool, data, files>>
        /\ \/ results' = ExecutionResult /\ pc' = "csv"
           \/ pc' = "failed" /\ results' = results
    BY <1>3 DEF EvaluateExecution, Compute, Fail, kept, ExecutionResult
  <2>2. results' = ExecutionResult => Sound(results')
    BY <2>1 DEF Sound
  <2>3. results' # None => Sound(results')
    BY <2>1, <2>2 DEF ReportInv
  <2>4. pc' \in Artifact => Sound(results')
    BY <2>1, <2>2 DEF Artifact
  <2>5. ToolPhase(pc')
    BY <2>1 DEF ToolPhase, Artifact, Ended
  <2>6. QED
    BY <2>1, <2>3, <2>4, <2>5, StepKeepsReport
<1>4. QED
  BY <1>1, <1>2, <1>3

\* The confirmation, of which nothing is said here.
LEMMA ConfirmKeeps ==
  ASSUME ReportInv,
         \/ VerifyDigest \/ LoadLock \/ Verify \/ ValidateLock \/ LoadLocked \/ EvaluateLocked
         \/ EditLock \/ EditSource
  PROVE  ReportInv'
<1>1. /\ tool = "confirm" /\ UNCHANGED <<tool, data, files>>
      /\ pc' \in {"digest", "parse", "verify", "validate", "load", "evaluate"} \cup Ended
  <2>1. UNCHANGED <<tool, data, files>>
    BY Zenon DEF VerifyDigest, LoadLock, Verify, ValidateLock, LoadLocked, EvaluateLocked, EditLock,
                 EditSource, Load, Compute, kept
  <2>2. CASE VerifyDigest \/ LoadLock \/ Verify \/ ValidateLock
    <3>1. pc \in {"digest", "parse", "verify", "validate"}
      BY <2>2 DEF VerifyDigest, LoadLock, Verify, ValidateLock
    <3>2. pc' \in {"parse", "verify", "validate", "load", "failed"}
      BY <2>2 DEF VerifyDigest, LoadLock, Verify, ValidateLock
    <3>3. QED
      BY <2>1, <3>1, <3>2 DEF ReportInv, ToolPhase, Tools, Ended, Artifact
  <2>3. CASE LoadLocked \/ EvaluateLocked
    <3>1. tool = "confirm" /\ pc' \in {"evaluate", "csv", "failed"}
      BY <2>3 DEF LoadLocked, EvaluateLocked, Load, Compute, Fail
    <3>2. QED
      BY <2>1, <3>1 DEF Ended, Artifact
  <2>4. CASE EditLock \/ EditSource
    BY <2>1, <2>4 DEF EditLock, EditSource, Editable
  <2>5. QED
    BY <2>2, <2>3, <2>4
<1>2. pc' \in Artifact => Sound(results')
  BY <1>1 DEF Sound
<1>3. ToolPhase(pc')
  BY <1>1 DEF ToolPhase
<1>4. QED
  BY <1>1, <1>2, <1>3, StepKeepsReport

\* An artifact is emptied or filled with the results.
LEMMA WritingKeeps ==
  ASSUME ReportInv, (\E f \in Artifact : Truncate(f)) \/ (\E i \in 1 .. 3 : Fill(i))
  PROVE  ReportInv'
<1>1. PICK f \in Artifact, said \in {Torn, results} :
        /\ pc = f /\ files' = [files EXCEPT ![f] = said]
        /\ UNCHANGED <<tool, data, results, winners, outcomes, errors, loaded>>
  BY DEF Truncate, Fill, Artifacts, Artifact, memory, kept
<1>2. pc' \in Ended
  BY <1>1 DEF Truncate, Fill, Artifacts, Artifact, Ended
<1>3. \A r : Sound(r)' <=> Sound(r)
  BY <1>1 DEF Sound, SoundAdvice, LadderResult, ExecutionResult, WholeOutcomes
<1>4. Sound(results)
  BY <1>1 DEF ReportInv
<1>5. files' = [g \in Artifact |-> files'[g]]
  BY <1>1 DEF ReportInv
<1>6. \A g \in Artifact : files'[g] \notin {None, Torn} => Sound(files'[g])
  BY <1>1, <1>4 DEF ReportInv
<1>7. ToolPhase(pc)'
  BY <1>1, <1>2 DEF ToolPhase
<1>8. tool = "sweep" => SweepInv'
  <2>1. pc' \notin {"score", "rank", "frozen", "recommend"}
    BY <1>2 DEF Ended, Artifact
  <2>2. QED
    BY <1>1, <2>1 DEF ReportInv, SweepInv
<1>9. QED
  BY <1>1, <1>3, <1>4, <1>5, <1>6, <1>7, <1>8 DEF ReportInv

\* A run that dies, and the run after it.
LEMMA EndsKeepReport ==
  ASSUME ReportInv, Die \/ RunAgain
  PROVE  ReportInv'
<1>1. CASE Die
  <2>1. pc' = "failed" /\ UNCHANGED <<tool, data, files, results, loaded>>
    BY <1>1 DEF Die, Fail, memory, kept
  <2>2. SweepInv'  \/ tool # "sweep"
    BY <2>1 DEF SweepInv, ReportInv
  <2>3. tool = "execution" => (results' # None => Sound(results'))
    BY <2>1 DEF ReportInv
  <2>4. ToolPhase(pc')
    BY <2>1 DEF ToolPhase, Ended
  <2>5. QED
    BY <2>1, <2>2, <2>3, <2>4, StepKeepsReport DEF Artifact
<1>2. CASE RunAgain
  <2>1. /\ pc' = FirstPhase /\ UNCHANGED <<tool, data, files>>
        /\ loaded' = {} /\ results' = None
    BY <1>2 DEF RunAgain, Forget
  <2>2. pc' \in {"digest", "load"} /\ ToolPhase(pc')
    BY <2>1 DEF FirstPhase, ToolPhase, ReportInv, Tools
  <2>3. SweepInv'
    BY <2>1, <2>2 DEF SweepInv
  <2>4. QED
    BY <2>1, <2>2, <2>3, StepKeepsReport DEF Artifact
<1>3. QED
  BY <1>1, <1>2

LEMMA NextKeepsReportInv ==
  ASSUME ReportInv, [Next]_vars
  PROVE  ReportInv'
<1>1. CASE LoadSymbols \/ ScoreCandidates \/ RankCandidates \/ ScoreFrozen \/ ReportSweep
  BY <1>1, LoadSymbolsKeeps, ScoreCandidatesKeeps, RankCandidatesKeeps, ScoreFrozenKeeps,
     ReportSweepKeeps
<1>2. CASE LoadDatasets \/ EvaluateLadder \/ EvaluateExecution
  BY <1>2, StudyKeeps
<1>3. CASE \/ VerifyDigest \/ LoadLock \/ Verify \/ ValidateLock \/ LoadLocked \/ EvaluateLocked
           \/ EditLock \/ EditSource
  BY <1>3, ConfirmKeeps
<1>4. CASE (\E f \in Artifact : Truncate(f)) \/ (\E i \in 1 .. 3 : Fill(i))
  BY <1>4, WritingKeeps
<1>5. CASE Die \/ RunAgain
  BY <1>5, EndsKeepReport
<1>6. CASE UNCHANGED vars
  <2>1. UNCHANGED <<tool, data, files, pc, results, loaded, winners, outcomes, errors>>
    BY <1>6 DEF vars
  <2>2. SweepInv' <=> SweepInv
    BY <2>1 DEF SweepInv, Screened, ScoredWhole, WholeOutcomes
  <2>3. QED
    BY <2>1, <2>2, StepKeepsReport DEF ReportInv
<1>7. QED
  BY <1>1, <1>2, <1>3, <1>4, <1>5, <1>6, Zenon DEF Next

LEMMA InitIsReportInv ==
  ASSUME Init
  PROVE  ReportInv
<1>1. /\ tool \in Tools /\ data \in Data /\ files = [f \in Artifact |-> None]
      /\ pc = FirstPhase /\ loaded = {} /\ results = None
  BY DEF Init
<1>2. pc \in {"digest", "load"} /\ ToolPhase(pc)
  BY <1>1 DEF FirstPhase, ToolPhase, Tools
<1>3. SweepInv
  BY <1>1, <1>2 DEF SweepInv
<1>4. QED
  BY <1>1, <1>2, <1>3 DEF ReportInv, Artifact

LEMMA ReportInvHolds == Spec => []ReportInv
<1>1. Init => ReportInv
  BY InitIsReportInv
<1>2. ReportInv /\ [Next]_vars => ReportInv'
  BY NextKeepsReportInv
<1>3. QED
  BY <1>1, <1>2, PTL DEF Spec

\* A recommendation rests on the whole of the evidence, for any data, candidates and
\* thresholds and whatever failed (recommendation in harness/sweep/report.rs).
THEOREM ResearchRecommendsOnWhole == Spec => []RecommendsOnWhole
<1>1. ReportInv => RecommendsOnWhole
  <2> SUFFICES ASSUME ReportInv, Published("sweep", "report"),
                      files.report.advice # "insufficient evidence"
               PROVE  /\ files.report.winners = Winners(WholeOutcomes)
                      /\ ToSet(files.report.winners) \cup {Baseline} \subseteq files.report.holdouts
                      /\ files.report.negative = {c \in ToSet(files.report.winners) :
                                                    ~Positive(WholeOutcomes[c].base.holdout)}
    BY DEF RecommendsOnWhole, WholeOutcomes
  <2>1. tool = "sweep" /\ Sound(files["report"])
    BY DEF ReportInv, Published, Artifact
  <2>2. SoundAdvice(files.report)
    BY <2>1 DEF Sound
  <2>3. QED
    BY <2>2 DEF SoundAdvice
<1>2. QED
  BY <1>1, ReportInvHolds, PTL

\* The ladder's verdict is to proceed exactly when some candidate's results survive it,
\* for any data and any ladder with the viable rate among its rungs past the first
\* (verdict in analyzer-cost-ladder).
THEOREM ResearchVerdictMatchesLadder == Spec => []VerdictMatchesLadder
<1>1. ReportInv => VerdictMatchesLadder
  <2> SUFFICES ASSUME ReportInv, Published("ladder", "json"), NEW name \in {"validation", "holdout"}
               PROVE  (files.json[name] = "proceed") <=>
                        \E c \in Candidates : Survives(Results(data[c], name))
    BY DEF VerdictMatchesLadder, Survives
  <2>1. data \in Data /\ files["json"] = LadderResult
    BY DEF ReportInv, Published, Artifact, Sound
  <2>2. files.json[name] = Verdict(data, name)
    BY <2>1 DEF LadderResult
  <2>3. QED
    BY <2>1, <2>2, VerdictTells
<1>2. QED
  BY <1>1, ReportInvHolds, PTL

\* The choices made on the validation are the same with any other holdout, for any data
\* and thresholds (the first pass of analyzer-sweep, decide in analyzer-execution).
THEOREM ResearchScreeningBlind == Spec => []ScreeningBlind
<1>1. ReportInv => ScreeningBlind
  <2> SUFFICES ASSUME ReportInv, NEW gross \in {-Notional, Notional}
               PROVE  LET other == [c \in Candidates |->
                                      [s \in Symbols |-> Rewritten(data[c][s], gross)]]
                      IN /\ pc = "frozen" =>
                              winners = Winners([c \in DOMAIN outcomes |->
                                                   Outcome(other[c], loaded, FALSE)])
                         /\ tool = "execution" /\ results # None =>
                              results.selected = [c \in Candidates |-> SelectedModel(other[c])]
    BY Zenon DEF ScreeningBlind
  <2> DEFINE other == [c \in Candidates |-> [s \in Symbols |-> Rewritten(data[c][s], gross)]]
             again == [c \in DOMAIN outcomes |-> Outcome(other[c], loaded, FALSE)]
  <2>1. data \in Data /\ \A c \in Candidates :
          other[c] = [s \in Symbols |-> Rewritten(data[c][s], gross)]
    BY DEF ReportInv
  <2>2. ASSUME pc = "frozen" PROVE winners = Winners(again)
    <3>1. Screened /\ loaded \subseteq Symbols /\ winners = Winners(outcomes)
      BY <2>2 DEF ReportInv, SweepInv, ToolPhase, Tools, Ended, Artifact
    <3>2. \A c \in DOMAIN outcomes : again[c] = outcomes[c]
      <4> TAKE c \in DOMAIN outcomes
      <4>1. c \in Candidates /\ outcomes[c] = Outcome(data[c], loaded, FALSE)
        BY <3>1 DEF Screened
      <4>2. again[c] = Outcome(other[c], loaded, FALSE)
        OBVIOUS
      <4>3. \A s \in Symbols : other[c][s] = Rewritten(data[c][s], gross)
        BY <2>1, <4>1
      <4> HIDE DEF again, other
      <4> DEFINE o == other[c]
      <4>4. \A s \in Symbols : o[s] = Rewritten(data[c][s], gross)
        BY <4>3
      <4> HIDE DEF o
      <4>5. Chosen(o, loaded) = Chosen(data[c], loaded)
        <5>1. data \in Data /\ c \in Candidates /\ loaded \subseteq Symbols
          BY <2>1, <3>1, <4>1
        <5>2. QED
          BY ONLY <4>4, <5>1, OutcomeBlind
      <4>6. QED
        BY <4>1, <4>2, <4>5 DEF o, Chosen
    <3>3. DOMAIN again = DOMAIN outcomes
      OBVIOUS
    <3>4. again = outcomes
      <4>1. again = [c \in DOMAIN outcomes |-> again[c]] /\ outcomes = [c \in DOMAIN outcomes |-> outcomes[c]]
        BY <3>1 DEF Screened
      <4> HIDE DEF again
      <4>2. QED
        BY <3>2, <4>1
    <3> HIDE DEF again
    <3>5. QED
      BY <3>1, <3>4
  <2>3. ASSUME tool = "execution", results # None
        PROVE  results.selected = [c \in Candidates |-> SelectedModel(other[c])]
    <3>1. results.selected = [c \in Candidates |-> SelectedModel(data[c])]
      BY <2>3 DEF ReportInv, Sound, ExecutionResult
    <3>2. \A c \in Candidates : SelectedModel(other[c]) = SelectedModel(data[c])
      <4> TAKE c \in Candidates
      <4>1. \A s \in Symbols : other[c][s] = Rewritten(data[c][s], gross)
        BY <2>1
      <4> HIDE DEF other
      <4>2. QED
        BY <2>1, <4>1, SelectionBlind
    <3> HIDE DEF other
    <3>3. QED
      BY <3>1, <3>2
  <2>4. QED
    BY <2>2, <2>3
<1>2. QED
  BY <1>1, ReportInvHolds, PTL
================================================================================
