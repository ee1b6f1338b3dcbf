--------------------------- MODULE CandleCacheProofs ---------------------------
(***************************************************************************)
(* What a load returns, why it may fail and what the CSV holds, for any    *)
(* histories, requests and page sizes, any number of processes, crashes    *)
(* and errors.  A page reaches PageSize slots back, so paging overlooks a  *)
(* candle only behind a hole of a page; and what a page falls short of its *)
(* slots it must have skipped, which is what bounds the number of pages.   *)
(***************************************************************************)
EXTENDS CandleCache, SumTheorems

-----------------------------------------------------------------------------
(* Slots of TF ticks.                                                      *)

LEMMA Division ==
  ASSUME NEW x \in Int, NEW d \in Nat \ {0}
  PROVE  /\ x \div d \in Int
         /\ (x \div d) * d <= x /\ x < (x \div d) * d + d
         /\ x % d = 0 => x = (x \div d) * d
<1>1. x \div d \in Int /\ x % d \in 0..(d - 1) /\ x = d * (x \div d) + (x % d)
  OBVIOUS
<1>2. QED
  BY <1>1

LEMMA SlotOrder ==
  ASSUME NEW d \in Nat \ {0}, NEW i \in Int, NEW j \in Int
  PROVE  /\ i * d \in Int /\ (i * d) % d = 0 /\ (i * d) \div d = i
         /\ i < j <=> i * d < j * d
         /\ i < j => i * d + d <= j * d
<1>1. i * d \in Int /\ (i * d) % d = 0 /\ (i * d) \div d = i
  OBVIOUS
<1>2. i < j => i * d + d <= j * d
  OBVIOUS
<1>3. j < i => j * d + d <= i * d
  OBVIOUS
<1>4. i = j => i * d = j * d
  OBVIOUS
<1>5. QED
  BY <1>1, <1>2, <1>3, <1>4

\* The slots from a * d to b * d.
Multiples(d, a, b) == {o \in Int : o % d = 0 /\ a * d <= o /\ o <= b * d}

LEMMA SlotCount ==
  ASSUME NEW d \in Nat \ {0}, NEW a \in Int, NEW b \in Int
  PROVE  /\ IsFiniteSet(Multiples(d, a, b))
         /\ Cardinality(Multiples(d, a, b)) = IF a > b THEN 0 ELSE b - a + 1
<1> DEFINE S == Multiples(d, a, b)
<1> DEFINE f == [i \in a..b |-> i * d]
<1>1. \A i \in a..b : i * d \in S
  BY SlotOrder DEF Multiples
<1>2. \A o \in S : \E i \in a..b : o = i * d
  <2>1. SUFFICES ASSUME NEW o \in S
                 PROVE  o \div d \in a..b /\ o = (o \div d) * d
    OBVIOUS
  <2>2. o \div d \in Int /\ o = (o \div d) * d
    BY Division DEF Multiples
  <2>3. QED
    BY <2>2, SlotOrder DEF Multiples
<1>3. \A i, j \in a..b : i * d = j * d => i = j
  BY SlotOrder
<1> HIDE DEF S
<1>4. f \in Bijection(a..b, S)
  BY <1>1, <1>2, <1>3, Zenon DEF Bijection, Injection, Surjection, IsInjective
<1>5. ExistsBijection(a..b, S)
  BY <1>4 DEF ExistsBijection
<1>6. IsFiniteSet(S) /\ Cardinality(S) = Cardinality(a..b)
  BY <1>5, FS_Bijection, FS_Interval
<1>7. QED
  BY <1>6, FS_Interval DEF S

LEMMA LeastOpen ==
  ASSUME NEW S, S \subseteq Nat, S # {}
  PROVE  Min(S) \in S /\ \A o \in S : Min(S) <= o
<1> DEFINE B == {0..o : o \in S}
<1>1. B # {} /\ \A U \in B : IsFiniteSet(U)
  <2>1. \A o \in S : 0..o \in B
    OBVIOUS
  <2>2. \A o \in S : IsFiniteSet(0..o)
    BY FS_Interval
  <2>3. QED
    BY <2>1, <2>2
<1>2. PICK U \in B : \A V \in B : V \subseteq U => V = U
  <2> HIDE DEF B
  <2>1. QED
    BY <1>1, LeastSet
<1>3. PICK m \in S : U = 0..m
  BY <1>2
<1>4. ASSUME NEW o \in S, o < m
      PROVE  FALSE
  <2>1. 0..o \subseteq 0..m /\ m \notin 0..o /\ m \in 0..m
    BY <1>4
  <2>2. 0..o \in B
    OBVIOUS
  <2>3. QED
    BY <1>2, <1>3, <2>1, <2>2
<1>5. \A o \in S : m <= o
  BY <1>4
<1>6. QED
  BY <1>5 DEF Min

LEMMA LatestOpen ==
  ASSUME NEW S, S \subseteq Nat, S # {}, NEW n \in Nat, \A o \in S : o <= n
  PROVE  Max(S) \in S /\ \A o \in S : o <= Max(S)
<1> DEFINE T == {k \in 0..n : n - k \in S}
<1>1. T \subseteq Nat /\ T # {}
  <2>1. PICK o \in S : TRUE
    OBVIOUS
  <2>2. n - o \in 0..n /\ n - (n - o) = o
    BY <2>1
  <2>3. n - o \in T
    BY <2>1, <2>2
  <2>4. T \subseteq Nat
    OBVIOUS
  <2> HIDE DEF T
  <2>5. QED
    BY <2>3, <2>4
<1>2. PICK k \in T : \A j \in T : k <= j
  BY <1>1, LeastOpen
<1>3. \A o \in S : n - o \in T
  OBVIOUS
<1>4. n - k \in S /\ \A o \in S : o <= n - k
  BY <1>2, <1>3
<1>5. QED
  BY <1>4 DEF Max

-----------------------------------------------------------------------------
(* What a load is to return.                                               *)

\* What the exchange and the clock are.
WorldTypes ==
  /\ program \in {"sweep", "confirm"} /\ history \in Histories /\ paginates \in BOOLEAN
  /\ clock \in FirstClock..MaxClock

\* The final candles of a range, whenever it is asked for.
Whole(r) ==
  {<<o, TRUE>> : o \in {q \in history : /\ r.start <= q /\ q < r.end
                                        /\ program = "sweep" => IsClosed(q, r.end)}}

\* Whole, unless a hole stopped the paging.
Content(r, cs) == cs \subseteq Whole(r) /\ (NoWideHole(r) => cs = Whole(r))

\* A cut that Start may have chosen.
CutOk(r, cut) ==
  IF program = "confirm" THEN cut \in FirstClock..clock /\ IsClosed(r.end, cut) ELSE cut = r.end

LEMMA HistoryOpens ==
  ASSUME CacheAssumption, WorldTypes
  PROVE  /\ history \subseteq Nat /\ \A o \in history : o % TF = 0
         /\ history \subseteq Opens
         /\ clock \in Nat
  BY DEF CacheAssumption, WorldTypes, Opens

\* Two slots of the history are at least a candle apart.
LEMMA OpensApart ==
  ASSUME CacheAssumption, NEW o \in Nat, NEW q \in Nat, o % TF = 0, q % TF = 0, o < q
  PROVE  o + TF <= q
<1>1. TF \in Nat \ {0} /\ o \in Int /\ q \in Int
  BY DEF CacheAssumption
<1>2. PICK i \in Int, j \in Int : o = i * TF /\ q = j * TF
  BY <1>1, Division
<1>3. i < j /\ i * TF + TF <= j * TF
  BY <1>1, <1>2, SlotOrder
<1>4. QED
  BY <1>2, <1>3

LEMMA ExpectedIsWhole ==
  ASSUME CacheAssumption, WorldTypes, NEW r \in Requests, NEW cut, CutOk(r, cut)
  PROVE  Expected(r, cut) = Whole(r)
<1>1. /\ history \subseteq Nat /\ r.start \in Nat /\ r.end \in Nat /\ TF \in Nat /\ Settle \in Nat
      /\ FirstClock \in Nat /\ clock \in Nat
  BY HistoryOpens DEF CacheAssumption
<1>2. CASE program = "confirm"
  <2>1. cut \in Nat /\ IsClosed(r.end, cut)
    BY <1>1, <1>2 DEF CutOk
  <2>2. \A q \in history : q < r.end => IsClosed(q, cut)
    BY <1>1, <2>1 DEF IsClosed
  <2>3. QED
    BY <1>2, <2>2 DEF Expected, Whole
<1>3. CASE program = "sweep"
  BY <1>3 DEF CutOk, Expected, Whole
<1>4. QED
  BY <1>2, <1>3 DEF WorldTypes

-----------------------------------------------------------------------------
(* Paging.                                                                 *)

\* The opens that a request for the page before e brings.
Page(e) == {q \in history : e - PageSize * TF <= q /\ q < e}

LEMMA PageIsBatch ==
  ASSUME CacheAssumption, WorldTypes, NEW e \in Int, e <= clock
  PROVE  /\ FetchKlines(e) = {<<q, IsClosed(q, clock)>> : q \in Page(e)}
         /\ {c[1] : c \in FetchKlines(e)} = Page(e)
         /\ IsFiniteSet(FetchKlines(e)) /\ Cardinality(FetchKlines(e)) \in Nat
         /\ FetchKlines(e) \subseteq Candles
<1> DEFINE low == e - PageSize * TF
<1>1. history \subseteq Nat /\ clock \in Nat /\ history \subseteq Opens
  BY HistoryOpens
<1>2. FetchKlines(e) = {<<q, IsClosed(q, clock)>> : q \in Page(e)}
  BY <1>1 DEF FetchKlines, Page
<1>3. IsFiniteSet(Page(e))
  <2>1. low \in Int
    BY SlotOrder DEF CacheAssumption
  <2>2. \A q \in Page(e) : q \in Nat /\ low <= q /\ q < e
    BY <1>1 DEF Page
  <2> HIDE DEF low
  <2>3. Page(e) \subseteq low..e /\ IsFiniteSet(low..e)
    BY <2>1, <2>2, FS_Interval
  <2>4. QED
    BY <2>3, FS_Subset
<1>4. IsFiniteSet(FetchKlines(e))
  <2> DEFINE f == [q \in Page(e) |-> <<q, IsClosed(q, clock)>>]
  <2>1. f \in Surjection(Page(e), FetchKlines(e))
    BY <1>2 DEF Surjection
  <2>2. QED
    BY <1>3, <2>1, FS_Surjection
<1>5. {c[1] : c \in FetchKlines(e)} = Page(e)
  <2>1. \A q \in Page(e) : <<q, IsClosed(q, clock)>> \in FetchKlines(e)
    BY <1>2
  <2>2. \A c \in FetchKlines(e) : c[1] \in Page(e)
    BY <1>2
  <2>3. \A q \in Page(e) : <<q, IsClosed(q, clock)>>[1] = q
    OBVIOUS
  <2>4. QED
    BY <2>1, <2>2, <2>3, Zenon
<1>6. FetchKlines(e) \subseteq Candles
  <2>1. \A q \in Page(e) : q \in Opens /\ IsClosed(q, clock) \in BOOLEAN
    BY <1>1 DEF Page, IsClosed
  <2>2. QED
    BY <1>2, <2>1 DEF Candles
<1>7. QED
  BY <1>2, <1>4, <1>5, <1>6, FS_CardinalityType

\* Without a wide hole an empty page means that the range is exhausted.
LEMMA EmptyPage ==
  ASSUME CacheAssumption, WorldTypes, NEW r \in Requests, NEW e \in Int, e <= r.end,
         Page(e) = {}, NoWideHole(r)
  PROVE  \A o \in history : r.start <= o => e <= o
<1> DEFINE S == {o \in history : r.start <= o /\ o < e}
<1>1. history \subseteq Nat /\ PageSize * TF \in Int /\ r.start \in Nat /\ r.end \in Nat
  BY HistoryOpens, SlotOrder DEF CacheAssumption
<1>2. SUFFICES ASSUME S # {} PROVE FALSE
  <2>1. \A o \in history : r.start <= o => ~(o < e)
    BY <1>2
  <2>2. QED
    BY <1>1, <2>1
<1>3. S \subseteq Nat /\ (\A o \in S : o <= r.end)
  <2>1. \A o \in S : o \in Nat /\ o < e
    BY <1>1
  <2> HIDE DEF S
  <2>2. QED
    BY <1>1, <2>1
<1>4. Max(S) \in S /\ \A o \in S : o <= Max(S)
  <2> HIDE DEF S
  <2>1. QED
    BY <1>1, <1>2, <1>3, LatestOpen
<1> DEFINE m == Max(S)
<1>5. m \in history /\ r.start <= m /\ m < e /\ \A o \in S : o <= m
  BY <1>4
<1> HIDE DEF m
<1>6. m + PageSize * TF < e
  BY <1>1, <1>5 DEF Page
<1>7. PICK q \in history : m < q /\ q <= m + PageSize * TF
  BY <1>1, <1>5, <1>6 DEF NoWideHole
<1>8. q \in S
  BY <1>1, <1>5, <1>6, <1>7
<1>9. QED
  BY <1>1, <1>5, <1>7, <1>8

\* Slots of a range from e on that the exchange skipped.
Skipped(r, e) == {o \in Slots(r) \ history : e <= o}

\* After this many pages down to e the slots they did not bring were skipped:
\* those of the earlier pages are above e, those of the last one are below it.
Reached(r, e, pages) ==
  \E a, b \in Int :
    /\ e = a * TF /\ b <= a /\ a - b < PageSize
    /\ \A q \in history : b * TF <= q => e <= q
    /\ pages * PageSize <= (r.end \div TF) + 1 - b + Cardinality(Skipped(r, e))

LEMMA SkippedIsFinite ==
  ASSUME CacheAssumption, NEW r \in Requests, NEW e
  PROVE  /\ IsFiniteSet(Slots(r)) /\ IsFiniteSet(Skipped(r, e))
         /\ Cardinality(Skipped(r, e)) \in Nat
<1>1. r.start \in Int /\ r.end - 1 \in Int
  BY DEF CacheAssumption
<1>2. IsFiniteSet(r.start..(r.end - 1))
  BY <1>1, FS_Interval
<1>3. IsFiniteSet(Slots(r))
  BY <1>2, FS_Subset DEF Slots
<1>4. IsFiniteSet(Skipped(r, e))
  BY <1>3, FS_Subset DEF Skipped
<1>5. QED
  BY <1>3, <1>4, FS_CardinalityType

LEMMA FirstReached ==
  ASSUME CacheAssumption, WorldTypes, NEW r \in Requests, NEW e \in Page(r.end),
         \A q \in Page(r.end) : e <= q
  PROVE  Reached(r, e, 1)
<1> DEFINE E == r.end \div TF
           P == PageSize
           n == Cardinality(Skipped(r, e))
<1>1. /\ TF \in Nat \ {0} /\ P \in Nat \ {0} /\ n \in Nat /\ r.end \in Int
      /\ history \subseteq Nat /\ e \in history /\ e \in Int /\ e % TF = 0
  BY SkippedIsFinite, HistoryOpens DEF CacheAssumption, Page
<1>2. PICK a \in Int : e = a * TF
  BY <1>1, HistoryOpens, Division
<1>3. E \in Int /\ E * TF <= r.end /\ r.end < E * TF + TF
  BY <1>1, Division
<1>4. e < r.end /\ r.end - P * TF <= e
  BY DEF Page
<1> HIDE DEF E, P, n
<1>5. a <= E
  <2>1. a * TF < (E + 1) * TF
    BY <1>1, <1>2, <1>3, <1>4
  <2>2. a < E + 1
    BY <1>1, <1>3, <2>1, SlotOrder
  <2>3. QED
    BY <1>3, <2>2
<1>6. E - P <= a
  <2>1. (E - P) * TF <= a * TF
    BY <1>1, <1>2, <1>3, <1>4
  <2>2. ~(a < E - P)
    BY <1>1, <1>3, <2>1, SlotOrder
  <2>3. QED
    BY <1>1, <1>3, <2>2
<1>7. \A q \in history : (E + 1 - P) * TF <= q => e <= q
  <2>1. SUFFICES ASSUME NEW q \in history, (E + 1 - P) * TF <= q, q < r.end
                 PROVE  e <= q
    BY <1>1, <1>4
  <2>2. r.end - P * TF <= q
    BY <1>1, <1>3, <2>1
  <2>3. QED
    BY <2>1, <2>2 DEF Page, P
<1>8. CASE a = E - P
  <2>1. /\ a <= a /\ a - a < P /\ \A q \in history : a * TF <= q => e <= q
        /\ 1 * P <= E + 1 - a + n
    BY <1>1, <1>2, <1>3, <1>8
  <2>2. QED
    BY <1>2, <2>1 DEF Reached, E, P, n
<1>9. CASE a # E - P
  <2>1. /\ E + 1 - P \in Int /\ E + 1 - P <= a /\ a - (E + 1 - P) < P
        /\ 1 * P <= E + 1 - (E + 1 - P) + n
    BY <1>1, <1>3, <1>5, <1>6, <1>9
  <2>2. QED
    BY <1>2, <1>7, <2>1 DEF Reached, E, P, n
<1>10. QED
  BY <1>8, <1>9

LEMMA NextReached ==
  ASSUME CacheAssumption, WorldTypes, NEW r \in Requests, NEW e \in history, e < r.end,
         NEW k \in Nat, Reached(r, e, k),
         NEW d \in Page(e - 1), \A q \in Page(e - 1) : d <= q, r.start < d
  PROVE  Reached(r, d, k + 1)
<1> DEFINE E == r.end \div TF
           P == PageSize
           n == Cardinality(Skipped(r, e))
           m == Cardinality(Skipped(r, d))
<1>1. /\ TF \in Nat \ {0, 1} /\ P \in Nat \ {0} /\ n \in Nat /\ m \in Nat
      /\ r.end \in Int /\ r.start \in Int
      /\ history \subseteq Nat /\ d \in history
      /\ e \in Int /\ d \in Int /\ d % TF = 0
  BY SkippedIsFinite, HistoryOpens DEF CacheAssumption, Page
<1>2. PICK a \in Int, b \in Int :
        /\ e = a * TF /\ b <= a /\ a - b < P
        /\ \A q \in history : b * TF <= q => e <= q
        /\ k * P <= E + 1 - b + n
  BY DEF Reached
<1>3. PICK c \in Int : d = c * TF
  BY <1>1, Division
<1>4. E \in Int
  BY <1>1, Division
<1>5. d < e - 1 /\ e - 1 - P * TF <= d
  BY DEF Page
<1>6. \A q \in history : e - 1 - P * TF <= q /\ q < e - 1 => d <= q
  BY DEF Page
<1>7. m >= n + (a - b)
  <2> DEFINE K == Multiples(TF, b, a - 1)
  <2>1. IsFiniteSet(K) /\ Cardinality(K) = a - b
    <3>1. TF \in Nat \ {0} /\ b \in Int /\ a - 1 \in Int /\ (b > a - 1 => a - b = 0)
      BY <1>1, <1>2
    <3>2. IsFiniteSet(K) /\ Cardinality(K) = IF b > a - 1 THEN 0 ELSE a - 1 - b + 1
      BY <3>1, SlotCount
    <3>3. QED
      BY <1>2, <3>1, <3>2
  <2>2. \A o \in K : o \in Int /\ o < e
    BY <1>1, <1>2 DEF Multiples
  <2>3. K \cap Skipped(r, e) = {}
    <3>1. \A o \in Skipped(r, e) : o \in Int /\ e <= o
      BY <1>1 DEF Skipped, Slots
    <3>2. QED
      BY <1>1, <2>2, <3>1
  <2>4. K \subseteq Skipped(r, d)
    <3>1. SUFFICES ASSUME NEW o \in K
                   PROVE  o \in r.start..(r.end - 1) /\ o % TF = 0 /\ o \notin history /\ d <= o
      BY DEF Skipped, Slots
    <3>2. o \in Int /\ b * TF <= o /\ o < e /\ o % TF = 0
      BY <2>2 DEF Multiples
    <3>3. b * TF \in Int /\ d < b * TF
      BY <1>1, <1>2, <1>5, SlotOrder
    <3>4. QED
      BY <1>1, <1>2, <3>2, <3>3
  <2>5. Skipped(r, e) \subseteq Skipped(r, d)
    <3>1. \A o \in Slots(r) : o \in Int
      BY <1>1 DEF Slots
    <3>2. QED
      BY <1>1, <1>5, <3>1 DEF Skipped
  <2> HIDE DEF K
  <2>6. /\ IsFiniteSet(Skipped(r, e) \cup K)
        /\ Cardinality(Skipped(r, e) \cup K) = n + (a - b) - Cardinality(Skipped(r, e) \cap K)
    BY <2>1, SkippedIsFinite, FS_Union
  <2>7. Cardinality(Skipped(r, e) \cap K) = 0
    BY <2>3, FS_EmptySet
  <2>8. Cardinality(Skipped(r, e) \cup K) <= m
    BY <2>4, <2>5, SkippedIsFinite, FS_Subset
  <2> HIDE DEF n, m
  <2>9. QED
    BY <1>1, <1>2, <2>6, <2>7, <2>8
<1> HIDE DEF E, P, n, m
<1>8. c < a /\ a - P <= c
  <2>1. c * TF < a * TF
    BY <1>1, <1>2, <1>3, <1>5
  <2>2. (a - P - 1) * TF < c * TF
    <3>1. (a - P - 1) * TF = a * TF - P * TF - TF /\ P * TF \in Int
      BY <1>1, <1>2
    <3>2. QED
      BY <1>1, <1>2, <1>3, <1>5, <3>1
  <2>3. QED
    BY <1>1, <1>2, <1>3, <2>1, <2>2, SlotOrder
<1>9. \A q \in history : (a - P) * TF <= q => d <= q
  <2>1. SUFFICES ASSUME NEW q \in history, (a - P) * TF <= q, q < e - 1
                 PROVE  d <= q
    BY <1>1, <1>5
  <2>2. (a - P) * TF = a * TF - P * TF /\ P * TF \in Int
    BY <1>1, <1>2
  <2>3. e - 1 - P * TF <= q
    BY <1>1, <1>2, <2>1, <2>2
  <2>4. QED
    BY <1>6, <2>1, <2>3
<1>10. (k + 1) * P <= E + 1 - (a - P) + m
  <2>1. (k + 1) * P = k * P + P /\ k * P \in Int
    BY <1>1
  <2>2. QED
    BY <1>1, <1>2, <1>4, <1>7, <2>1
<1>11. a - P \in Int /\ a - P <= c /\ c - (a - P) < P
  BY <1>1, <1>2, <1>3, <1>8
<1>12. QED
  BY <1>3, <1>9, <1>10, <1>11 DEF Reached, E, P, m

\* More pages than the bound allows have skipped more than two pages of slots.
LEMMA TooManyPages ==
  ASSUME CacheAssumption, WorldTypes, NEW r \in Requests, NEW e \in history,
         r.start < e, e < r.end, NEW k \in Nat, Reached(r, e, k), MaxPages(r) <= k
  PROVE  Cardinality(Holes(r)) > 2 * PageSize
<1> DEFINE E == r.end \div TF
           P == PageSize
           n == Cardinality(Skipped(r, e))
           Q == (r.end - r.start) \div TF
           R == Q \div P
<1>1. /\ TF \in Nat \ {0} /\ P \in Nat \ {0} /\ n \in Nat
      /\ r.end \in Int /\ r.start \in Int /\ history \subseteq Nat /\ e \in Int
  BY SkippedIsFinite, HistoryOpens DEF CacheAssumption
<1>2. PICK a \in Int, b \in Int : e = a * TF /\ b <= a /\ a - b < P /\ k * P <= E + 1 - b + n
  BY DEF Reached
<1>3. /\ E \in Int /\ E * TF <= r.end
      /\ Q \in Int /\ r.end - r.start < Q * TF + TF
  <2>1. r.end - r.start \in Int
    BY <1>1
  <2>2. E \in Int /\ E * TF <= r.end
    BY <1>1, Division
  <2>3. Q \in Int /\ r.end - r.start < Q * TF + TF
    BY <1>1, <2>1, Division
  <2>4. QED
    BY <2>2, <2>3
<1>4. R \in Int /\ Q < R * P + P
  BY <1>1, <1>3, Division
<1>5. MaxPages(r) = R + 4
  BY DEF MaxPages
<1> HIDE DEF E, P, n, Q, R
<1>6. E - a <= Q
  <2>1. (E - a) * TF = E * TF - a * TF /\ (Q + 1) * TF = Q * TF + TF
    BY <1>1, <1>2, <1>3
  <2>2. (E - a) * TF < (Q + 1) * TF
    <3>1. E * TF \in Int /\ a * TF \in Int /\ Q * TF \in Int
      BY <1>1, <1>2, <1>3
    <3>2. QED
      BY <1>1, <1>2, <1>3, <2>1, <3>1
  <2>3. E - a < Q + 1
    BY <1>1, <1>2, <1>3, <2>2, SlotOrder
  <2>4. QED
    BY <1>2, <1>3, <2>3
<1>7. (R + 4) * P <= k * P
  BY <1>1, <1>4, <1>5
<1>8. n > 2 * P
  <2>1. (R + 4) * P = R * P + 4 * P /\ R * P \in Int /\ k * P \in Int
    BY <1>1, <1>4
  <2>2. QED
    BY <1>1, <1>2, <1>3, <1>4, <1>6, <1>7, <2>1
<1>9. Skipped(r, e) \subseteq Holes(r)
  <2>1. \A o \in Slots(r) : o \in Int
    BY <1>1 DEF Slots
  <2>2. \A o \in Slots(r) \ history : e <= o => e < o
    BY <1>1, <2>1
  <2>3. QED
    BY <2>2 DEF Skipped, Holes
<1>10. IsFiniteSet(Holes(r)) /\ Cardinality(Holes(r)) \in Nat
  BY SkippedIsFinite, FS_Subset, FS_CardinalityType DEF Holes
<1>11. n <= Cardinality(Holes(r))
  BY <1>9, <1>10, FS_Subset DEF n
<1>12. QED
  BY <1>1, <1>8, <1>10, <1>11 DEF P

-----------------------------------------------------------------------------
(* The inductive invariant.                                                *)

Provs == [req : Requests, dups : {0}, sha256 : SUBSET Candles]

Loads ==
  [pc : {"idle", "probe", "read", "fetch", "write", "rename", "stamp", "stamping", "served",
         "failed"},
   req : Requests \cup {None}, cut : Nat, cursor : Int, pages : Nat, raw : Nat,
   got : SUBSET Candles, dups : Int, seen : Provs \cup {None},
   why : {None, "lost", "pages", "fetch", "short", "io", "quality"}]

\* A provenance describes a content that is whole, and is not empty.
GoodProv(v) == v \in Provs /\ v.sha256 # {} /\ Content(v.req, v.sha256)

\* The candles of a request down to the cursor have been fetched, each of them
\* final if the cut asks for it; of an exchange that heeds the end of a request,
\* each of them once.  One that does not heed it goes on with the same page.
PagingInv(l) ==
  LET r == l.req IN
  /\ \A c \in l.got : c[1] \in history /\ c[1] < r.end /\ (IsClosed(c[1], l.cut) => c[2])
  /\ IF l.pages = 0 THEN l.cursor = r.end /\ l.got = {} /\ l.raw = 0
     ELSE l.cursor + 1 \in history /\ r.start < l.cursor + 1 /\ l.cursor + 1 < r.end
  /\ paginates =>
       /\ IsFiniteSet(l.got) /\ l.raw = Cardinality(l.got)
       /\ \A c \in l.got : l.cursor < c[1]
       /\ \A q \in history : l.cursor <= q /\ q < r.end => \E c \in l.got : c[1] = q
       /\ l.pages > 0 => Reached(r, l.cursor + 1, l.pages)
  /\ ~paginates /\ l.pages > 0 => Page(r.end) # {} /\ \A q \in Page(r.end) : r.start < q

\* Why a load fails, FailsForCause.
Cause(l) ==
  \/ errors > 0
  \/ /\ l.why = "pages"
     /\ ~paginates \/ Cardinality(Holes(l.req)) > 2 * PageSize
  \/ /\ l.why = "short"
     /\ NoWideHole(l.req) => Cardinality(Expected(l.req, l.req.end)) < Window + 2
  \/ /\ l.why = "quality"
     /\ ~({l.req.start} \cup Slots(l.req) \subseteq history)

OpensOf(cs) == {c[1] : c \in cs}

GoodLoad(l) ==
  /\ l.pc # "idle" => l.req \in Requests /\ l.req.end <= clock /\ CutOk(l.req, l.cut)
  /\ l.pc \in {"probe", "read", "fetch"} => PagingInv(l)
  /\ l.pc = "read" => GoodProv(l.seen) /\ l.seen.req = l.req /\ (csv = None => errors > 0)
  /\ l.pc \in {"write", "rename", "stamp", "stamping"} => Content(l.req, l.got) /\ l.dups = 0
  /\ l.pc \in {"rename", "stamp", "stamping"} => l.got # {}
  /\ l.pc = "served" => /\ Content(l.req, l.got)
                        /\ program = "confirm" => OpensOf(l.got) = Slots(l.req)
  /\ l.pc = "failed" => Cause(l)

GoodCsv ==
  csv # None => \E r \in Requests : \E cut \in Nat : CutOk(r, cut) /\ Content(r, csv)

CacheInv ==
  /\ WorldTypes /\ errors \in Nat
  /\ load \in [Loaders -> Loads]
  /\ \A p \in Loaders : GoodLoad(load[p])
  /\ GoodCsv
  /\ prov \notin {None, Torn} => GoodProv(prov)

-----------------------------------------------------------------------------
(* What is fetched, counted and checked.                                   *)

LEMMA WholeIsFinite ==
  ASSUME CacheAssumption, WorldTypes, NEW r \in Requests
  PROVE  IsFiniteSet(Whole(r)) /\ Whole(r) \subseteq Candles
<1> DEFINE O == {q \in history : /\ r.start <= q /\ q < r.end
                                 /\ program = "sweep" => IsClosed(q, r.end)}
           f == [q \in O |-> <<q, TRUE>>]
<1>1. history \subseteq Nat /\ history \subseteq Opens /\ r.start \in Nat /\ r.end \in Nat
  BY HistoryOpens DEF CacheAssumption
<1>2. O \subseteq r.start..r.end /\ IsFiniteSet(r.start..r.end)
  <2>1. \A q \in O : q \in Nat /\ r.start <= q /\ q < r.end
    BY <1>1
  <2> HIDE DEF O
  <2>2. O \subseteq r.start..r.end
    BY <1>1, <2>1
  <2>3. r.start \in Int /\ r.end \in Int
    BY <1>1
  <2>4. QED
    BY <2>2, <2>3, FS_Interval
<1>3. IsFiniteSet(O)
  BY <1>2, FS_Subset
<1>4. Whole(r) = {<<q, TRUE>> : q \in O}
  BY DEF Whole
<1>5. \A q \in O : q \in Opens
  BY <1>1
<1> HIDE DEF O
<1>6. f \in Surjection(O, Whole(r))
  BY <1>4 DEF Surjection
<1>7. IsFiniteSet(Whole(r))
  BY <1>3, <1>6, FS_Surjection
<1>8. \A q \in O : <<q, TRUE>> \in Candles
  BY <1>5 DEF Candles
<1>9. QED
  BY <1>4, <1>7, <1>8

LEMMA ContentIsFinite ==
  ASSUME CacheAssumption, WorldTypes, NEW r \in Requests, NEW cs, Content(r, cs)
  PROVE  /\ IsFiniteSet(cs) /\ cs \in SUBSET Candles
         /\ OpensOf(cs) \subseteq Slots(r) /\ OpensOf(cs) \subseteq history
<1>1. cs \subseteq Whole(r) /\ IsFiniteSet(cs) /\ cs \in SUBSET Candles
  BY WholeIsFinite, FS_Subset DEF Content
<1>2. history \subseteq Nat /\ r.start \in Nat /\ r.end \in Nat /\ \A o \in history : o % TF = 0
  BY HistoryOpens DEF CacheAssumption
<1>3. \A c \in Whole(r) : c[1] \in history /\ c[1] \in Slots(r)
  <2>1. \A q \in history : r.start <= q /\ q < r.end => q \in Slots(r)
    BY <1>2 DEF Slots
  <2>2. \A c \in Whole(r) : c[1] \in history /\ r.start <= c[1] /\ c[1] < r.end
    <3>1. SUFFICES ASSUME NEW c \in Whole(r)
                   PROVE  c[1] \in history /\ r.start <= c[1] /\ c[1] < r.end
      OBVIOUS
    <3>2. PICK q \in history : c = <<q, TRUE>> /\ r.start <= q /\ q < r.end
      BY DEF Whole
    <3>3. QED
      BY <3>2
  <2>3. QED
    BY <2>1, <2>2
<1>4. QED
  BY <1>1, <1>3 DEF OpensOf

\* A range without slots is empty, a whole one is counted by its ends.
LEMMA SlotsOfRange ==
  ASSUME CacheAssumption, NEW r \in Requests, r.start % TF = 0
  PROVE  \E a, b \in Int : /\ r.start = a * TF
                           /\ b * TF < r.end /\ r.end <= b * TF + TF
                           /\ Slots(r) = Multiples(TF, a, b)
<1>1. TF \in Nat \ {0} /\ r.start \in Int /\ r.end \in Int /\ r.end - 1 \in Int
  BY DEF CacheAssumption
<1>2. PICK a \in Int : r.start = a * TF
  BY <1>1, Division
<1>3. PICK b \in Int : b * TF <= r.end - 1 /\ r.end - 1 < b * TF + TF
  <2> DEFINE z == r.end - 1
  <2>1. z \in Int
    BY <1>1
  <2>2. z \div TF \in Int /\ (z \div TF) * TF <= z /\ z < (z \div TF) * TF + TF
    <3> HIDE DEF z
    <3>1. QED
      BY <1>1, <2>1, Division
  <2>3. QED
    BY <2>2
<1>4. b * TF \in Int /\ b * TF < r.end /\ r.end <= b * TF + TF
  BY <1>1, <1>3, SlotOrder
<1>5. \A o \in Int : o % TF = 0 => (o < r.end <=> o <= b * TF)
  <2>1. SUFFICES ASSUME NEW o \in Int, o % TF = 0, o < r.end
                 PROVE  o <= b * TF
    BY <1>1, <1>4
  <2>2. PICK i \in Int : o = i * TF
    BY <1>1, <2>1, Division
  <2>3. ~(b < i)
    BY <1>1, <1>4, <2>1, <2>2, SlotOrder
  <2>4. i < b \/ i = b
    BY <2>3
  <2>5. QED
    BY <1>1, <2>2, <2>4, SlotOrder
<1>6. Slots(r) = Multiples(TF, a, b)
  <2>1. \A o : o \in Slots(r) <=> o \in Int /\ o % TF = 0 /\ r.start <= o /\ o < r.end
    BY <1>1 DEF Slots
  <2>2. \A o : o \in Multiples(TF, a, b) <=> o \in Int /\ o % TF = 0 /\ r.start <= o /\ o <= b * TF
    BY <1>2 DEF Multiples
  <2>3. QED
    BY <1>5, <2>1, <2>2
<1>7. QED
  BY <1>2, <1>4, <1>6

\* The confirmation accepts every slot of its range, and no less.
LEMMA QualityIsComplete ==
  ASSUME CacheAssumption, WorldTypes, NEW v, NEW r \in Requests, v.req = r, NEW cs,
         Content(r, cs), Quality(v, cs)
  PROVE  OpensOf(cs) = Slots(r)
<1> DEFINE O == OpensOf(cs)
<1>1. /\ TF \in Nat \ {0} /\ r.start \in Int /\ r.end \in Int
      /\ O \subseteq Slots(r) /\ O \subseteq Nat /\ O # {}
      /\ \A o \in O : o % TF = 0 /\ o <= r.end
  <2>1. \A o \in Slots(r) : o \in Int /\ o % TF = 0 /\ o <= r.end
    BY DEF Slots, CacheAssumption
  <2>2. O \subseteq Slots(r) /\ O \subseteq history /\ history \subseteq Nat
    BY ContentIsFinite, HistoryOpens
  <2>3. PICK c \in cs : TRUE
    BY DEF Quality
  <2>4. c[1] \in O
    BY <2>3 DEF OpensOf
  <2>5. QED
    BY <2>1, <2>2, <2>4 DEF CacheAssumption
<1>2. /\ (Max(O) - Min(O)) \div TF + 1 - Cardinality(O) = 0
      /\ Min(O) = r.start /\ Max(O) >= r.end - TF
  BY DEF Quality, MissingCandles, OpensOf
<1>3. r.end \in Nat
  BY DEF CacheAssumption
<1>4. Max(O) \in O /\ Min(O) \in O /\ \A o \in O : o <= Max(O)
  <2> HIDE DEF O
  <2>1. QED
    BY <1>1, <1>3, LatestOpen, LeastOpen
<1> HIDE DEF O
<1>5. PICK a \in Int, b \in Int : /\ r.start = a * TF
                                  /\ b * TF < r.end /\ r.end <= b * TF + TF
                                  /\ Slots(r) = Multiples(TF, a, b)
  BY <1>1, <1>2, <1>4, SlotsOfRange
<1>6. PICK m \in Int : Max(O) = m * TF
  <2>1. \A o \in O : o \in Int /\ o % TF = 0
    BY <1>1
  <2>2. Max(O) \in Int /\ Max(O) % TF = 0
    BY <1>4, <2>1
  <2>3. QED
    BY <1>1, <2>2, Division
<1>7. m = b
  <2>1. \A o \in Multiples(TF, a, b) : o <= b * TF
    BY DEF Multiples
  <2>2. m * TF <= b * TF
    BY <1>1, <1>4, <1>5, <1>6, <2>1
  <2>3. b * TF \in Int /\ m * TF \in Int /\ (b - 1) * TF = b * TF - TF
    BY <1>1
  <2>4. (b - 1) * TF < m * TF
    BY <1>1, <1>2, <1>5, <1>6, <2>3
  <2>5. QED
    BY <1>1, <2>2, <2>4, SlotOrder
<1>8. Cardinality(O) = b - a + 1
  <2>1. (b - a) * TF = b * TF - a * TF
    BY <1>1
  <2>2. (b * TF - a * TF) \div TF = b - a
    BY <1>1, <2>1, SlotOrder
  <2>3. (b - a) + 1 - Cardinality(O) = 0
    BY <1>2, <1>5, <1>6, <1>7, <2>2
  <2>4. Cardinality(O) \in Nat
    BY <1>1, SkippedIsFinite, FS_Subset, FS_CardinalityType
  <2>5. QED
    BY <2>3, <2>4
<1>9. a <= b
  <2>1. ~(b * TF < a * TF)
    BY <1>1, <1>2, <1>4, <1>5, <1>6, <1>7
  <2>2. QED
    BY <1>1, <2>1, SlotOrder
<1>10. Cardinality(Slots(r)) = b - a + 1 /\ IsFiniteSet(Slots(r))
  <2>1. /\ IsFiniteSet(Multiples(TF, a, b))
        /\ Cardinality(Multiples(TF, a, b)) = IF a > b THEN 0 ELSE b - a + 1
    BY <1>1, SlotCount
  <2>2. ~(a > b)
    BY <1>9
  <2>3. QED
    BY <1>5, <2>1, <2>2
<1>11. QED
  BY <1>1, <1>8, <1>10, FS_Subset DEF O

\* What has every slot of a range, and the range a first one, is accepted.
LEMMA CompleteHasQuality ==
  ASSUME CacheAssumption, WorldTypes, program = "confirm",
         NEW r \in Requests, NEW v, v.req = r, v.dups = 0, NEW cs, cs # {},
         Content(r, cs), {r.start} \cup Slots(r) \subseteq history
  PROVE  Quality(v, cs)
<1> DEFINE O == OpensOf(cs)
<1>1. /\ TF \in Nat \ {0} /\ r.start \in Nat /\ r.end \in Nat /\ history \subseteq Nat
      /\ r.start % TF = 0 /\ \A o \in history : o % TF = 0
      /\ PageSize * TF \in Int /\ TF <= PageSize * TF
  <2>1. 1 <= PageSize => 1 * TF <= PageSize * TF
    BY SlotOrder DEF CacheAssumption
  <2>2. QED
    BY <2>1, HistoryOpens DEF CacheAssumption
<1>2. NoWideHole(r)
  <2>1. SUFFICES ASSUME NEW o \in history, r.start <= o, o < r.end, o + PageSize * TF < r.end
                 PROVE  \E q \in history : o < q /\ q <= o + PageSize * TF
    BY <1>1 DEF NoWideHole
  <2>2. PICK i \in Int : o = i * TF
    <3>1. o \in Int /\ o % TF = 0
      BY <1>1
    <3>2. QED
      BY <1>1, <3>1, Division
  <2>3. (i + 1) * TF = o + TF
    BY <1>1, <2>2
  <2>4. (o + TF) % TF = 0
    BY <1>1, <2>2, <2>3, SlotOrder
  <2>5. o + TF \in Slots(r)
    BY <1>1, <2>1, <2>4 DEF Slots
  <2>6. QED
    BY <1>1, <2>5
<1>3. O = Slots(r)
  <2>1. cs = Whole(r)
    BY <1>2 DEF Content
  <2>2. \A o \in Slots(r) : o \in history /\ r.start <= o /\ o < r.end
    BY <1>1 DEF Slots
  <2>3. \A o \in Slots(r) : <<o, TRUE>> \in cs /\ <<o, TRUE>>[1] = o
    BY <2>1, <2>2 DEF Whole
  <2>4. \A o \in Slots(r) : o \in O
    BY <2>3, Zenon DEF OpensOf
  <2>5. QED
    BY <2>4, ContentIsFinite
<1>4. O # {} /\ O \subseteq Nat
  <2>1. PICK c \in cs : TRUE
    OBVIOUS
  <2>2. QED
    BY <1>1, <1>3, <2>1 DEF OpensOf
<1> HIDE DEF O
<1>5. PICK a \in Int, b \in Int : /\ r.start = a * TF
                                  /\ b * TF < r.end /\ r.end <= b * TF + TF
                                  /\ Slots(r) = Multiples(TF, a, b)
  BY <1>1, SlotsOfRange
<1>6. a <= b /\ b * TF \in O /\ a * TF \in O
  <2>1. PICK o \in O : a * TF <= o /\ o <= b * TF
    BY <1>3, <1>4, <1>5 DEF Multiples
  <2>2. ~(b * TF < a * TF)
    BY <1>1, <1>4, <1>5, <2>1
  <2>3. a <= b /\ a * TF <= b * TF
    BY <1>1, <2>2, SlotOrder
  <2>4. /\ a * TF \in Int /\ (a * TF) % TF = 0
        /\ b * TF \in Int /\ (b * TF) % TF = 0
    BY <1>1, SlotOrder
  <2>5. QED
    BY <1>1, <1>3, <1>5, <2>3, <2>4 DEF Multiples
<1>7. \A o \in O : a * TF <= o /\ o <= b * TF
  BY <1>3, <1>5 DEF Multiples
<1>8. Min(O) = a * TF /\ Max(O) = b * TF
  <2>1. Min(O) \in O /\ \A o \in O : Min(O) <= o
    BY <1>4, LeastOpen
  <2>2. Max(O) \in O /\ \A o \in O : o <= Max(O)
    <3>1. \A o \in O : o <= r.end
      BY <1>1, <1>4, <1>5, <1>6, <1>7
    <3>2. QED
      BY <1>1, <1>4, <3>1, LatestOpen
  <2>3. Min(O) \in Int /\ Max(O) \in Int /\ a * TF \in Int /\ b * TF \in Int
    <3>1. \A o \in O : o \in Int
      BY <1>4
    <3>2. QED
      BY <1>6, <2>1, <2>2, <3>1
  <2>4. Min(O) <= a * TF /\ a * TF <= Min(O)
    BY <1>6, <1>7, <2>1
  <2>5. Max(O) <= b * TF /\ b * TF <= Max(O)
    BY <1>6, <1>7, <2>2
  <2>6. QED
    BY <2>3, <2>4, <2>5
<1>9. (Max(O) - Min(O)) \div TF + 1 - Cardinality(O) = 0
  <2>1. (b - a) * TF = b * TF - a * TF
    BY <1>1
  <2>2. (b * TF - a * TF) \div TF = b - a
    BY <1>1, <2>1, SlotOrder
  <2>3. Cardinality(O) = b - a + 1
    <3>1. /\ IsFiniteSet(Multiples(TF, a, b))
          /\ Cardinality(Multiples(TF, a, b)) = IF a > b THEN 0 ELSE b - a + 1
      BY <1>1, SlotCount
    <3>2. ~(a > b)
      BY <1>6
    <3>3. QED
      BY <1>3, <1>5, <3>1, <3>2
  <2>4. QED
    BY <1>8, <2>2, <2>3
<1>10. Min(O) = r.start /\ Max(O) >= r.end - TF
  BY <1>1, <1>4, <1>5, <1>6, <1>8
<1>11. QED
  BY <1>9, <1>10 DEF Quality, MissingCandles, O, OpensOf

-----------------------------------------------------------------------------
(* The pages of a load.                                                    *)

\* What FetchPage asks for, and its answer.
Asked(l) == IF paginates THEN l.cursor ELSE l.req.end
Batch(l) == FetchKlines(Asked(l))
Ends(l) == Batch(l) = {} \/ Min(OpensOf(Batch(l))) <= l.req.start
Repeats(l) == (l.raw + Cardinality(Batch(l))) - Cardinality(l.got \cup Batch(l))

LEMMA BatchOfLoad ==
  ASSUME CacheAssumption, WorldTypes, NEW l \in Loads, l.pc = "fetch", GoodLoad(l)
  PROVE  /\ Asked(l) \in Int /\ Asked(l) <= l.req.end
         /\ ~paginates /\ l.pages = 0 => Asked(l) = l.cursor
         /\ l.req \in Requests /\ l.req.start \in Nat /\ l.req.end \in Nat /\ l.req.end <= clock
         /\ Batch(l) = {<<q, IsClosed(q, clock)>> : q \in Page(Asked(l))}
         /\ OpensOf(Batch(l)) = Page(Asked(l))
         /\ IsFiniteSet(Batch(l)) /\ Cardinality(Batch(l)) \in Nat /\ Batch(l) \subseteq Candles
         /\ Batch(l) = {} <=> Page(Asked(l)) = {}
         /\ Page(Asked(l)) \subseteq Nat /\ \A q \in Page(Asked(l)) : q \in history /\ q < Asked(l)
<1>1. /\ l.req \in Requests /\ l.req.start \in Nat /\ l.req.end \in Nat /\ l.req.end <= clock
      /\ clock \in Nat /\ l.cursor \in Int /\ history \subseteq Nat
  BY HistoryOpens DEF GoodLoad, CacheAssumption, Loads
<1>2. /\ l.pages = 0 => l.cursor = l.req.end
      /\ l.pages # 0 => l.cursor + 1 < l.req.end
  BY DEF GoodLoad, PagingInv
<1>3. /\ Asked(l) \in Int /\ Asked(l) <= l.req.end /\ Asked(l) <= clock
      /\ ~paginates /\ l.pages = 0 => Asked(l) = l.cursor
  BY <1>1, <1>2 DEF Asked
<1>4. /\ Batch(l) = {<<q, IsClosed(q, clock)>> : q \in Page(Asked(l))}
      /\ OpensOf(Batch(l)) = Page(Asked(l))
      /\ IsFiniteSet(Batch(l)) /\ Cardinality(Batch(l)) \in Nat /\ Batch(l) \subseteq Candles
  BY <1>3, PageIsBatch DEF Batch, OpensOf
<1>5. Batch(l) = {} <=> Page(Asked(l)) = {}
  BY <1>4
<1>6. Page(Asked(l)) \subseteq Nat /\ \A q \in Page(Asked(l)) : q \in history /\ q < Asked(l)
  BY <1>1 DEF Page
<1>7. QED
  BY <1>1, <1>3, <1>4, <1>5, <1>6

\* What a page brings is of the history, and final when the cut wants it.
LEMMA BatchIsFinal ==
  ASSUME CacheAssumption, WorldTypes, NEW l \in Loads, l.pc = "fetch", GoodLoad(l),
         NEW c \in l.got \cup Batch(l)
  PROVE  c[1] \in history /\ c[1] < l.req.end /\ (IsClosed(c[1], l.cut) => c[2])
<1>1. CASE c \in l.got
  BY <1>1 DEF GoodLoad, PagingInv
<1>2. CASE c \in Batch(l)
  <2>1. PICK q \in Page(Asked(l)) : c = <<q, IsClosed(q, clock)>>
    BY <1>2, BatchOfLoad
  <2>2. q \in history /\ q \in Nat /\ q < l.req.end
    BY BatchOfLoad
  <2>3. l.cut \in Nat /\ l.cut <= clock /\ clock \in Nat
    BY HistoryOpens, BatchOfLoad DEF GoodLoad, CutOk, Loads, CacheAssumption
  <2>4. IsClosed(q, l.cut) => IsClosed(q, clock)
    BY <2>2, <2>3 DEF IsClosed, CacheAssumption
  <2>5. QED
    BY <2>1, <2>2, <2>4
<1>3. QED
  BY <1>1, <1>2

\* An exchange that ignores the end of a request ends a load with its first page.
LEMMA EndsAtOnce ==
  ASSUME CacheAssumption, WorldTypes, NEW l \in Loads, l.pc = "fetch", GoodLoad(l), Ends(l)
  PROVE  /\ paginates \/ l.pages = 0
         /\ Asked(l) = l.cursor
<1>1. ASSUME ~paginates, l.pages # 0
      PROVE  FALSE
  <2>1. Asked(l) = l.req.end
    BY <1>1 DEF Asked
  <2>2. l.pages > 0
    BY <1>1 DEF Loads
  <2>3. Page(l.req.end) # {} /\ \A q \in Page(l.req.end) : l.req.start < q
    BY <1>1, <2>2 DEF GoodLoad, PagingInv
  <2>4. Min(Page(l.req.end)) \in Page(l.req.end) /\ Page(l.req.end) \subseteq Nat
    BY <2>1, <2>3, BatchOfLoad, LeastOpen
  <2>5. Min(Page(l.req.end)) <= l.req.start
    BY <2>1, <2>3, BatchOfLoad DEF Ends
  <2>6. Min(Page(l.req.end)) \in Nat /\ l.req.start < Min(Page(l.req.end))
    BY <2>3, <2>4
  <2>7. QED
    BY <2>5, <2>6, BatchOfLoad
<1>2. QED
  BY <1>1, BatchOfLoad DEF Asked

\* No candle of the request is left below the last page.
LEMMA NothingLeft ==
  ASSUME CacheAssumption, WorldTypes, NEW l \in Loads, l.pc = "fetch", GoodLoad(l), Ends(l),
         NoWideHole(l.req), NEW q \in history, l.req.start <= q, q < l.req.end
  PROVE  \E c \in l.got \cup Batch(l) : c[1] = q
<1>1. /\ q \in Nat /\ l.cursor \in Int /\ Asked(l) = l.cursor /\ PageSize * TF \in Int
      /\ l.req.start \in Nat /\ l.req.end \in Nat
  BY HistoryOpens, BatchOfLoad, EndsAtOnce, SlotOrder DEF Loads, CacheAssumption
<1>2. CASE l.cursor <= q
  <2>1. paginates
    BY <1>1, <1>2, EndsAtOnce DEF GoodLoad, PagingInv
  <2>2. QED
    BY <1>2, <2>1 DEF GoodLoad, PagingInv
<1>3. CASE q < l.cursor
  <2>1. Page(l.cursor) # {}
    BY <1>1, <1>3, BatchOfLoad, EmptyPage
  <2>2. Min(Page(l.cursor)) \in Page(l.cursor)
    BY <1>1, <2>1, BatchOfLoad, LeastOpen
  <2>3. Min(Page(l.cursor)) <= l.req.start
    BY <1>1, <2>1, BatchOfLoad DEF Ends
  <2>4. \A m \in Page(l.cursor) : m \in Nat /\ l.cursor - PageSize * TF <= m
    BY <1>1, BatchOfLoad DEF Page
  <2>5. l.cursor - PageSize * TF <= q
    BY <1>1, <2>2, <2>3, <2>4
  <2>6. q \in OpensOf(Batch(l))
    BY <1>1, <1>3, <2>5, BatchOfLoad DEF Page
  <2>7. QED
    BY <2>6 DEF OpensOf
<1>4. QED
  BY <1>1, <1>2, <1>3

\* What the last page leaves is the content of the request, without duplicates.
LEMMA LastPage ==
  ASSUME CacheAssumption, WorldTypes, NEW l \in Loads, l.pc = "fetch", GoodLoad(l), Ends(l)
  PROVE  /\ Content(l.req, Clean(l.got \cup Batch(l), l.req, l.cut))
         /\ Repeats(l) = 0
<1> DEFINE r == l.req
           all == l.got \cup Batch(l)
           cs == Clean(all, r, l.cut)
<1>1. /\ r \in Requests /\ r.start \in Nat /\ r.end \in Nat /\ l.cursor \in Int /\ l.cut \in Nat
      /\ history \subseteq Nat /\ Asked(l) = l.cursor /\ CutOk(r, l.cut)
      /\ all \subseteq Opens \X BOOLEAN
  BY HistoryOpens, BatchOfLoad, EndsAtOnce DEF GoodLoad, Loads, Candles
<1>2. \A c \in all : c[1] \in history /\ c[1] < r.end /\ (IsClosed(c[1], l.cut) => c[2])
  BY BatchIsFinal
<1>3. Whole(r) = Expected(r, l.cut)
  BY <1>1, ExpectedIsWhole
<1>4. cs \subseteq Whole(r)
  <2>1. SUFFICES ASSUME NEW c \in all, r.start <= c[1], IsClosed(c[1], l.cut)
                 PROVE  c \in Expected(r, l.cut)
    BY <1>3 DEF Clean, RetainRange
  <2>2. c = <<c[1], c[2]>> /\ c[2] \in BOOLEAN
    BY <1>1, <2>1
  <2>3. c = <<c[1], TRUE>>
    BY <1>2, <2>1, <2>2
  <2>4. QED
    BY <1>2, <2>1, <2>3 DEF Expected
<1>5. ASSUME NoWideHole(r)
      PROVE  Whole(r) \subseteq cs
  <2>1. SUFFICES ASSUME NEW q \in history, r.start <= q, q < r.end, IsClosed(q, l.cut)
                 PROVE  <<q, TRUE>> \in cs
    BY <1>3 DEF Expected
  <2>2. PICK c \in all : c[1] = q
    BY <1>5, <2>1, NothingLeft
  <2>3. c = <<c[1], c[2]>> /\ c[2] \in BOOLEAN
    BY <1>1
  <2>4. c = <<q, TRUE>>
    BY <1>2, <2>1, <2>2, <2>3
  <2>5. QED
    BY <1>1, <2>1, <2>2, <2>4 DEF Clean, RetainRange
<1>6. Content(r, cs)
  BY <1>4, <1>5 DEF Content
<1>7. IsFiniteSet(l.got) /\ l.raw = Cardinality(l.got) /\ l.got \cap Batch(l) = {}
  <2>1. CASE l.pages = 0
    BY <2>1, FS_EmptySet DEF GoodLoad, PagingInv
  <2>2. CASE l.pages # 0
    <3>1. paginates
      BY <2>2, EndsAtOnce
    <3>2. \A c \in l.got : l.cursor < c[1]
      BY <3>1 DEF GoodLoad, PagingInv
    <3>3. \A c \in Batch(l) : c[1] < l.cursor /\ c[1] \in Nat
      BY <1>1, BatchOfLoad DEF OpensOf
    <3>4. l.got \cap Batch(l) = {}
      BY <1>1, <3>2, <3>3
    <3>5. QED
      BY <3>1, <3>4 DEF GoodLoad, PagingInv
  <2>3. QED
    BY <2>1, <2>2
<1>8. (l.raw + Cardinality(Batch(l))) - Cardinality(all) = 0
  <2>1. Cardinality(all) = Cardinality(l.got) + Cardinality(Batch(l)) - Cardinality(l.got \cap Batch(l))
    BY <1>7, BatchOfLoad, FS_Union
  <2>2. Cardinality(l.got \cap Batch(l)) = 0
    BY <1>7, FS_EmptySet
  <2>3. Cardinality(l.got) \in Nat /\ Cardinality(Batch(l)) \in Nat
    BY <1>7, BatchOfLoad, FS_CardinalityType
  <2> HIDE DEF all
  <2>4. QED
    BY <1>7, <2>1, <2>2, <2>3
<1>9. QED
  BY <1>6, <1>8 DEF Repeats

\* The earliest open of a page that does not end the paging.
LEMMA Earliest ==
  ASSUME CacheAssumption, WorldTypes, NEW l \in Loads, l.pc = "fetch", GoodLoad(l), ~Ends(l)
  PROVE  LET e == Min(OpensOf(Batch(l))) IN
         /\ e \in Page(Asked(l)) /\ \A q \in Page(Asked(l)) : e <= q
         /\ e \in Nat /\ e \in history /\ l.req.start < e /\ e < l.req.end /\ e < Asked(l)
         /\ \A q \in Page(Asked(l)) : l.req.start < q
<1> DEFINE e == Min(OpensOf(Batch(l)))
<1>1. OpensOf(Batch(l)) = Page(Asked(l)) /\ Page(Asked(l)) # {} /\ Page(Asked(l)) \subseteq Nat
  BY BatchOfLoad DEF Ends
<1>2. e \in Page(Asked(l)) /\ \A q \in Page(Asked(l)) : e <= q
  BY <1>1, LeastOpen
<1>3. ~(e <= l.req.start)
  BY DEF Ends
<1> HIDE DEF e
<1>4. e \in Nat /\ e \in history /\ e < Asked(l)
  BY <1>1, <1>2, BatchOfLoad
<1>5. l.req.start < e /\ e < l.req.end
  BY <1>3, <1>4, BatchOfLoad
<1>6. \A q \in Page(Asked(l)) : l.req.start < q
  BY <1>1, <1>2, <1>4, <1>5, BatchOfLoad
<1>7. QED
  BY <1>2, <1>4, <1>5, <1>6 DEF e

\* The page before the last one, fetched and counted.
LEMMA NextPage ==
  ASSUME CacheAssumption, WorldTypes, NEW l \in Loads, l.pc = "fetch", GoodLoad(l), ~Ends(l),
         NEW n, n = [l EXCEPT !.pages = @ + 1, !.got = l.got \cup Batch(l),
                              !.raw = l.raw + Cardinality(Batch(l)),
                              !.cursor = Min(OpensOf(Batch(l))) - 1]
  PROVE  n \in Loads /\ n.pc = "fetch" /\ n.req = l.req /\ n.cut = l.cut /\ PagingInv(n)
<1> DEFINE e == Min(OpensOf(Batch(l)))
           r == l.req
           all == l.got \cup Batch(l)
<1>1. /\ e \in Page(Asked(l)) /\ \A q \in Page(Asked(l)) : e <= q
      /\ e \in Nat /\ e \in history /\ r.start < e /\ e < r.end /\ e < Asked(l)
      /\ \A q \in Page(Asked(l)) : r.start < q
  BY Earliest
<1> HIDE DEF e
<1>2. /\ n.pages = l.pages + 1 /\ n.got = all /\ n.raw = l.raw + Cardinality(Batch(l))
      /\ n.cursor = e - 1 /\ n.req = r /\ n.cut = l.cut /\ n.pc = "fetch"
  BY DEF Loads, e
<1>3. n \in Loads
  <2>1. n = [l EXCEPT !.pages = @ + 1, !.got = all, !.raw = l.raw + Cardinality(Batch(l)),
                      !.cursor = e - 1]
    BY DEF e
  <2>2. /\ all \in SUBSET Candles /\ e - 1 \in Int /\ l.pages + 1 \in Nat
        /\ l.raw + Cardinality(Batch(l)) \in Nat
    BY <1>1, BatchOfLoad DEF Loads
  <2> HIDE DEF all
  <2>3. QED
    BY <2>1, <2>2 DEF Loads
<1>4. \A c \in all : c[1] \in history /\ c[1] < r.end /\ (IsClosed(c[1], l.cut) => c[2])
  BY BatchIsFinal
<1>5. l.pages \in Nat /\ n.pages > 0 /\ n.pages # 0 /\ n.cursor + 1 = e /\ n.cursor \in Int
  BY <1>1, <1>2 DEF Loads
<1>6. ASSUME paginates
      PROVE  /\ IsFiniteSet(all) /\ n.raw = Cardinality(all)
             /\ \A c \in all : n.cursor < c[1]
             /\ \A q \in history : n.cursor <= q /\ q < r.end => \E c \in all : c[1] = q
             /\ Reached(r, e, n.pages)
  <2>1. Asked(l) = l.cursor /\ l.cursor \in Int /\ r \in Requests /\ history \subseteq Nat
    BY <1>6, HistoryOpens, BatchOfLoad DEF Asked, Loads
  <2>2. /\ IsFiniteSet(l.got) /\ l.raw = Cardinality(l.got)
        /\ \A c \in l.got : c[1] \in history /\ l.cursor < c[1]
        /\ \A q \in history : l.cursor <= q /\ q < r.end => \E c \in l.got : c[1] = q
        /\ l.pages > 0 => Reached(r, l.cursor + 1, l.pages)
    BY <1>6 DEF GoodLoad, PagingInv
  <2>3. \A c \in Batch(l) : c[1] \in Page(l.cursor)
    BY <2>1, BatchOfLoad DEF OpensOf
  <2>4. \A q \in Page(l.cursor) : q \in Nat /\ q < l.cursor /\ e <= q
    BY <1>1, <2>1, BatchOfLoad
  <2>5. l.got \cap Batch(l) = {}
    BY <2>1, <2>2, <2>3, <2>4
  <2>6. IsFiniteSet(all) /\ n.raw = Cardinality(all)
    <3>1. /\ IsFiniteSet(all)
          /\ Cardinality(all) = Cardinality(l.got) + Cardinality(Batch(l))
                                - Cardinality(l.got \cap Batch(l))
      BY <2>2, BatchOfLoad, FS_Union
    <3>2. Cardinality(l.got \cap Batch(l)) = 0
      BY <2>5, FS_EmptySet
    <3>3. Cardinality(l.got) \in Nat /\ Cardinality(Batch(l)) \in Nat
      BY <2>2, BatchOfLoad, FS_CardinalityType
    <3> HIDE DEF all
    <3>4. QED
      BY <1>2, <2>2, <3>1, <3>2, <3>3
  <2>7. \A c \in all : n.cursor < c[1]
    <3>1. \A c \in Batch(l) : n.cursor < c[1]
      BY <1>1, <1>2, <2>3, <2>4
    <3>2. \A c \in l.got : n.cursor < c[1]
      <4>1. n.cursor < l.cursor
        BY <1>1, <1>2, <2>1
      <4>2. QED
        BY <1>5, <2>1, <2>2, <4>1
    <3>3. QED
      BY <3>1, <3>2
  <2>8. ASSUME NEW q \in history, n.cursor <= q, q < r.end
        PROVE  \E c \in all : c[1] = q
    <3>1. CASE l.cursor <= q
      BY <2>2, <2>8, <3>1
    <3>2. CASE q < l.cursor
      <4>1. /\ q \in Nat /\ q % TF = 0 /\ e % TF = 0 /\ TF \in Nat \ {0, 1}
            /\ PageSize * TF \in Int
        BY <1>1, HistoryOpens, SlotOrder DEF CacheAssumption
      <4>2. ~(q < e)
        <5>1. q < e => q + TF <= e
          BY <1>1, <4>1, OpensApart
        <5>2. QED
          BY <1>1, <1>2, <2>8, <4>1, <5>1
      <4>3. l.cursor - PageSize * TF <= e
        BY <1>1, <2>1 DEF Page
      <4>4. l.cursor - PageSize * TF <= q
        BY <1>1, <2>1, <4>1, <4>2, <4>3
      <4>5. q \in OpensOf(Batch(l))
        BY <2>1, <3>2, <4>4, BatchOfLoad DEF Page
      <4>6. QED
        BY <4>5 DEF OpensOf
    <3>3. QED
      BY <2>1, <3>1, <3>2
  <2>9. Reached(r, e, n.pages)
    <3>1. CASE l.pages = 0
      <4>1. l.cursor = r.end
        BY <3>1 DEF GoodLoad, PagingInv
      <4>2. Reached(r, e, 1)
        BY <1>1, <2>1, <4>1, FirstReached
      <4>3. QED
        BY <1>2, <3>1, <4>2
    <3>2. CASE l.pages # 0
      <4> DEFINE d == l.cursor + 1
      <4>1. d \in history /\ d < r.end /\ l.pages > 0
        BY <1>5, <3>2 DEF GoodLoad, PagingInv
      <4>2. Reached(r, d, l.pages) /\ d - 1 = l.cursor
        BY <2>1, <2>2, <4>1
      <4> HIDE DEF d
      <4>3. e \in Page(d - 1) /\ \A q \in Page(d - 1) : e <= q
        BY <1>1, <2>1, <4>2
      <4>4. Reached(r, e, l.pages + 1)
        BY <1>1, <1>5, <2>1, <4>1, <4>2, <4>3, NextReached
      <4>5. QED
        BY <1>2, <4>4
    <3>3. QED
      BY <3>1, <3>2
  <2>10. QED
    BY <2>6, <2>7, <2>8, <2>9
<1>7. ASSUME ~paginates
      PROVE  Page(r.end) # {} /\ \A q \in Page(r.end) : r.start < q
  BY <1>1, <1>7 DEF Asked
<1>8. PagingInv(n)
  BY <1>1, <1>2, <1>4, <1>5, <1>6, <1>7 DEF PagingInv
<1>9. QED
  BY <1>2, <1>3, <1>8

\* What stops a load that goes over the bound.
LEMMA PageBound ==
  ASSUME CacheAssumption, WorldTypes, NEW l \in Loads, l.pc = "fetch", GoodLoad(l),
         l.pages + 1 > MaxPages(l.req)
  PROVE  ~paginates \/ Cardinality(Holes(l.req)) > 2 * PageSize
<1>1. SUFFICES ASSUME paginates
               PROVE  Cardinality(Holes(l.req)) > 2 * PageSize
  OBVIOUS
<1> DEFINE r == l.req
           R == ((r.end - r.start) \div TF) \div PageSize
<1>2. /\ r \in Requests /\ r.start \in Nat /\ r.end \in Nat /\ r.start <= r.end
      /\ l.pages \in Nat /\ TF \in Nat \ {0} /\ PageSize \in Nat \ {0}
  BY BatchOfLoad DEF Loads, CacheAssumption
<1>3. R \in Nat
  <2>1. r.end - r.start \in Nat
    BY <1>2
  <2>2. (r.end - r.start) \div TF \in Nat
    BY <1>2, <2>1
  <2>3. QED
    BY <1>2, <2>2
<1>4. MaxPages(r) = R + 4
  BY DEF MaxPages
<1> HIDE DEF R
<1>5. l.pages # 0 /\ l.pages > 0 /\ MaxPages(r) <= l.pages
  BY <1>2, <1>3, <1>4
<1>6. l.cursor + 1 \in history /\ r.start < l.cursor + 1 /\ l.cursor + 1 < r.end
  BY <1>5 DEF GoodLoad, PagingInv
<1>7. Reached(r, l.cursor + 1, l.pages)
  BY <1>1, <1>5 DEF GoodLoad, PagingInv
<1>8. QED
  BY <1>2, <1>5, <1>6, <1>7, TooManyPages

-----------------------------------------------------------------------------
(* The steps.                                                              *)

\* A load stays good while others work: the clock and the errors only grow, and
\* the CSV is only removed with an error.
Onward ==
  /\ UNCHANGED <<program, history, paginates>>
  /\ WorldTypes' /\ clock <= clock'
  /\ errors' \in Nat /\ errors <= errors'
  /\ csv' = None => csv = None \/ errors' > 0

LEMMA SameWorld ==
  ASSUME UNCHANGED <<program, history, paginates>>
  PROVE  /\ \A r : NoWideHole(r)' <=> NoWideHole(r)
         /\ \A r : Whole(r)' = Whole(r)
         /\ \A r, cs : Content(r, cs)' <=> Content(r, cs)
         /\ \A v : GoodProv(v)' <=> GoodProv(v)
         /\ \A r, cut : Expected(r, cut)' = Expected(r, cut)
         /\ \A r : Slots(r)' = Slots(r) /\ Holes(r)' = Holes(r)
         /\ \A e : Page(e)' = Page(e)
         /\ \A r, e, k : Reached(r, e, k)' <=> Reached(r, e, k)
<1>1. \A r : NoWideHole(r)' <=> NoWideHole(r)
  BY DEF NoWideHole
<1>2. \A r : Whole(r)' = Whole(r)
  BY DEF Whole, IsClosed
<1>3. \A r, cs : Content(r, cs)' <=> Content(r, cs)
  BY <1>1, <1>2 DEF Content
<1>4. \A v : GoodProv(v)' <=> GoodProv(v)
  BY <1>3 DEF GoodProv, Provs, Candles, Opens
<1>5. \A r, cut : Expected(r, cut)' = Expected(r, cut)
  BY DEF Expected, IsClosed
<1>6. \A r : Slots(r)' = Slots(r) /\ Holes(r)' = Holes(r)
  BY DEF Slots, Holes
<1>7. \A e : Page(e)' = Page(e)
  BY DEF Page
<1>8. \A r, e, k : Reached(r, e, k)' <=> Reached(r, e, k)
  BY DEF Reached, Skipped, Slots
<1>9. QED
  BY <1>1, <1>2, <1>3, <1>4, <1>5, <1>6, <1>7, <1>8

LEMMA Kept ==
  ASSUME CacheAssumption, WorldTypes, errors \in Nat, Onward, NEW l \in Loads, GoodLoad(l)
  PROVE  GoodLoad(l)'
<1>1. UNCHANGED <<program, history, paginates>>
  BY DEF Onward
<1>2. clock \in Nat /\ clock' \in Nat /\ clock <= clock' /\ FirstClock \in Nat /\ MaxClock \in Nat
  BY DEF WorldTypes, Onward, CacheAssumption
<1>3. l.pc # "idle" => l.req \in Requests /\ l.req.end <= clock' /\ CutOk(l.req, l.cut)'
  <2>1. ASSUME l.pc # "idle"
        PROVE  l.req \in Requests /\ l.req.end \in Nat /\ l.req.end <= clock /\ CutOk(l.req, l.cut)
    BY <2>1 DEF GoodLoad, CacheAssumption
  <2>2. ASSUME l.pc # "idle"
        PROVE  l.req.end <= clock' /\ CutOk(l.req, l.cut)'
    BY <1>1, <1>2, <2>1, <2>2 DEF CutOk, IsClosed
  <2>3. QED
    BY <2>1, <2>2
<1>4. l.pc \in {"probe", "read", "fetch"} => PagingInv(l)'
  <2>1. PagingInv(l)' <=> PagingInv(l)
    BY <1>1, SameWorld DEF PagingInv, IsClosed
  <2>2. QED
    BY <2>1 DEF GoodLoad
<1>5. l.pc = "read" => GoodProv(l.seen)' /\ l.seen.req = l.req /\ (csv' = None => errors' > 0)
  BY <1>1, SameWorld DEF GoodLoad, Onward
<1>6. /\ l.pc \in {"write", "rename", "stamp", "stamping"} => Content(l.req, l.got)' /\ l.dups = 0
      /\ l.pc \in {"rename", "stamp", "stamping"} => l.got # {}
      /\ l.pc = "served" => /\ Content(l.req, l.got)'
                            /\ program' = "confirm" => OpensOf(l.got) = Slots(l.req)'
  BY <1>1, SameWorld DEF GoodLoad
<1>7. l.pc = "failed" => Cause(l)'
  <2>1. errors > 0 => errors' > 0
    BY DEF Onward
  <2>2. Cause(l) => Cause(l)'
    BY <1>1, <2>1, SameWorld DEF Cause
  <2>3. QED
    BY <2>2 DEF GoodLoad
<1>8. QED
  BY <1>3, <1>4, <1>5, <1>6, <1>7 DEF GoodLoad, OpensOf

LEMMA LoadStep ==
  ASSUME CacheAssumption, CacheInv, Onward, NEW p \in Loaders, NEW n \in Loads,
         load' = [load EXCEPT ![p] = n], GoodLoad(n)',
         GoodCsv', (prov \notin {None, Torn} => GoodProv(prov))'
  PROVE  CacheInv'
<1>1. load \in [Loaders -> Loads] /\ WorldTypes /\ errors \in Nat /\ \A q \in Loaders : GoodLoad(load[q])
  BY DEF CacheInv
<1>2. Loads' = Loads
  BY DEF Loads, Provs, Candles, Opens
<1>3. load' \in [Loaders -> Loads]
  BY <1>1
<1>4. \A l \in Loads : GoodLoad(l) => GoodLoad(l)'
  BY <1>1, Kept
<1>5. \A q \in Loaders : GoodLoad(load[q])'
  <2>1. SUFFICES ASSUME NEW q \in Loaders
                 PROVE  GoodLoad(load[q])'
    OBVIOUS
  <2>2. CASE q = p
    BY <1>1, <2>2
  <2>3. CASE q # p
    <3>1. load'[q] = load[q] /\ load[q] \in Loads
      BY <1>1, <2>3
    <3>2. PICK l \in Loads : l = load[q]
      BY <3>1
    <3>3. GoodLoad(l)'
      BY <1>1, <1>4, <3>2
    <3>4. QED
      BY <3>1, <3>2, <3>3
  <2>4. QED
    BY <2>2, <2>3
<1>6. QED
  BY <1>2, <1>3, <1>5 DEF CacheInv, Onward

\* The CSV and the provenance stay good while they stay.
LEMMA DiskKept ==
  ASSUME CacheAssumption, CacheInv, Onward
  PROVE  /\ csv' = csv => GoodCsv'
         /\ prov' = prov => (prov \notin {None, Torn} => GoodProv(prov))'
<1>1. UNCHANGED <<program, history, paginates>>
  BY DEF Onward
<1>2. clock \in Nat /\ clock' \in Nat /\ clock <= clock' /\ FirstClock \in Nat
  BY DEF CacheInv, WorldTypes, Onward, CacheAssumption
<1>3. \A r, cut : CutOk(r, cut) => CutOk(r, cut)'
  BY <1>1, <1>2 DEF CutOk, IsClosed
<1>4. csv' = csv => GoodCsv'
  BY <1>1, <1>3, SameWorld DEF CacheInv, GoodCsv
<1>5. prov' = prov => (prov \notin {None, Torn} => GoodProv(prov))'
  BY <1>1, SameWorld DEF CacheInv
<1>6. QED
  BY <1>4, <1>5

LEMMA AtWork ==
  ASSUME CacheAssumption, CacheInv, NEW p \in Loaders
  PROVE  /\ WorldTypes /\ errors \in Nat /\ load \in [Loaders -> Loads]
         /\ load[p] \in Loads /\ GoodLoad(load[p])
  BY DEF CacheInv

LEMMA StillOnward ==
  ASSUME CacheAssumption, CacheInv, UNCHANGED World, errors' \in Nat, errors <= errors',
         csv' = None => csv = None \/ errors' > 0
  PROVE  Onward
<1>1. WorldTypes' /\ clock \in Nat /\ clock <= clock'
  BY HistoryOpens DEF CacheInv, WorldTypes, World
<1>2. QED
  BY <1>1 DEF Onward, World

\* A step of one load that leaves the files alone.
LEMMA QuietStep ==
  ASSUME CacheAssumption, CacheInv, NEW p \in Loaders, NEW n \in Loads, GoodLoad(n),
         load' = [load EXCEPT ![p] = n], UNCHANGED <<csv, prov>>, UNCHANGED World,
         UNCHANGED errors
  PROVE  CacheInv'
<1>1. WorldTypes /\ errors \in Nat
  BY DEF CacheInv
<1>2. Onward
  BY <1>1, StillOnward
<1>3. GoodLoad(n)'
  BY <1>1, <1>2, Kept
<1>4. QED
  BY <1>2, <1>3, DiskKept, LoadStep

LEMMA FailedLoad ==
  ASSUME CacheAssumption, CacheInv, NEW p \in Loaders, load[p].pc # "idle",
         NEW w \in {"lost", "pages", "fetch", "short", "io", "quality"},
         NEW n, n = [load[p] EXCEPT !.pc = "failed", !.why = w]
  PROVE  /\ n \in Loads /\ n.why = w /\ n.req = load[p].req
         /\ Cause(n) => GoodLoad(n)
         /\ Onward /\ errors' > 0 => GoodLoad(n)'
<1>1. PICK l \in Loads : l = load[p] /\ GoodLoad(l) /\ l.pc # "idle"
  BY AtWork
<1>2. n \in Loads /\ n.pc = "failed" /\ n.why = w /\ n.req = l.req /\ n.cut = l.cut
  BY <1>1 DEF Loads
<1>3. Cause(n) => GoodLoad(n)
  BY <1>1, <1>2 DEF GoodLoad
<1>4. ASSUME Onward, errors' > 0
      PROVE  GoodLoad(n)'
  <2>1. GoodLoad(l)'
    BY <1>1, <1>4, Kept DEF CacheInv
  <2>2. Cause(n)'
    BY <1>4 DEF Cause
  <2>3. QED
    BY <1>1, <1>2, <2>1, <2>2 DEF GoodLoad
<1>5. QED
  BY <1>1, <1>2, <1>3, <1>4

\* A step in which a load fails with an error.
LEMMA ErrorStep ==
  ASSUME CacheAssumption, CacheInv, NEW p \in Loaders, load[p].pc # "idle", Error,
         NEW w \in {"fetch", "io"}, Fail(p, w), UNCHANGED World, UNCHANGED prov,
         csv' \in {csv, None}
  PROVE  CacheInv'
<1>1. /\ WorldTypes /\ errors \in Nat /\ load \in [Loaders -> Loads]
      /\ load[p] \in Loads /\ GoodLoad(load[p])
  BY AtWork
<1>2. errors' \in Nat /\ errors <= errors' /\ errors' > 0
  BY <1>1 DEF Error
<1>3. Onward
  BY <1>2, StillOnward
<1>4. PICK n : n = [load[p] EXCEPT !.pc = "failed", !.why = w]
  OBVIOUS
<1>5. n \in Loads /\ GoodLoad(n)'
  <2>1. w \in {"lost", "pages", "fetch", "short", "io", "quality"}
    OBVIOUS
  <2>2. n \in Loads /\ (Onward /\ errors' > 0 => GoodLoad(n)')
    BY <1>1, <1>4, <2>1, FailedLoad
  <2>3. QED
    BY <1>2, <1>3, <2>2
<1>6. load' = [load EXCEPT ![p] = n]
  BY <1>4 DEF Fail, Set
<1>7. GoodCsv'
  <2>1. CASE csv' = csv
    BY <1>3, <2>1, DiskKept
  <2>2. CASE csv' = None
    BY <2>2 DEF GoodCsv
  <2>3. QED
    BY <2>1, <2>2
<1>8. QED
  BY <1>3, <1>5, <1>6, <1>7, DiskKept, LoadStep

\* What Served makes of a provenance and the content it describes.
LEMMA ServedLoad ==
  ASSUME CacheAssumption, CacheInv, NEW p \in Loaders, load[p].pc # "idle",
         NEW v, GoodProv(v), v.req = load[p].req,
         NEW n, n = Served(p, v, v.sha256)
  PROVE  n \in Loads /\ GoodLoad(n)
<1> DEFINE r == load[p].req
           cs == v.sha256
<1>1. /\ WorldTypes /\ load[p] \in Loads /\ GoodLoad(load[p])
      /\ r \in Requests /\ r.end <= clock /\ CutOk(r, load[p].cut)
  BY AtWork DEF GoodLoad
<1>2. v \in Provs /\ v.dups = 0 /\ cs \in SUBSET Candles /\ cs # {} /\ Content(r, cs)
  BY DEF GoodProv, Provs
<1>3. CASE program = "confirm" /\ ~Quality(v, cs)
  <2>1. n = [load[p] EXCEPT !.pc = "failed", !.why = "quality"]
    BY <1>3 DEF Served
  <2>2. n \in Loads /\ n.why = "quality" /\ n.req = r /\ (Cause(n) => GoodLoad(n))
    BY <1>1, <2>1, FailedLoad
  <2>3. ~({r.start} \cup Slots(r) \subseteq history)
    BY <1>1, <1>2, <1>3, CompleteHasQuality
  <2>4. Cause(n)
    BY <2>2, <2>3 DEF Cause
  <2>5. QED
    BY <2>2, <2>4
<1>4. CASE ~(program = "confirm" /\ ~Quality(v, cs))
  <2>1. n = [load[p] EXCEPT !.pc = "served", !.got = cs, !.seen = v]
    BY <1>4 DEF Served
  <2>2. n \in Loads
    BY <1>1, <1>2, <2>1 DEF Loads
  <2>3. n.pc = "served" /\ n.got = cs /\ n.req = r /\ n.cut = load[p].cut
    BY <1>1, <2>1 DEF Loads
  <2>4. program = "confirm" => OpensOf(cs) = Slots(r)
    BY <1>1, <1>2, <1>4, QualityIsComplete
  <2>5. GoodLoad(n)
    BY <1>1, <1>2, <2>3, <2>4 DEF GoodLoad
  <2>6. QED
    BY <2>2, <2>5
<1>5. QED
  BY <1>3, <1>4

\* A load that has not asked for a page yet.
LEMMA FreshPaging ==
  ASSUME NEW l, l.pages = 0, l.cursor = l.req.end, l.got = {}, l.raw = 0,
         CacheAssumption, WorldTypes, l.req \in Requests
  PROVE  PagingInv(l)
<1>1. history \subseteq Nat /\ l.req.end \in Nat
  BY HistoryOpens DEF CacheAssumption
<1>2. IsFiniteSet({}) /\ Cardinality({}) = 0
  BY FS_EmptySet
<1>3. \A q \in history : ~(l.cursor <= q /\ q < l.req.end)
  BY <1>1
<1>4. QED
  BY <1>2, <1>3 DEF PagingInv

LEMMA StartKeeps ==
  ASSUME CacheAssumption, CacheInv, NEW p \in Loaders, NEW r \in Requests,
         NEW refresh \in BOOLEAN, Start(p, r, refresh)
  PROVE  CacheInv'
<1>1. WorldTypes /\ load \in [Loaders -> Loads] /\ load[p] \in Loads
  BY AtWork
<1>2. r.end <= clock /\ (program = "confirm" => IsClosed(r.end, clock)) /\ r.end \in Nat
      /\ clock \in FirstClock..clock /\ clock \in Nat
  BY <1>1, HistoryOpens DEF Start, CacheAssumption, WorldTypes
<1>3. PICK n : n = [Idle EXCEPT !.pc = IF refresh THEN "fetch" ELSE "probe",
                                !.req = r, !.cursor = r.end,
                                !.cut = IF program = "confirm" THEN clock ELSE r.end]
  OBVIOUS
<1>4. /\ n \in Loads /\ n.pc \in {"fetch", "probe"} /\ n.req = r /\ n.cursor = r.end
      /\ n.cut = (IF program = "confirm" THEN clock ELSE r.end)
      /\ n.pages = 0 /\ n.raw = 0 /\ n.got = {}
  <2>1. n = [pc |-> IF refresh THEN "fetch" ELSE "probe", req |-> r,
             cut |-> IF program = "confirm" THEN clock ELSE r.end, cursor |-> r.end, pages |-> 0,
             raw |-> 0, got |-> {}, dups |-> 0, seen |-> None, why |-> None]
    BY <1>3 DEF Idle
  <2>2. /\ (IF refresh THEN "fetch" ELSE "probe") \in {"fetch", "probe"}
        /\ (IF program = "confirm" THEN clock ELSE r.end) \in Nat /\ r.end \in Int
        /\ {} \in SUBSET Candles
    BY <1>2
  <2>3. QED
    BY <2>1, <2>2 DEF Loads
<1>5. CutOk(r, n.cut)
  BY <1>2, <1>4 DEF CutOk
<1>6. PagingInv(n)
  BY <1>1, <1>4, FreshPaging
<1>7. GoodLoad(n)
  BY <1>2, <1>4, <1>5, <1>6 DEF GoodLoad
<1>8. /\ load' = [load EXCEPT ![p] = n] /\ UNCHANGED <<csv, prov>> /\ UNCHANGED World
      /\ UNCHANGED errors
  BY <1>3 DEF Start, Set, Disk, Faults
<1>9. QED
  BY <1>4, <1>7, <1>8, QuietStep

LEMMA ProbeKeeps ==
  ASSUME CacheAssumption, CacheInv, NEW p \in Loaders, Probe(p)
  PROVE  CacheInv'
<1>1. /\ WorldTypes /\ load \in [Loaders -> Loads] /\ load[p] \in Loads /\ GoodLoad(load[p])
      /\ load[p].pc = "probe"
  BY AtWork DEF Probe
<1>2. PICK n : n = IF csv # None /\ CacheMatches(load[p].req)
                   THEN [load[p] EXCEPT !.pc = "read", !.seen = prov]
                   ELSE [load[p] EXCEPT !.pc = "fetch"]
  OBVIOUS
<1>3. n \in Loads /\ GoodLoad(n)
  <2>1. CASE csv # None /\ CacheMatches(load[p].req)
    <3>1. n = [load[p] EXCEPT !.pc = "read", !.seen = prov]
      BY <1>2, <2>1
    <3>2. GoodProv(prov) /\ prov.req = load[p].req /\ prov \in Provs
      BY <2>1 DEF CacheInv, CacheMatches, GoodProv
    <3>3. n \in Loads
      BY <1>1, <3>1, <3>2 DEF Loads
    <3>4. /\ n.pc = "read" /\ n.seen = prov /\ n.req = load[p].req /\ n.cut = load[p].cut
          /\ n.cursor = load[p].cursor /\ n.pages = load[p].pages
          /\ n.got = load[p].got /\ n.raw = load[p].raw
      BY <1>1, <3>1 DEF Loads
    <3>5. PagingInv(n)
      BY <1>1, <3>4 DEF GoodLoad, PagingInv
    <3>6. QED
      BY <1>1, <2>1, <3>2, <3>3, <3>4, <3>5 DEF GoodLoad
  <2>2. CASE ~(csv # None /\ CacheMatches(load[p].req))
    <3>1. n = [load[p] EXCEPT !.pc = "fetch"]
      BY <1>2, <2>2
    <3>2. /\ n \in Loads /\ n.pc = "fetch" /\ n.req = load[p].req /\ n.cut = load[p].cut
          /\ n.cursor = load[p].cursor /\ n.pages = load[p].pages
          /\ n.got = load[p].got /\ n.raw = load[p].raw
      BY <1>1, <3>1 DEF Loads
    <3>3. PagingInv(n)
      BY <1>1, <3>2 DEF GoodLoad, PagingInv
    <3>4. QED
      BY <1>1, <3>2, <3>3 DEF GoodLoad
  <2>3. QED
    BY <2>1, <2>2
<1>4. /\ load' = [load EXCEPT ![p] = n] /\ UNCHANGED <<csv, prov>> /\ UNCHANGED World
      /\ UNCHANGED errors
  BY <1>2 DEF Probe, Set, Disk, Faults
<1>5. QED
  BY <1>3, <1>4, QuietStep

LEMMA ReadCacheKeeps ==
  ASSUME CacheAssumption, CacheInv, NEW p \in Loaders, ReadCache(p)
  PROVE  CacheInv'
<1> DEFINE v == load[p].seen
           cs == RetainRange(csv, load[p].req)
<1>1. /\ WorldTypes /\ load \in [Loaders -> Loads] /\ load[p] \in Loads /\ GoodLoad(load[p])
      /\ load[p].pc = "read" /\ GoodProv(v) /\ v.req = load[p].req
      /\ csv = None => errors > 0
  BY AtWork DEF ReadCache, GoodLoad
<1>2. UNCHANGED <<csv, prov>> /\ UNCHANGED World /\ UNCHANGED errors
  BY DEF ReadCache, Disk, Faults
<1>3. CASE csv = None
  <2>1. PICK n : n = [load[p] EXCEPT !.pc = "failed", !.why = "lost"]
    OBVIOUS
  <2>2. n \in Loads /\ GoodLoad(n)
    BY <1>1, <1>3, <2>1, FailedLoad DEF Cause
  <2>3. load' = [load EXCEPT ![p] = n]
    BY <1>3, <2>1 DEF ReadCache, Fail, Set
  <2>4. QED
    BY <1>2, <2>2, <2>3, QuietStep
<1>4. CASE csv # None /\ cs = v.sha256
  <2>1. PICK n : n = Served(p, v, v.sha256)
    OBVIOUS
  <2>2. n \in Loads /\ GoodLoad(n)
    BY <1>1, <2>1, ServedLoad
  <2>3. load' = [load EXCEPT ![p] = n]
    BY <1>4, <2>1 DEF ReadCache, Set
  <2>4. QED
    BY <1>2, <2>2, <2>3, QuietStep
<1>5. CASE csv # None /\ cs # v.sha256
  <2>1. PICK n : n = [load[p] EXCEPT !.pc = "fetch", !.seen = None]
    OBVIOUS
  <2>2. /\ n \in Loads /\ n.pc = "fetch" /\ n.req = load[p].req /\ n.cut = load[p].cut
        /\ n.cursor = load[p].cursor /\ n.pages = load[p].pages
        /\ n.got = load[p].got /\ n.raw = load[p].raw
    BY <1>1, <2>1 DEF Loads
  <2>3. PagingInv(n)
    BY <1>1, <2>2 DEF GoodLoad, PagingInv
  <2>4. GoodLoad(n)
    BY <1>1, <2>2, <2>3 DEF GoodLoad
  <2>5. load' = [load EXCEPT ![p] = n]
    BY <1>5, <2>1 DEF ReadCache, Set
  <2>6. QED
    BY <1>2, <2>2, <2>4, <2>5, QuietStep
<1>6. QED
  BY <1>3, <1>4, <1>5

LEMMA FetchPageKeeps ==
  ASSUME CacheAssumption, CacheInv, NEW p \in Loaders, FetchPage(p)
  PROVE  CacheInv'
<1> DEFINE all == load[p].got \cup Batch(load[p])
           raw == load[p].raw + Cardinality(Batch(load[p]))
           over == Batch(load[p]) # {} /\ load[p].pages + 1 > MaxPages(load[p].req)
<1>1. /\ WorldTypes /\ load \in [Loaders -> Loads] /\ load[p] \in Loads /\ GoodLoad(load[p])
      /\ load[p].pc = "fetch"
  BY AtWork DEF FetchPage
<1>2. UNCHANGED <<csv, prov>> /\ UNCHANGED World /\ UNCHANGED errors
  BY DEF FetchPage, Disk, Faults
<1>3. CASE over
  <2>1. PICK n : n = [load[p] EXCEPT !.pc = "failed", !.why = "pages"]
    OBVIOUS
  <2>2. ~paginates \/ Cardinality(Holes(load[p].req)) > 2 * PageSize
    BY <1>1, <1>3, PageBound
  <2>3. n \in Loads /\ n.why = "pages" /\ n.req = load[p].req /\ (Cause(n) => GoodLoad(n))
    BY <1>1, <2>1, FailedLoad
  <2>4. GoodLoad(n)
    BY <2>2, <2>3 DEF Cause
  <2>5. load' = [load EXCEPT ![p] = n]
    BY <1>3, <2>1 DEF FetchPage, Fail, Set, Batch, Asked
  <2>6. QED
    BY <1>2, <2>3, <2>4, <2>5, QuietStep
<1>4. CASE ~over /\ Ends(load[p])
  <2> DEFINE cs == Clean(all, load[p].req, load[p].cut)
             more == Repeats(load[p])
  <2>1. Content(load[p].req, cs) /\ more = 0 /\ load[p].req \in Requests
    <3>1. PICK l \in Loads : l = load[p] /\ Ends(l) /\ GoodLoad(l) /\ l.pc = "fetch"
      BY <1>1, <1>4
    <3>2. /\ Content(l.req, Clean(l.got \cup Batch(l), l.req, l.cut))
          /\ Repeats(l) = 0 /\ l.req \in Requests
      BY <1>1, <3>1, LastPage, BatchOfLoad
    <3>3. QED
      BY <3>1, <3>2
  <2>2. load' = [load EXCEPT ![p] = [load[p] EXCEPT !.pc = "write", !.got = cs, !.dups = more]]
    BY <1>4 DEF FetchPage, Set, Ends, OpensOf, Batch, Asked, Repeats
  <2> HIDE DEF cs, more
  <2>3. cs \in SUBSET Candles /\ more \in Int
    BY <1>1, <2>1, ContentIsFinite
  <2>4. PICK n : n = [load[p] EXCEPT !.pc = "write", !.got = cs, !.dups = more]
    OBVIOUS
  <2>5. n \in Loads
    BY <1>1, <2>3, <2>4 DEF Loads
  <2>6. /\ n.pc = "write" /\ n.got = cs /\ n.dups = 0
        /\ n.req = load[p].req /\ n.cut = load[p].cut
    BY <1>1, <2>1, <2>4 DEF Loads
  <2>7. GoodLoad(n)
    BY <1>1, <2>1, <2>6 DEF GoodLoad
  <2>8. QED
    BY <1>2, <2>2, <2>4, <2>5, <2>7, QuietStep
<1>5. CASE ~over /\ ~Ends(load[p])
  <2>1. PICK n : n = [load[p] EXCEPT !.pages = @ + 1, !.got = all, !.raw = raw,
                                     !.cursor = Min(OpensOf(Batch(load[p]))) - 1]
    OBVIOUS
  <2>2. /\ n \in Loads /\ n.pc = "fetch" /\ n.req = load[p].req /\ n.cut = load[p].cut
        /\ PagingInv(n)
    BY <1>1, <1>5, <2>1, NextPage
  <2>3. GoodLoad(n)
    BY <1>1, <2>2 DEF GoodLoad
  <2>4. load' = [load EXCEPT ![p] = n]
    BY <1>3, <1>5, <2>1 DEF FetchPage, Set, Ends, OpensOf, Batch, Asked
  <2>5. QED
    BY <1>2, <2>2, <2>3, <2>4, QuietStep
<1>6. QED
  BY <1>3, <1>4, <1>5

LEMMA WriteTempKeeps ==
  ASSUME CacheAssumption, CacheInv, NEW p \in Loaders, WriteTemp(p)
  PROVE  CacheInv'
<1> DEFINE r == load[p].req
           S == {c \in load[p].got : IsClosed(c[1], r.end)}
<1>1. /\ WorldTypes /\ load \in [Loaders -> Loads] /\ load[p] \in Loads /\ GoodLoad(load[p])
      /\ load[p].pc = "write" /\ load[p].pc # "idle" /\ r \in Requests /\ Content(r, load[p].got) /\ load[p].dups = 0
  BY AtWork DEF WriteTemp, GoodLoad
<1>2. UNCHANGED <<csv, prov>> /\ UNCHANGED World /\ UNCHANGED errors
  BY DEF WriteTemp, Disk, Faults
<1>3. IsFiniteSet(load[p].got) /\ load[p].got \in SUBSET Candles
  BY <1>1, ContentIsFinite
<1>4. CASE LoadsCsv(load[p].got, r.end)
  <2>1. PICK n : n = [load[p] EXCEPT !.pc = "rename"]
    OBVIOUS
  <2>2. load[p].got # {}
    <3>1. SUFFICES ASSUME load[p].got = {}
                   PROVE  FALSE
      OBVIOUS
    <3>2. S = {}
      BY <3>1
    <3>3. Cardinality(S) = 0
      BY <3>2, FS_EmptySet
    <3>4. 0 >= Window + 2
      BY <1>4, <3>3 DEF LoadsCsv, Validates
    <3>5. QED
      BY <3>4 DEF CacheAssumption
  <2>3. /\ n \in Loads /\ n.pc = "rename" /\ n.got = load[p].got /\ n.dups = load[p].dups
        /\ n.req = r /\ n.cut = load[p].cut
    BY <1>1, <2>1 DEF Loads
  <2>4. GoodLoad(n)
    BY <1>1, <2>2, <2>3 DEF GoodLoad
  <2>5. load' = [load EXCEPT ![p] = n]
    BY <1>4, <2>1 DEF WriteTemp, Set
  <2>6. QED
    BY <1>2, <2>3, <2>4, <2>5, QuietStep
<1>5. CASE ~LoadsCsv(load[p].got, r.end)
  <2>1. PICK n : n = [load[p] EXCEPT !.pc = "failed", !.why = "short"]
    OBVIOUS
  <2>2. n \in Loads /\ n.why = "short" /\ n.req = load[p].req /\ (Cause(n) => GoodLoad(n))
    <3>1. load[p].pc # "idle"
      BY <1>1
    <3>2. QED
      BY <2>1, <3>1, FailedLoad
  <2>3. ASSUME NoWideHole(r)
        PROVE  Cardinality(Expected(r, r.end)) < Window + 2
    <3>1. load[p].got = Whole(r)
      BY <1>1, <2>3 DEF Content
    <3>2. S = Expected(r, r.end)
      <4>1. ASSUME NEW c \in S
            PROVE  c \in Expected(r, r.end)
        <5>1. c \in Whole(r) /\ IsClosed(c[1], r.end)
          BY <3>1
        <5>2. PICK q \in history : c = <<q, TRUE>> /\ r.start <= q /\ q < r.end
          BY <5>1 DEF Whole
        <5>3. IsClosed(q, r.end)
          BY <5>1, <5>2
        <5>4. QED
          BY <5>2, <5>3 DEF Expected
      <4>2. ASSUME NEW c \in Expected(r, r.end)
            PROVE  c \in S
        <5>1. PICK q \in history : /\ c = <<q, TRUE>> /\ r.start <= q /\ q < r.end
                                   /\ IsClosed(q, r.end)
          BY DEF Expected
        <5>2. c \in Whole(r)
          BY <5>1 DEF Whole
        <5>3. c[1] = q
          BY <5>1
        <5>4. QED
          BY <3>1, <5>1, <5>2, <5>3
      <4> HIDE DEF S
      <4>3. QED
        BY <4>1, <4>2
    <3>3. load[p].got # None
      BY <1>3, MarksAssumption
    <3>4. ~(Cardinality(S) >= Window + 2)
      BY <1>5, <3>3 DEF LoadsCsv, Validates
    <3>5. Cardinality(S) \in Nat
      <4>1. IsFiniteSet(S)
        BY <1>3, FS_Subset
      <4> HIDE DEF S
      <4>2. QED
        BY <4>1, FS_CardinalityType
    <3> HIDE DEF S
    <3>6. QED
      BY <3>2, <3>4, <3>5 DEF CacheAssumption
  <2>4. Cause(n)
    BY <2>2, <2>3 DEF Cause
  <2>5. load' = [load EXCEPT ![p] = n]
    BY <1>5, <2>1 DEF WriteTemp, Fail, Set
  <2>6. QED
    BY <1>2, <2>2, <2>4, <2>5, QuietStep
<1>6. QED
  BY <1>4, <1>5

LEMMA RenameKeeps ==
  ASSUME CacheAssumption, CacheInv, NEW p \in Loaders, Rename(p)
  PROVE  CacheInv'
<1>1. /\ WorldTypes /\ errors \in Nat /\ load \in [Loaders -> Loads] /\ load[p] \in Loads
      /\ GoodLoad(load[p]) /\ load[p].pc = "rename"
      /\ load[p].req \in Requests /\ Content(load[p].req, load[p].got)
      /\ CutOk(load[p].req, load[p].cut) /\ load[p].cut \in Nat
  BY AtWork DEF Rename, GoodLoad, Loads
<1>2. csv' = load[p].got /\ UNCHANGED prov /\ UNCHANGED World /\ UNCHANGED errors
  BY DEF Rename, Faults
<1>3. csv' # None
  BY <1>1, <1>2, ContentIsFinite, MarksAssumption
<1>4. Onward
  BY <1>1, <1>2, <1>3, StillOnward
<1>5. PICK n : n = [load[p] EXCEPT !.pc = "stamp"]
  OBVIOUS
<1>6. /\ n \in Loads /\ n.pc = "stamp" /\ n.got = load[p].got /\ n.dups = load[p].dups
      /\ n.req = load[p].req /\ n.cut = load[p].cut
  BY <1>1, <1>5 DEF Loads
<1>7. GoodLoad(n)
  BY <1>1, <1>6 DEF GoodLoad
<1>8. GoodLoad(n)'
  BY <1>1, <1>4, <1>6, <1>7, Kept
<1>9. GoodCsv'
  <2>1. UNCHANGED <<program, history, paginates, clock>>
    BY <1>2 DEF World
  <2>2. PICK cs : csv' = cs
    OBVIOUS
  <2>3. PICK r \in Requests, cut \in Nat : CutOk(r, cut) /\ Content(r, cs)
    BY <1>1, <1>2, <2>2
  <2>4. CutOk(r, cut)' /\ Content(r, cs)'
    BY <2>1, <2>3, SameWorld DEF CutOk, IsClosed
  <2>5. QED
    BY <2>2, <2>3, <2>4 DEF GoodCsv
<1>10. load' = [load EXCEPT ![p] = n]
  BY <1>5 DEF Rename, Set
<1>11. QED
  BY <1>2, <1>4, <1>6, <1>8, <1>9, <1>10, DiskKept, LoadStep

LEMMA OpenProvenanceKeeps ==
  ASSUME CacheAssumption, CacheInv, NEW p \in Loaders, OpenProvenance(p)
  PROVE  CacheInv'
<1>1. /\ WorldTypes /\ errors \in Nat /\ load \in [Loaders -> Loads] /\ load[p] \in Loads
      /\ GoodLoad(load[p]) /\ load[p].pc = "stamp"
  BY AtWork DEF OpenProvenance
<1>2. prov' = Torn /\ UNCHANGED csv /\ UNCHANGED World /\ UNCHANGED errors
  BY DEF OpenProvenance, Faults
<1>3. Onward
  BY <1>1, <1>2, StillOnward
<1>4. PICK n : n = [load[p] EXCEPT !.pc = "stamping"]
  OBVIOUS
<1>5. /\ n \in Loads /\ n.pc = "stamping" /\ n.got = load[p].got /\ n.dups = load[p].dups
      /\ n.req = load[p].req /\ n.cut = load[p].cut
  BY <1>1, <1>4 DEF Loads
<1>6. GoodLoad(n)
  BY <1>1, <1>5 DEF GoodLoad
<1>7. GoodLoad(n)'
  BY <1>1, <1>3, <1>5, <1>6, Kept
<1>8. load' = [load EXCEPT ![p] = n]
  BY <1>4 DEF OpenProvenance, Set
<1>9. QED
  BY <1>2, <1>3, <1>5, <1>7, <1>8, DiskKept, LoadStep

LEMMA WriteProvenanceKeeps ==
  ASSUME CacheAssumption, CacheInv, NEW p \in Loaders, WriteProvenance(p)
  PROVE  CacheInv'
<1> DEFINE v == Provenance(load[p].req, load[p].dups, load[p].got)
<1>1. /\ WorldTypes /\ errors \in Nat /\ load \in [Loaders -> Loads] /\ load[p] \in Loads
      /\ GoodLoad(load[p]) /\ load[p].pc = "stamping" /\ load[p].pc # "idle"
      /\ load[p].req \in Requests /\ Content(load[p].req, load[p].got)
      /\ load[p].dups = 0 /\ load[p].got # {}
  BY AtWork DEF WriteProvenance, GoodLoad
<1>2. prov' = v /\ UNCHANGED csv /\ UNCHANGED World /\ UNCHANGED errors
  BY DEF WriteProvenance, Faults
<1>3. v.req = load[p].req /\ v.sha256 = load[p].got /\ v \in Provs /\ GoodProv(v)
  <2>1. v = [req |-> load[p].req, dups |-> load[p].dups, sha256 |-> load[p].got]
    BY DEF Provenance
  <2>2. load[p].got \in SUBSET Candles
    BY <1>1, ContentIsFinite
  <2> HIDE DEF v
  <2>3. v \in Provs /\ v.req = load[p].req /\ v.sha256 = load[p].got
    BY <1>1, <2>1, <2>2 DEF Provs
  <2>4. QED
    BY <1>1, <2>3 DEF GoodProv
<1>4. load' = [load EXCEPT ![p] = Served(p, v, v.sha256)]
  BY <1>3 DEF WriteProvenance, Set
<1>5. PICK w : w = v
  OBVIOUS
<1> HIDE DEF v
<1>6. PICK n : n = Served(p, w, w.sha256)
  OBVIOUS
<1>7. n \in Loads /\ GoodLoad(n)
  BY <1>1, <1>3, <1>5, <1>6, ServedLoad
<1>8. Onward
  BY <1>1, <1>2, StillOnward
<1>9. GoodLoad(n)'
  BY <1>1, <1>7, <1>8, Kept
<1>10. (prov \notin {None, Torn} => GoodProv(prov))'
  BY <1>2, <1>3, <1>5, <1>8, SameWorld DEF Onward
<1>11. QED
  BY <1>2, <1>4, <1>5, <1>6, <1>7, <1>8, <1>9, <1>10, DiskKept, LoadStep

LEMMA EndKeeps ==
  ASSUME CacheAssumption, CacheInv, NEW p \in Loaders, load' = [load EXCEPT ![p] = Idle],
         UNCHANGED <<csv, prov>>, UNCHANGED World, UNCHANGED errors
  PROVE  CacheInv'
<1>1. PICK n : n = Idle
  OBVIOUS
<1>2. n \in Loads
  <2>1. n = [pc |-> "idle", req |-> None, cut |-> 0, cursor |-> 0, pages |-> 0,
             raw |-> 0, got |-> {}, dups |-> 0, seen |-> None, why |-> None]
    BY <1>1 DEF Idle
  <2>2. {} \in SUBSET Candles
    OBVIOUS
  <2>3. QED
    BY <2>1, <2>2 DEF Loads
<1>3. n.pc = "idle"
  BY <1>1 DEF Idle
<1>4. GoodLoad(n)
  BY <1>3 DEF GoodLoad
<1>5. QED
  BY <1>1, <1>2, <1>4, QuietStep

LEMMA TickKeeps ==
  ASSUME CacheAssumption, CacheInv, Tick
  PROVE  CacheInv'
<1>1. WorldTypes /\ errors \in Nat /\ load \in [Loaders -> Loads] /\ \A q \in Loaders : GoodLoad(load[q])
  BY DEF CacheInv
<1>2. UNCHANGED <<csv, prov, load, program, history, paginates, errors>> /\ clock' = clock + 1
      /\ clock < MaxClock
  BY DEF Tick, Disk, Faults
<1>3. WorldTypes' /\ clock <= clock'
  BY <1>1, <1>2 DEF WorldTypes, CacheAssumption
<1>4. Onward
  BY <1>1, <1>2, <1>3 DEF Onward
<1>5. Loads' = Loads
  BY DEF Loads, Provs, Candles, Opens
<1>6. \A q \in Loaders : GoodLoad(load[q])'
  <2>1. SUFFICES ASSUME NEW q \in Loaders
                 PROVE  GoodLoad(load[q])'
    OBVIOUS
  <2>2. PICK l \in Loads : l = load[q] /\ GoodLoad(l)
    BY <1>1
  <2>3. GoodLoad(l)'
    BY <1>1, <1>4, <2>2, Kept
  <2>4. load'[q] = l
    BY <1>2, <2>2
  <2>5. QED
    BY <2>3, <2>4
<1>7. GoodCsv' /\ (prov \notin {None, Torn} => GoodProv(prov))'
  BY <1>2, <1>4, DiskKept
<1>8. QED
  BY <1>1, <1>2, <1>3, <1>5, <1>6, <1>7 DEF CacheInv

LEMMA CacheStep ==
  ASSUME CacheAssumption, CacheInv, [Next]_vars
  PROVE  CacheInv'
<1>1. CASE UNCHANGED vars
  <2>1. /\ WorldTypes /\ errors \in Nat /\ load \in [Loaders -> Loads]
        /\ \A q \in Loaders : GoodLoad(load[q])
    BY DEF CacheInv
  <2>2. UNCHANGED <<program, history, paginates, clock, csv, prov, load, errors>>
    BY <1>1 DEF vars
  <2>3. WorldTypes' /\ clock \in Nat
    BY <2>1, <2>2, HistoryOpens DEF WorldTypes
  <2>4. Onward
    BY <2>1, <2>2, <2>3 DEF Onward
  <2>5. Loads' = Loads
    BY DEF Loads, Provs, Candles, Opens
  <2>6. \A q \in Loaders : GoodLoad(load[q])'
    <3>1. SUFFICES ASSUME NEW q \in Loaders
                   PROVE  GoodLoad(load[q])'
      OBVIOUS
    <3>2. PICK l \in Loads : l = load[q] /\ GoodLoad(l)
      BY <2>1
    <3>3. GoodLoad(l)'
      BY <2>1, <2>4, <3>2, Kept
    <3>4. load'[q] = l
      BY <2>2, <3>2
    <3>5. QED
      BY <3>3, <3>4
  <2>7. GoodCsv' /\ (prov \notin {None, Torn} => GoodProv(prov))'
    BY <2>2, <2>4, DiskKept
  <2>8. QED
    BY <2>1, <2>2, <2>3, <2>5, <2>6, <2>7 DEF CacheInv
<1>2. CASE Tick
  BY <1>2, TickKeeps
<1>3. ASSUME NEW p \in Loaders, LoaderStep(p)
      PROVE  CacheInv'
  <2>1. CASE Probe(p)
    BY <2>1, ProbeKeeps
  <2>2. CASE ReadCache(p)
    BY <2>2, ReadCacheKeeps
  <2>3. CASE FetchPage(p)
    BY <2>3, FetchPageKeeps
  <2>4. CASE WriteTemp(p)
    BY <2>4, WriteTempKeeps
  <2>5. CASE Rename(p)
    BY <2>5, RenameKeeps
  <2>6. CASE OpenProvenance(p)
    BY <2>6, OpenProvenanceKeeps
  <2>7. CASE WriteProvenance(p)
    BY <2>7, WriteProvenanceKeeps
  <2>8. CASE End(p)
    BY <2>8, EndKeeps DEF End, Set, Disk, Faults
  <2>9. QED
    BY <1>3, <2>1, <2>2, <2>3, <2>4, <2>5, <2>6, <2>7, <2>8 DEF LoaderStep
<1>4. ASSUME NEW p \in Loaders, NEW r \in Requests, NEW refresh \in BOOLEAN, Start(p, r, refresh)
      PROVE  CacheInv'
  BY <1>4, StartKeeps
<1>5. ASSUME NEW p \in Loaders, FetchFails(p)
      PROVE  CacheInv'
  BY <1>5, ErrorStep DEF FetchFails, Disk
<1>6. ASSUME NEW p \in Loaders, WriteFails(p)
      PROVE  CacheInv'
  BY <1>6, ErrorStep DEF WriteFails, Disk
<1>7. ASSUME NEW p \in Loaders, StampFails(p)
      PROVE  CacheInv'
  BY <1>7, ErrorStep DEF StampFails
<1>8. ASSUME NEW p \in Loaders, Crash(p)
      PROVE  CacheInv'
  BY <1>8, EndKeeps DEF Crash, Set, Disk
<1>9. QED
  BY <1>1, <1>2, <1>3, <1>4, <1>5, <1>6, <1>7, <1>8 DEF Next

LEMMA CacheInit ==
  ASSUME CacheAssumption, Init
  PROVE  CacheInv
<1>1. WorldTypes /\ errors \in Nat
  BY DEF Init, WorldTypes, CacheAssumption
<1>2. PICK n : n = Idle
  OBVIOUS
<1>3. n \in Loads
  <2>1. n = [pc |-> "idle", req |-> None, cut |-> 0, cursor |-> 0, pages |-> 0,
             raw |-> 0, got |-> {}, dups |-> 0, seen |-> None, why |-> None]
    BY <1>2 DEF Idle
  <2>2. {} \in SUBSET Candles
    OBVIOUS
  <2>3. QED
    BY <2>1, <2>2 DEF Loads
<1>4. GoodLoad(n)
  BY <1>2 DEF GoodLoad, Idle
<1>5. load = [p \in Loaders |-> n] /\ csv = None /\ prov = None
  BY <1>2 DEF Init
<1>6. QED
  BY <1>1, <1>3, <1>4, <1>5 DEF CacheInv, GoodCsv

-----------------------------------------------------------------------------
(* What follows from the invariant.                                        *)

\* The inductive invariant: what every load has fetched, committed, reused or
\* failed with, and what the files hold between two of its steps
\* (load_with_cache, fetch_range_with, commit_cache).
THEOREM CacheGood == Spec => []CacheInv
<1>1. Init => CacheInv
  BY CacheAssumption, CacheInit
<1>2. CacheInv /\ [Next]_vars => CacheInv'
  BY CacheAssumption, CacheStep
<1>3. QED
  BY <1>1, <1>2, PTL DEF Spec

\* Every load returns exactly the candles of its request, or those above a
\* hole of a page; the confirmation gets every slot.
THEOREM CacheServedComplete == Spec => []ServedComplete
<1>1. CacheInv => ServedComplete
  <2>1. SUFFICES ASSUME CacheInv, NEW p \in Loaders, load[p].pc = "served"
                 PROVE  /\ NoWideHole(load[p].req) =>
                             load[p].got = Expected(load[p].req, load[p].cut)
                        /\ program = "confirm" =>
                             {c[1] : c \in load[p].got} = Slots(load[p].req)
    BY DEF ServedComplete
  <2>2. /\ WorldTypes /\ GoodLoad(load[p])
    BY <2>1, CacheAssumption, AtWork
  <2>3. /\ load[p].req \in Requests /\ CutOk(load[p].req, load[p].cut)
        /\ Content(load[p].req, load[p].got)
        /\ program = "confirm" => OpensOf(load[p].got) = Slots(load[p].req)
    BY <2>1, <2>2 DEF GoodLoad
  <2>4. Expected(load[p].req, load[p].cut) = Whole(load[p].req)
    BY <2>2, <2>3, CacheAssumption, ExpectedIsWhole
  <2>5. QED
    BY <2>3, <2>4 DEF Content, OpensOf
<1>2. QED
  BY <1>1, CacheGood, PTL

\* Half committed files are never why a load fails, and paging stays below its
\* bound unless the exchange skipped more than two pages of slots.
THEOREM CacheFailsForCause == Spec => []FailsForCause
<1>1. CacheInv => FailsForCause
  <2>1. SUFFICES ASSUME CacheInv, NEW p \in Loaders, load[p].pc = "failed"
                 PROVE  Cause(load[p])
    BY DEF FailsForCause, Cause
  <2>2. QED
    BY <2>1 DEF CacheInv, GoodLoad
<1>2. QED
  BY <1>1, CacheGood, PTL

\* The CSV is always one whole committed series.
THEOREM CacheCsvWhole == Spec => []CsvWhole
<1>1. CacheInv => CsvWhole
  <2>1. SUFFICES ASSUME CacheInv, csv # None
                 PROVE  \E r \in Requests : \E cut \in {r.end} \cup (FirstClock..MaxClock) :
                          IF NoWideHole(r) THEN csv = Expected(r, cut)
                                           ELSE csv \subseteq Expected(r, cut)
    BY DEF CsvWhole
  <2>2. PICK r \in Requests, cut \in Nat : CutOk(r, cut) /\ Content(r, csv)
    BY <2>1 DEF CacheInv, GoodCsv
  <2>3. WorldTypes
    BY <2>1 DEF CacheInv
  <2>4. cut \in {r.end} \cup (FirstClock..MaxClock)
    BY <2>2, <2>3, CacheAssumption DEF CutOk, WorldTypes, CacheAssumption
  <2>5. Expected(r, cut) = Whole(r)
    BY <2>2, <2>3, CacheAssumption, ExpectedIsWhole
  <2>6. QED
    BY <2>2, <2>4, <2>5 DEF Content
<1>2. QED
  BY <1>1, CacheGood, PTL
=============================================================================
