----------------------------- MODULE CandleDriver -----------------------------
(***************************************************************************)
(* One symbol's signal engine (process/analyzer: driver/candle_driver.rs   *)
(* over strategy/window.rs and the choice of strategy/generator.rs), as    *)
(* operators on a record that its owner keeps.                             *)
(*                                                                         *)
(* Candles are records [open, final], TF ticks apart, final if the period  *)
(* was over when the candle was read.  What the indicators find in a       *)
(* window is a parameter: finding.cands are its candidates, at most one of *)
(* each kind, and finding.trend the kinds its moving average lets through. *)
(***************************************************************************)
EXTENDS Integers, Sequences, SequencesExt

CONSTANTS
  TF,         \* ticks of a candle
  Settle,     \* settle_ms
  WindowLen,  \* candles of the window
  Kinds,      \* divergence kinds, a sequence: the order of candidates()
  MaxAge,     \* max_divergence_age_candles
  None

ASSUME DriverAssumption ==
  /\ TF \in Nat \ {0} /\ Settle \in Nat
  /\ WindowLen \in Nat \ {0} /\ MaxAge \in Nat
  /\ DOMAIN Kinds \subseteq Nat /\ \A i \in DOMAIN Kinds : Kinds[i] # None

\* No divergence was consumed yet.
NoMark == -1

NewDriver == [window |-> <<>>, emitted |-> {}, watermark |-> NoMark, warmed |-> FALSE]

IsClosed(o, now) == now - Settle > o + TF

\* Window::push_closed, for a candle newer than the window.
Slide(w, c) == IF Len(w) = WindowLen THEN Append(Tail(w), c) ELSE Append(w, c)

IsStale(w, c) == w # <<>> /\ c.open <= Last(w).open

Candidates(finding, w) ==
  {c \in finding.cands : \E i \in DOMAIN w : w[i].open = c.time}

Rank(kind) == CHOOSE i \in DOMAIN Kinds : Kinds[i] = kind

\* signals: the latest candidate the trend lets through, ties in their order.
Signals(finding, w) ==
  LET cs == {c \in Candidates(finding, w) : c.kind \in finding.trend} IN
  {c \in cs : \A x \in cs : \/ x.time < c.time
                            \/ x.time = c.time /\ Rank(c.kind) <= Rank(x.kind)}

Age(w, c) == (Last(w).open - c.time) \div TF

\* The end of the warm-up consumes every candidate in sight.
Seeded(d, cs) ==
  [d EXCEPT !.warmed = TRUE, !.emitted = cs,
            !.watermark = IF cs = {} THEN NoMark ELSE Max({c.time : c \in cs})]

\* Mutant: the warm-up consumes only what it would have signalled.
WarmUpSignals(finding, d) == Seeded(d, Signals(finding, d.window))

WarmUp(finding, d) == Seeded(d, Candidates(finding, d.window))

Suppressed(d, c) ==
  \/ c \in d.emitted
  \/ c.time <= d.watermark
  \/ Age(d.window, c) > MaxAge

\* CandleDriver::push_closed: the driver after a candle and what it signals,
\* nothing or one candidate, by what is found in the window with the candle.
\* The warm-up ends with the candle that fills the window.
PushClosed(finding, d, c) ==
  LET slid == [d EXCEPT !.window = Slide(@, c)]
      found == IF d.warmed THEN {x \in Signals(finding, slid.window) : ~Suppressed(slid, x)}
               ELSE {} IN
  IF ~d.warmed /\ Len(slid.window) = WindowLen
  THEN [driver |-> WarmUp(finding, slid), out |-> {}]
  ELSE [driver |-> [slid EXCEPT !.emitted = @ \cup found,
                                !.watermark = IF found = {} THEN @
                                              ELSE (CHOOSE x \in found : TRUE).time],
        out |-> found]

=============================================================================
