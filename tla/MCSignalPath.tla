---------------------------- MODULE MCSignalPath ----------------------------
(* Instance of SignalPath: one symbol, a window of three candles, and      *)
(* indicators that find two kinds while the trend holds one back, and that *)
(* lose and find again a divergence.  With a candle read too early they    *)
(* find what they find with the final one, or nothing.                     *)
EXTENDS SignalPath

CONSTANTS btc, bull, bear

MCKinds == <<bull, bear>>
MCOpens == {o \in 0..MaxClock : o % TF = 0}
At(kind, time) == [kind |-> kind, time |-> time]

\* Found at its own candle and until it leaves the window of three.
While(c) == {o \in MCOpens : c.time <= o /\ o < c.time + WindowLen * TF}
Finding(cs) == [cands |-> cs, trend |-> {bull, bear}]
FindsOf(cs) == [o \in MCOpens |-> Finding({c \in cs : o \in While(c)})]
ShowOf(finds) == [finds |-> finds, early |-> [o \in MCOpens |-> {finds[o], Finding({})}]]

Early == At(bull, 10)
Other == At(bear, 8)
MCShows ==
  {ShowOf([FindsOf({Early, Other}) EXCEPT ![12].trend = {}]),
   ShowOf([FindsOf({Early}) EXCEPT ![12] = Finding({})])}
MCListings == {0}
=============================================================================
