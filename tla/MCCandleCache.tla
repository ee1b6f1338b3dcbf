---------------------------- MODULE MCCandleCache ----------------------------
(* Instance of CandleCache: candles of 2 ticks, a page of 2 candles, and    *)
(* histories that are whole, that begin late, that lack one candle, and    *)
(* that lack a page of candles.                                            *)
EXTENDS CandleCache

CONSTANTS p1, p2

MCHistories == {{0, 2, 4, 6, 8, 10}, {4, 6, 8, 10}, {0, 2, 6, 8, 10}, {0, 6, 8, 10}}
MCRequests == {[start |-> 0, end |-> 12], [start |-> 2, end |-> 8]}
=============================================================================
