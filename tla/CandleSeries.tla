---------------------------- MODULE CandleSeries ----------------------------
(***************************************************************************)
(* A series of daily candles that grows by one session at a time, read by  *)
(* every detector of the swing app after each of them: range moves         *)
(* (MoveEvents), regimes (Regime), support and resistance                  *)
(* (SupportResistance), candlestick reversals (Candlesticks) and the       *)
(* reversal radar that combines them (RadarSignals), and by the end-of-day *)
(* strategies (StrategySignals).  The detectors are functions of the whole *)
(* stored series; what changes is the series.                              *)
(***************************************************************************)
EXTENDS RadarSignals, MoveEvents, StrategySignals

CONSTANTS Shapes,               \* a session's candle, relative to the last close
          Thresholds, Pullbacks, \* arguments of the move detector, in %
          MaxCandles             \* bound

VARIABLE history   \* daily_candles of one instrument

C(open, high, low, close, volume) ==
  [open |-> open, high |-> high, low |-> low, close |-> close, volume |-> volume]

Init == history = <<C(1000, 1010, 990, 1000, 2)>>

Next == \E s \in Shapes :
  LET last == history[Len(history)].close IN
  /\ Len(history) < MaxCandles
  /\ history' = Append(history, C(last + s.open, last + s.high, last + s.low,
                                  last + s.close, s.volume))

Spec == Init /\ [][Next]_history
------------------------------------------------------------------------------
(* Every pivot of the series belongs to one cluster, a reported move is    *)
(* the largest of its stretch of candles, and a strategy's signal is the   *)
(* first break that its definition asks for.                               *)
MatchesReference ==
  /\ PivotsClusteredOnce(history)
  /\ SignalsAreFirstBreaks(history) /\ BreakoutsWin(history)
  /\ \A t \in Thresholds, p \in Pullbacks : MovesAreLargest(history, t, p)

(* A reversal is read against the trend it reverses, and the radar never   *)
(* recommends what its own evidence speaks against: a bearish latest       *)
(* candle caps both scores and the stage, and only a confirmed bullish     *)
(* reversal is ready for review.                                           *)
VerdictsConsistent ==
  /\ \A k \in Range(classify_candles(history)) :
       /\ k.bias = "bullish" => k.setup = "down"
       /\ k.bias = "bearish" => k.setup = "up"
       /\ k.bias # "mixed" /\ (k.score > 0 <=> k.bias # "none")
  /\ \A x \in classify_reversal_opportunity(history) :
       /\ x.bearish => /\ x.score <= 6500 /\ x.entry <= 3000
                       /\ x.stage \notin {"confirmed_reversal", "bullish_reversal_watch"}
       /\ x.confirmed => x.bias = "bullish" /\ x.stage = "confirmed_reversal"
       /\ x.action = "ready_for_drishti_review" => x.confirmed

(* A new session does not rewrite what was said of the sessions before: no *)
(* detector looks ahead.                                                   *)
PastStays ==
  /\ RegimesStay(history, history') /\ PivotsStay(history, history')
  /\ \A t \in Thresholds, p \in Pullbacks : EndedMovesStay(history, history', t, p)
  /\ IsPrefix(classify_candles(history), classify_candles(history'))
==============================================================================
