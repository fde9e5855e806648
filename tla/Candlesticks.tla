----------------------------- MODULE Candlesticks -----------------------------
(***************************************************************************)
(* Candle patterns and what they are worth: indecision from the candle and *)
(* its predecessor, reversal from up to three candles after a rise or fall *)
(* of the closes before.  Prices are integers in hundredths; ratios of a   *)
(* candle's range are multiplied out.  Patterns are names in sets.         *)
(***************************************************************************)
EXTENDS Integers, Sequences, FiniteSetsExt, Functions

CONSTANT REVERSAL_TREND_LOOKBACK   \* 5

AbsDiff(a, b) == IF a < b THEN b - a ELSE a - b
If(condition, name) == IF condition THEN {name} ELSE {}

(* candle_metrics, as measures of a candle.                                *)
CandleRange(k) == k.high - k.low
Body(k) == AbsDiff(k.close, k.open)
BodyLow(k) == Min({k.open, k.close})
BodyHigh(k) == Max({k.open, k.close})
UpperWick(k) == k.high - BodyHigh(k)
LowerWick(k) == BodyLow(k) - k.low
Green(k) == k.close > k.open
Red(k) == k.close < k.open
AtMost(part, k, percent) == IF CandleRange(k) > 0 THEN 100 * part <= percent * CandleRange(k) ELSE TRUE
AtLeast(part, k, percent) == CandleRange(k) > 0 /\ 100 * part >= percent * CandleRange(k)
Small(k) == AtMost(Body(k), k, 30)

single_candle_patterns(k) ==
  LET upper == UpperWick(k)  lower == LowerWick(k)
      doji == AtMost(Body(k), k, 10) IN
  IF CandleRange(k) = 0 THEN {"four_price_doji"}
  ELSE UNION {
    If(doji, "doji"),
    If(doji /\ AtLeast(upper, k, 25) /\ AtLeast(lower, k, 25), "long_legged_doji"),
    If(doji /\ AtLeast(lower, k, 60) /\ AtMost(upper, k, 15), "dragonfly_doji"),
    If(doji /\ AtLeast(upper, k, 60) /\ AtMost(lower, k, 15), "gravestone_doji"),
    If(Small(k) /\ AtLeast(upper, k, 20) /\ AtLeast(lower, k, 20), "spinning_top"),
    If(AtMost(Body(k), k, 25) /\ AtLeast(upper, k, 35) /\ AtLeast(lower, k, 35), "high_wave"),
    If(Small(k) /\ AtLeast(lower, k, 60), "long_lower_wick_indecision"),
    If(Small(k) /\ AtLeast(upper, k, 60), "long_upper_wick_indecision")}

(* Within half a percent of the larger body, or of the mean of two prices. *)
body_inside_previous(k, p) ==
  /\ 200 * BodyLow(k) >= 200 * BodyLow(p) - Max({BodyHigh(p), 200})
  /\ 200 * BodyHigh(k) <= 200 * BodyHigh(p) + Max({BodyHigh(p), 200})
body_engulfs(k, p) == BodyLow(k) <= BodyLow(p) /\ BodyHigh(k) >= BodyHigh(p)
SamePrice(a, b) == 400 * AbsDiff(a, b) <= a + b

two_candle_patterns(k, p) ==
  LET harami == body_inside_previous(k, p) /\ Small(k) IN
  UNION {
    If(k.high <= p.high /\ k.low >= p.low, "inside_bar"),
    If(harami, "harami"), If(harami /\ "doji" \in single_candle_patterns(k), "harami_cross"),
    If(Red(p) /\ Green(k) /\ SamePrice(k.low, p.low), "tweezer_bottom"),
    If(Green(p) /\ Red(k) /\ SamePrice(k.high, p.high), "tweezer_top")}

(* The closes before the candle moved by 2 %, in no fewer steps that way.  *)
setup_trend(c, i) ==
  LET first == Max({1, i - REVERSAL_TREND_LOOKBACK})
      up == Cardinality({j \in first + 1 .. i - 1 : c[j].close > c[j - 1].close})
      down == Cardinality({j \in first + 1 .. i - 1 : c[j].close < c[j - 1].close})
      change == 100 * (c[i - 1].close - c[first].close) IN
  CASE i <= 3 -> "unknown"
    [] i > 3 /\ change >= 2 * c[first].close /\ up >= down -> "up"
    [] i > 3 /\ change <= -2 * c[first].close /\ down >= up -> "down"
    [] OTHER -> "sideways"

single_candle_reversal_patterns(k, setup) ==
  LET indecision == single_candle_patterns(k)
      lower == /\ Small(k) /\ AtLeast(LowerWick(k), k, 50) /\ LowerWick(k) >= Max({2 * Body(k), 1})
               /\ AtMost(UpperWick(k), k, 25) /\ AtLeast(BodyHigh(k) - k.low, k, 65)
      upper == /\ Small(k) /\ AtLeast(UpperWick(k), k, 50) /\ UpperWick(k) >= Max({2 * Body(k), 1})
               /\ AtMost(LowerWick(k), k, 25) /\ AtMost(BodyLow(k) - k.low, k, 35) IN
  UNION {
    If(setup = "down" /\ lower, "hammer"), If(setup = "up" /\ lower, "hanging_man"),
    If(setup = "down" /\ upper, "inverted_hammer"), If(setup = "up" /\ upper, "shooting_star"),
    If(setup = "down" /\ "doji" \in indecision, "bullish_doji_reversal_watch"),
    If(setup = "up" /\ "doji" \in indecision, "bearish_doji_reversal_watch")}

two_candle_reversal_patterns(k, p, setup) ==
  LET fell == setup = "down" /\ Red(p) /\ Green(k)
      rose == setup = "up" /\ Green(p) /\ Red(k)
      inside == body_inside_previous(k, p) /\ Small(k) IN
  UNION {
    If(fell /\ body_engulfs(k, p), "bullish_engulfing"),
    If(fell /\ 2 * k.close > p.open + p.close /\ k.close < p.open, "piercing_pattern"),
    If(fell /\ inside, "bullish_harami"),
    If(fell /\ SamePrice(k.low, p.low), "tweezer_bottom_reversal"),
    If(fell /\ k.open > p.open /\ k.low > p.high, "bullish_kicker"),
    If(rose /\ body_engulfs(k, p), "bearish_engulfing"),
    If(rose /\ 2 * k.close < p.open + p.close /\ k.close > p.open, "dark_cloud_cover"),
    If(rose /\ inside, "bearish_harami"),
    If(rose /\ SamePrice(k.high, p.high), "tweezer_top_reversal"),
    If(rose /\ k.open < p.open /\ k.high < p.low, "bearish_kicker")}

three_candle_reversal_patterns(c, i, setup) ==
  LET first == c[i - 2]  middle == c[i - 1]  k == c[i]
      doji == AtMost(Body(middle), middle, 10)
      morning == /\ setup = "down" /\ Red(first) /\ AtLeast(Body(first), first, 50) /\ Small(middle)
                 /\ Green(k) /\ 2 * k.close > first.open + first.close
      evening == /\ setup = "up" /\ Green(first) /\ AtLeast(Body(first), first, 50) /\ Small(middle)
                 /\ Red(k) /\ 2 * k.close < first.open + first.close
      Big(j) == AtLeast(Body(c[j]), c[j], 45) IN
  UNION {
    If(morning, "morning_star"), If(morning /\ doji, "morning_doji_star"),
    If(evening, "evening_star"), If(evening /\ doji, "evening_doji_star"),
    If(/\ setup = "down" /\ \A j \in i - 2 .. i : Green(c[j]) /\ Big(j)
       /\ first.close < middle.close /\ middle.close < k.close, "three_white_soldiers"),
    If(/\ setup = "up" /\ \A j \in i - 2 .. i : Red(c[j]) /\ Big(j)
       /\ first.close > middle.close /\ middle.close > k.close, "three_black_crows")}

INDECISION == [doji |-> 35, long_legged_doji |-> 25, dragonfly_doji |-> 20, gravestone_doji |-> 20,
  four_price_doji |-> 40, spinning_top |-> 25, high_wave |-> 35, long_lower_wick_indecision |-> 20,
  long_upper_wick_indecision |-> 20, inside_bar |-> 20, harami |-> 25, harami_cross |-> 35,
  tweezer_bottom |-> 25, tweezer_top |-> 25]
BULLISH_REVERSAL_PATTERNS == [hammer |-> 45, inverted_hammer |-> 35, bullish_doji_reversal_watch |-> 25,
  bullish_engulfing |-> 60, piercing_pattern |-> 45, bullish_harami |-> 35, tweezer_bottom_reversal |-> 35,
  bullish_kicker |-> 70, morning_star |-> 70, morning_doji_star |-> 80, three_white_soldiers |-> 70]
BEARISH_REVERSAL_PATTERNS == [hanging_man |-> 35, shooting_star |-> 45, bearish_doji_reversal_watch |-> 25,
  bearish_engulfing |-> 60, dark_cloud_cover |-> 45, bearish_harami |-> 35, tweezer_top_reversal |-> 35,
  bearish_kicker |-> 70, evening_star |-> 70, evening_doji_star |-> 80, three_black_crows |-> 70]

Weighted(weights, patterns) ==
  Min({100, SumFunctionOnSet(weights, patterns \cap DOMAIN weights)})
reversal_score(patterns) ==
  Min({100, Weighted(BULLISH_REVERSAL_PATTERNS, patterns) + Weighted(BEARISH_REVERSAL_PATTERNS, patterns)})
reversal_bias(patterns) ==
  LET bullish == patterns \cap DOMAIN BULLISH_REVERSAL_PATTERNS # {}
      bearish == patterns \cap DOMAIN BEARISH_REVERSAL_PATTERNS # {} IN
  CASE bullish /\ bearish -> "mixed" [] bullish /\ ~bearish -> "bullish"
    [] bearish /\ ~bullish -> "bearish" [] OTHER -> "none"

classify_candle(c, i) ==
  LET setup == setup_trend(c, i)
      indecision == single_candle_patterns(c[i]) \cup
                    (IF i > 1 THEN two_candle_patterns(c[i], c[i - 1]) ELSE {})
      reversal == UNION {
        single_candle_reversal_patterns(c[i], setup),
        IF i > 1 THEN two_candle_reversal_patterns(c[i], c[i - 1], setup) ELSE {},
        IF i > 2 THEN three_candle_reversal_patterns(c, i, setup) ELSE {}} IN
  [setup |-> setup, patterns |-> indecision, reversal |-> reversal,
   indecision |-> Weighted(INDECISION, indecision),
   bias |-> reversal_bias(reversal), score |-> reversal_score(reversal)]
(* A sequence of values: each candle is classified once.                   *)
classify_candles(c) == <<>> \o [i \in DOMAIN c |-> classify_candle(c, i)]
=============================================================================
