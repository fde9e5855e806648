-------------------------------- MODULE Regime --------------------------------
(***************************************************************************)
(* The daily regime of a stock, and Drishti's signal 01 which stands on    *)
(* it: a red candle at the low of the lookback in a downtrend, followed by *)
(* a green one that closes above its high on more volume.  Averages over a *)
(* window are kept as sums, percentages and ratios multiplied out.         *)
(***************************************************************************)
EXTENDS Integers, Sequences, FiniteSetsExt, Functions

CONSTANTS SMA_WINDOW, SLOPE_LOOKBACK, RANGE_WINDOW,
          LookbackSessions, VolumeSmaSessions   \* RANGE_WINDOW <= SMA_WINDOW + SLOPE_LOOKBACK

Window(k, size) == k - size + 1 .. k
SumOver(f) == SumFunctionOnSet(f, DOMAIN f)
SumOfCloses(c, k) == SumOver([j \in Window(k, SMA_WINDOW) |-> c[j].close])

(* Slope above 1 % and close in the upper 45 % of the range, or below -1 % *)
(* and in the lower 45 %; a range without width counts as the middle.      *)
classify_regime(c, k) ==
  LET sum == SumOfCloses(c, k)  previous == SumOfCloses(c, k - SLOPE_LOOKBACK)
      low == Min({c[j].low : j \in Window(k, RANGE_WINDOW)})
      width == Max({c[j].high : j \in Window(k, RANGE_WINDOW)}) - low
      position == c[k].close - low IN
  CASE c[k].close * SMA_WINDOW > sum /\ 100 * (sum - previous) > previous
         /\ 100 * position > 55 * width -> "UPTREND"
    [] c[k].close * SMA_WINDOW < sum /\ 100 * (sum - previous) < -previous
         /\ 100 * position < 45 * width -> "DOWNTREND"
    [] OTHER -> "SIDEWAYS"

classify_regime_series(c) ==
  [k \in SMA_WINDOW + SLOPE_LOOKBACK .. Len(c) |-> classify_regime(c, k)]

(* Volume at least 1.2 times the day before and 1.0 times the average.     *)
detect_signal_01_local_low_reversal(c) ==
  LET regimes == classify_regime_series(c)
      Enough == Len(c) >= Max({LookbackSessions, VolumeSmaSessions}) + 1
      Anchor(k) == /\ c[k].low = Min({c[j].low : j \in Window(k, LookbackSessions)})
                   /\ c[k].close < c[k].open
                   /\ k \in DOMAIN regimes /\ regimes[k] = "DOWNTREND" /\ c[k].volume > 0
      Trigger(k) ==
        /\ c[k].close > c[k].open /\ c[k].close > c[k - 1].high
        /\ 10 * c[k].volume >= 12 * c[k - 1].volume
        /\ c[k].volume * VolumeSmaSessions
             >= SumOver([j \in Window(k - 1, VolumeSmaSessions) |-> c[j].volume]) IN
  {k \in 2 .. Len(c) : /\ Enough /\ k - 1 >= LookbackSessions /\ k > VolumeSmaSessions
                       /\ Anchor(k - 1) /\ Trigger(k)}

(* The first session of the highest high from the trigger on.              *)
max_future_high(c, k) ==
  Min({j \in k .. Len(c) : \A i \in k .. Len(c) : c[j].high >= c[i].high})
------------------------------------------------------------------------------
(* What was classified and signalled on the candles up to a day is what is *)
(* classified and signalled for those days later: no window reaches past   *)
(* its day, and a hit's best high can only rise.                           *)
RegimesStay(c, longer) ==
  LET before == classify_regime_series(c)  after == classify_regime_series(longer) IN
  /\ \A k \in DOMAIN before : after[k] = before[k]
  /\ LET hits == detect_signal_01_local_low_reversal(c) IN
     /\ hits = {k \in detect_signal_01_local_low_reversal(longer) : k <= Len(c)}
     /\ \A k \in hits : longer[max_future_high(longer, k)].high >= c[max_future_high(c, k)].high
==============================================================================
