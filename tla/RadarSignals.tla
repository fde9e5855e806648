----------------------------- MODULE RadarSignals -----------------------------
(***************************************************************************)
(* The reversal radar's verdict on one stock: in a downtrend, what the     *)
(* support zones and the last three candles say, as a stage, two scores    *)
(* and a suggested action, and whether the result may be promoted to the   *)
(* watchlist.  Composes Regime, SupportResistance and Candlesticks; scores *)
(* are in hundredths.                                                      *)
(***************************************************************************)
EXTENDS Regime, SupportResistance, Candlesticks

STRONG_BULLISH_REVERSAL_SCORE == 45
PROMOTABLE_STAGES == {"confirmed_reversal", "support_reclaim"}
BLOCKED_PROMOTION_ACTIONS == {"watch_only", "ignore"}
BEARISH_REVERSAL_BLOCKERS ==
  {"shooting_star", "dark_cloud_cover", "bearish_harami", "bearish_engulfing", "evening_star",
   "evening_doji_star", "tweezer_top_reversal"}

Clamp(score) == Max({0, Min({score, 10000})})
Bullish(item) == item.bias \in {"bullish", "mixed"}
LatestThree(c) == {k \in DOMAIN c : k > Len(c) - 3}

latest_has_bearish_evidence(latest) ==
  latest.bias = "bearish" \/ latest.reversal \cap BEARISH_REVERSAL_BLOCKERS # {}

(* The largest score among the last three, of the bullish ones only.       *)
bullish_reversal_score(c, items) ==
  Max({0} \cup {items[k].score : k \in {j \in LatestThree(c) : Bullish(items[j])}})

latest_reversal_bias(c, items) ==
  LET latest == items[Len(c)].bias IN
  IF latest = "none" /\ \E k \in LatestThree(c) : Bullish(items[k]) /\ items[k].score > 0
  THEN "bullish" ELSE latest

(* Closed above the candle before, or above a strong bullish candle of the *)
(* last three.                                                             *)
bullish_confirmation(c, items) ==
  /\ ~latest_has_bearish_evidence(items[Len(c)])
  /\ bullish_reversal_score(c, items) >= STRONG_BULLISH_REVERSAL_SCORE
  /\ \/ c[Len(c)].close > c[Len(c) - 1].high
     \/ \E k \in LatestThree(c) \ {Len(c)} :
          /\ Bullish(items[k]) /\ items[k].score >= STRONG_BULLISH_REVERSAL_SCORE
          /\ c[Len(c)].close > c[k].high

classify_stage(f) ==
  CASE f.confirmed /\ ~f.bearish -> "confirmed_reversal"
    [] ~(f.confirmed /\ ~f.bearish) /\ ~f.bearish /\ Bullish(f) /\ f.reversal >= 35 -> "bullish_reversal_watch"
    [] OTHER -> IF f.support.support_reclaim THEN "support_reclaim"
                ELSE IF ~(f.support.near_support \/ f.support.inside_support_zone) THEN "downtrend_only"
                ELSE IF f.indecision > 0 THEN "indecision_near_support" ELSE "near_support"

Points(condition, points) == IF condition THEN points ELSE 0
Capped(score, condition, cap) == IF condition THEN Min({score, cap}) ELSE score
Weak(f) == f.known /\ f.strength < 40
Old(f) == f.known /\ f.recency > 90
Single(f) == f.known /\ f.touches = 1

opportunity_score(f) ==
  LET score == 2000 + Points(f.support.near_support, 1500) + Points(f.support.inside_support_zone, 2000)
        + Points(f.support.support_reclaim, 1500) + Points(f.quality, 1000)
        + 15 * f.indecision + Points(Bullish(f), 25 * f.reversal) + Points(f.confirmed, 1500)
        - Points(f.bearish, 2500) - Points(Weak(f), 1000) - Points(Single(f), 800) - Points(Old(f), 800) IN
  Clamp(Capped(score, f.bearish, 6500))

entry_quality_score(f) ==
  LET score == Points(f.confirmed /\ ~f.bearish, 3000) + Points(Bullish(f) /\ ~f.bearish, 1500)
        + Points(f.above /\ ~f.bearish, 1000) + Points(f.quality, 2000)
        + (IF f.support.inside_support_zone THEN 1000 ELSE Points(f.support.near_support, 500))
        + Points(f.known, IF f.strength >= 70 THEN 1500 ELSE IF f.strength >= 40 THEN 800 ELSE -2000)
        - Points(Single(f), 1500) - Points(Old(f), 1500) + (IF f.bearish THEN -3500 ELSE 1000)
      a == Capped(score, f.reversal <= 0 /\ ~f.above, 5500)
      b == Capped(a, Weak(f) \/ Old(f), 5500) IN
  Clamp(Capped(Capped(b, Single(f), 5000), f.bearish, 3000))

suggested_next_action(stage, entry, bearish) ==
  CASE bearish -> IF entry < 3000 THEN "ignore" ELSE "wait_for_confirmation"
    [] ~bearish /\ stage = "downtrend_only" -> "watch_only"
    [] ~bearish /\ stage \in {"near_support", "indecision_near_support", "support_reclaim"} -> "wait_for_confirmation"
    [] ~bearish /\ stage = "bullish_reversal_watch" -> "wait_for_breakout"
    [] OTHER -> IF entry < 5500 THEN "wait_for_confirmation" ELSE "ready_for_drishti_review"

(* What the verdict stands on: the nearest support and the candles.        *)
Facts(c, report, items) ==
  LET level == CHOOSE l \in report.nearest_support : TRUE
      known == report.nearest_support # {}
      bearish == latest_has_bearish_evidence(items[Len(c)]) IN
  [support |-> report.state, known |-> known, bearish |-> bearish,
   strength |-> IF known THEN level.strength ELSE 0, touches |-> IF known THEN level.touch_count ELSE 0,
   recency |-> IF known THEN level.recency ELSE 0,
   zone_low |-> IF known THEN level.zone_low ELSE 0,
   quality |-> /\ report.state.support_reclaim /\ ~bearish
               /\ report.state.inside_support_zone \/ (known /\ c[Len(c)].close > level.mid_price),
   indecision |-> Max({0} \cup {items[k].indecision : k \in LatestThree(c)}),
   reversal |-> bullish_reversal_score(c, items),
   bias |-> IF bearish THEN "bearish" ELSE latest_reversal_bias(c, items),
   confirmed |-> bullish_confirmation(c, items), latest |-> items[Len(c)].reversal,
   above |-> c[Len(c)].close > c[Len(c) - 1].high]

Verdict(f, stage, entry) ==
  [stage |-> stage, score |-> opportunity_score(f), entry |-> entry, bias |-> f.bias,
   latest |-> f.latest, bearish |-> f.bearish, confirmed |-> f.confirmed,
   action |-> suggested_next_action(stage, entry, f.bearish)]
Judged(f) == Verdict(f, classify_stage(f), entry_quality_score(f))
build_opportunity_item(c) ==
  Judged(Facts(c, detect_support_resistance(c), classify_candles(c)))

(* Only in a downtrend, and with enough candles.                           *)
classify_reversal_opportunity(c) ==
  LET regimes == classify_regime_series(c) IN
  IF /\ Len(c) >= Max({DEFAULT_PIVOT_LEFT + DEFAULT_PIVOT_RIGHT + 1, 5})
     /\ Len(c) \in DOMAIN regimes /\ regimes[Len(c)] = "DOWNTREND"
  THEN {build_opportunity_item(c)} ELSE {}

has_bearish_snapshot_evidence(item) ==
  item.bias = "bearish" \/ item.latest \cap BEARISH_REVERSAL_BLOCKERS # {} \/ item.bearish

promotion_eligibility(item, least) ==
  /\ item.entry >= least /\ item.stage \in PROMOTABLE_STAGES
  /\ item.action \notin BLOCKED_PROMOTION_ACTIONS /\ ~has_bearish_snapshot_evidence(item)
==============================================================================
