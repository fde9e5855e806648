-------------------------- MODULE SupportResistance --------------------------
(***************************************************************************)
(* Support and resistance levels of a stock: swing pivots and the extremes *)
(* of recent windows, clustered by price, each cluster a zone.  Prices are *)
(* integers in a unit fine enough that a division may round down.          *)
(***************************************************************************)
EXTENDS Integers, Sequences, FiniteSetsExt, SequencesExt

CONSTANTS DEFAULT_PIVOT_LEFT, DEFAULT_PIVOT_RIGHT, \* 2 and 2
          ExtremeWindows                           \* {45, 90}

Distance(a, b) == IF a < b THEN b - a ELSE a - b
Pivot(c, k, price, source, window) ==
  [at |-> k, price |-> price, weight |-> Max({c[k].volume, 1}), source |-> source, window |-> window]

(* A swing is known only when the candles to its right are.                *)
find_price_pivots(c) ==
  LET Around(k) == (k - DEFAULT_PIVOT_LEFT .. k + DEFAULT_PIVOT_RIGHT) \ {k}
      inner == DEFAULT_PIVOT_LEFT + 1 .. Len(c) - DEFAULT_PIVOT_RIGHT IN
  {Pivot(c, k, c[k].low, "swing_low", 0) : k \in {i \in inner : \A j \in Around(i) : c[i].low <= c[j].low}}
    \cup
  {Pivot(c, k, c[k].high, "swing_high", 0) : k \in {i \in inner : \A j \in Around(i) : c[i].high >= c[j].high}}

(* The first lowest low and the first highest high of each window that is  *)
(* full.                                                                   *)
recent_extreme_pivots(c) ==
  LET Recent(w) == Len(c) - w + 1 .. Len(c)
      Lowest(w) == Min({k \in Recent(w) : \A j \in Recent(w) : c[k].low <= c[j].low})
      Highest(w) == Min({k \in Recent(w) : \A j \in Recent(w) : c[k].high >= c[j].high}) IN
  UNION {{Pivot(c, Lowest(w), c[Lowest(w)].low, "low", w),
          Pivot(c, Highest(w), c[Highest(w)].high, "high", w)}
         : w \in {v \in ExtremeWindows : v <= Len(c)}}

(* 1.5 % of the mean of both, and no earlier cluster is within it.         *)
Near(a, b) == 400 * Distance(a, b) <= 3 * (a + b)
Joins(clusters, k, p) == /\ Near(clusters[k].price, p.price)
                         /\ \A j \in 1 .. k - 1 : ~Near(clusters[j].price, p.price)

weighted_average_price(touches) ==
  MapThenSumSet(LAMBDA t : t.price * t.weight, touches) \div MapThenSumSet(LAMBDA t : t.weight, touches)

(* By price, and at one price in the order they were found.                *)
Found(p) == <<p.price, p.window, p.at, IF p.source \in {"swing_low", "low"} THEN 1 ELSE 2>>
Before(p, q) == \E k \in 1 .. 4 : Found(p)[k] < Found(q)[k] /\ \A j \in 1 .. k - 1 : Found(p)[j] = Found(q)[j]
InOrder(pivots) ==
  <<>> \o [k \in 1 .. Cardinality(pivots) |->
     CHOOSE p \in pivots : Cardinality({q \in pivots : Before(q, p)}) = k - 1]

(* In order of price; a cluster's price moves to the weighted mean of what *)
(* has joined it.                                                          *)
cluster_pivots(pivots) ==
  LET Add(clusters, p) ==
        LET touches(k) == clusters[k].touches \cup {p}
            joined == {k \in DOMAIN clusters : Joins(clusters, k, p)} IN
        IF joined = {} THEN Append(clusters, [price |-> p.price, touches |-> {p}])
        ELSE [k \in DOMAIN clusters |->
                IF k \in joined THEN [price |-> weighted_average_price(touches(k)), touches |-> touches(k)]
                ELSE clusters[k]] IN
  FoldLeft(Add, <<>>, InOrder(pivots))

average_true_range(c) ==
  LET days == {k \in 2 .. Len(c) : k > Len(c) - 14}
      TrueRange(k) == Max({c[k].high - c[k].low, Distance(c[k].high, c[k - 1].close),
                           Distance(c[k].low, c[k - 1].close)}) IN
  IF days = {} THEN 0 ELSE MapThenSumSet(TrueRange, days) \div Cardinality(days)

strength(touches, recency) == Min({18 * touches, 60}) + Max({0, 40 - recency})

(* A zone is 1.5 % or half the average range around the level.             *)
level_from_cluster(cluster, c) ==
  LET close == c[Len(c)].close  mid == cluster.price
      width == Max({(3 * mid) \div 200, average_true_range(c) \div 2})
      low == Max({0, mid - width})  high == mid + width
      recency == Len(c) - Max({t.at : t \in cluster.touches})
      role == IF mid <= close THEN "support" ELSE "resistance" IN
  [mid_price |-> mid, zone_low |-> low, zone_high |-> high, role |-> role,
   inside_zone |-> low <= close /\ close <= high, touch_count |-> Cardinality(cluster.touches),
   recency |-> recency, strength |-> strength(Cardinality(cluster.touches), recency),
   distance |-> CASE low <= close /\ close <= high -> 0
                  [] role = "support" /\ close > high -> close - high
                  [] OTHER -> low - close]

Levels(c) ==
  LET clusters == cluster_pivots(find_price_pivots(c) \cup recent_extreme_pivots(c)) IN
  {level_from_cluster(clusters[k], c) : k \in DOMAIN clusters}

(* The nearest level of the role, the stronger of two at one distance.     *)
Nearest(levels, role) ==
  LET own == {l \in levels : l.role = role} IN
  IF own = {} THEN {}
  ELSE {CHOOSE l \in own : \A m \in own : \/ l.distance < m.distance
                                          \/ l.distance = m.distance /\ l.strength >= m.strength}

NoSupport == [near_support |-> FALSE, inside_support_zone |-> FALSE, state |-> "no_support",
              support_reclaim |-> FALSE, broke |-> FALSE, reclaimed |-> FALSE]

(* Near is 2 % of the close; a low of the last five sessions below the     *)
(* zone with a close back above its low edge is a reclaim.                 *)
support_state_fields(nearest, c) ==
  LET s == CHOOSE l \in nearest : TRUE
      close == c[Len(c)].close
      near == s.inside_zone \/ 100 * s.distance <= 2 * close
      broke == \E k \in DOMAIN c : k > Len(c) - 5 /\ c[k].low < s.zone_low
      reclaimed == close >= s.zone_low IN
  IF nearest = {} THEN NoSupport
  ELSE [near_support |-> near, inside_support_zone |-> s.inside_zone,
        state |-> CASE ~reclaimed -> "below_support_broken"
                    [] reclaimed /\ s.inside_zone -> "inside_support_zone"
                    [] reclaimed /\ ~s.inside_zone /\ near -> "near_support"
                    [] OTHER -> "above_support",
        support_reclaim |-> broke /\ reclaimed, broke |-> broke, reclaimed |-> reclaimed]

detect_support_resistance(c) ==
  LET levels == Levels(c) IN
  [supports |-> {l \in levels : l.role = "support"},
   resistances |-> {l \in levels : l.role = "resistance"},
   nearest_support |-> Nearest(levels, "support"),
   nearest_resistance |-> Nearest(levels, "resistance"),
   state |-> support_state_fields(Nearest(levels, "support"), c)]
------------------------------------------------------------------------------
(* Clustering loses no pivot and counts none twice, however the clusters   *)
(* drift while pivots join.                                                *)
PivotsClusteredOnce(c) ==
  LET pivots == find_price_pivots(c) \cup recent_extreme_pivots(c)
      clusters == cluster_pivots(pivots) IN
  \A p \in pivots : Cardinality({k \in DOMAIN clusters : p \in clusters[k].touches}) = 1

(* A swing once confirmed stays one: later candles add swings, they do not *)
(* take any back.                                                          *)
PivotsStay(c, longer) == find_price_pivots(c) \subseteq find_price_pivots(longer)
==============================================================================
