------------------------------ MODULE MoveEvents ------------------------------
(***************************************************************************)
(* Upward moves in a stock's candles: the history is cut where a close has *)
(* pulled back from the running high, and each piece gives its largest     *)
(* rise from a low to a later high; the range mover is the largest rise of *)
(* the whole window.  Prices are positive integers, a candle is a record   *)
(* with low, high and close; a percentage is compared by multiplying out.  *)
(***************************************************************************)
EXTENDS Integers, Sequences, SequencesExt

NoMove == [low |-> 0, high |-> 0]
Indices(first, last) == [k \in 1 .. last - first + 1 |-> first + k - 1]

(* The candle that closes pullback percent below the highest high so far   *)
(* ends a segment and starts the next one; s.at is where that high was.    *)
split_continuous_move_segments(c, pullback) ==
  LET Step(s, k) ==
        LET at == IF c[k].high > c[s.at].high THEN k ELSE s.at IN
        IF k > at /\ 100 * (c[at].high - c[k].close) >= pullback * c[at].high
        THEN [segments |-> Append(s.segments, [first |-> s.start, last |-> k, split |-> k]),
              start |-> k, at |-> k]
        ELSE [s EXCEPT !.at = at]
      end == FoldLeft(Step, [segments |-> <<>>, start |-> 1, at |-> 1], Indices(2, Len(c))) IN
  Append(end.segments, [first |-> end.start, last |-> Len(c), split |-> 0])

(* A rise of more percent: high / low is the larger quotient.              *)
Rises(c, m, n) == c[m.high].high * c[n.low].low > c[n.high].high * c[m.low].low

\* Mutant of best_upward_event: a session's own low is taken before its high.
EventWithinSession(c, first, last) ==
  LET Step(s, k) ==
        LET lowest == IF c[k].low < c[s.lowest].low THEN k ELSE s.lowest
            move == [low |-> lowest, high |-> k] IN
        [best |-> IF s.best = NoMove \/ Rises(c, move, s.best) THEN move ELSE s.best,
         lowest |-> lowest] IN
  FoldLeft(Step, [best |-> NoMove, lowest |-> first], Indices(first + 1, last)).best

best_upward_event(c, first, last) ==
  LET Step(s, k) ==
        LET move == [low |-> s.lowest, high |-> k] IN
        [best |-> IF s.best = NoMove \/ Rises(c, move, s.best) THEN move ELSE s.best,
         lowest |-> IF c[k].low < c[s.lowest].low THEN k ELSE s.lowest] IN
  FoldLeft(Step, [best |-> NoMove, lowest |-> first], Indices(first + 1, last)).best

best_upward_move(c) == best_upward_event(c, 1, Len(c))

Percent(c, m) == (100 * (c[m.high].high - c[m.low].low)) \div c[m.low].low
move_bucket(percent) == CASE percent < 20 -> "10-20"
                          [] percent \in 20 .. 29 -> "20-30"
                          [] percent \in 30 .. 49 -> "30-50"
                          [] OTHER -> "50+"

detect_move_events(c, threshold, pullback) ==
  LET segments == split_continuous_move_segments(c, pullback)
      event(s) == [move |-> best_upward_event(c, s.first, s.last), split |-> s.split]
      events == [k \in DOMAIN segments |-> event(segments[k])]
      Large(e) == e.move # NoMove /\ Percent(c, e.move) >= threshold IN
  IF Len(c) < 2 THEN <<>> ELSE SelectSeq(events, Large)

report_items(c, threshold) ==
  LET best == best_upward_move(c) IN
  IF Len(c) < 2 \/ Percent(c, best) < threshold THEN {} ELSE {best}
------------------------------------------------------------------------------
(* What the two reports promise: of all pairs of a low and a later high    *)
(* inside one segment, the event is one with the largest rise; the range   *)
(* mover is one of the whole window, so it is no less than any event, and  *)
(* two events do not overlap in more than the candle that split them.      *)
MovesAreLargest(c, threshold, pullback) ==
  LET segments == split_continuous_move_segments(c, pullback)
      Largest(m, first, last) ==
        IF first = last THEN m = NoMove
        ELSE /\ m.low \in first .. last /\ m.high \in m.low + 1 .. last
             /\ \A j \in first .. last : \A k \in j + 1 .. last : ~Rises(c, [low |-> j, high |-> k], m)
      events == detect_move_events(c, threshold, pullback) IN
  Len(c) >= 2 =>
    /\ \A k \in DOMAIN segments : Largest(best_upward_event(c, segments[k].first, segments[k].last),
                                          segments[k].first, segments[k].last)
    /\ Largest(best_upward_move(c), 1, Len(c))
    /\ \A k \in DOMAIN events : ~Rises(c, events[k].move, best_upward_move(c))
    /\ \A j, k \in DOMAIN events : j < k => events[j].move.high <= events[k].move.low

(* A move that ended in a pullback is final: more candles add events, and  *)
(* can change only the one still running.                                  *)
EndedMovesStay(c, longer, threshold, pullback) ==
  LET ended == SelectSeq(detect_move_events(c, threshold, pullback), LAMBDA e : e.split # 0) IN
  IsPrefix(ended, detect_move_events(longer, threshold, pullback))
=============================================================================
