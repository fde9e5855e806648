--------------------------- MODULE StrategySignals ---------------------------
(***************************************************************************)
(* What the end-of-day strategies read out of one candle series c, as of   *)
(* its last session: the confirmed higher low after a crash (v7b logger    *)
(* and v8_demo), the crashes still worth watching (v8_demo) and the        *)
(* breakout from a sideways base after an uptrend (uptrend_sideways).      *)
(* Liquidity and down-market capture, which can only withhold a signal,    *)
(* are left out.                                                           *)
(***************************************************************************)
EXTENDS Integers, Sequences, FiniteSetsExt, SequencesExt

CONSTANTS FeatureSessions,                  \* shortest series with features: 250
          SmaSessions, HighSessions, LowSessions,  \* rolling windows: 50, 20, 5
          WATCH_WINDOW_DAYS,                \* 14, also the length of the logger's loop
          Cooldown,                         \* sessions without a new crash: 15
          BASE_DURATIONS, PRE_RETURN_DAYS   \* of the sideways base: 10..30, 60

High(c, S) == Max({c[k].high : k \in S})
Low(c, S) == Min({c[k].low : k \in S})
Closes(c, S) == MapThenSumSet(LAMBDA k : c[k].close, S)
------------------------------------------------------------------------------
(* A crash: 15 % below the high of its window, the lowest low of its       *)
(* window and a close below the average.                                   *)
is_crash(c, i) ==
  /\ Len(c) >= FeatureSessions /\ i >= Max({SmaSessions, HighSessions, LowSessions})
  /\ LET high == High(c, i - HighSessions + 1 .. i) IN 100 * (high - c[i].low) >= 15 * high
  /\ c[i].low = Low(c, i - LowSessions + 1 .. i)
  /\ SmaSessions * c[i].close < Closes(c, i - SmaSessions + 1 .. i)

Crashes(c) == SetToSortSeq({i \in DOMAIN c : is_crash(c, i)}, <)

(* One session k after the crash: undercut, broken out above the reaction  *)
(* high once a higher low has formed, or alive.                            *)
After(c, crash, w, k) ==
  IF w.state # "alive" THEN w
  ELSE IF c[k].low < c[crash].low THEN [w EXCEPT !.state = "invalidated"]
  ELSE IF c[k].high > w.high /\ w.formed THEN [w EXCEPT !.state = "confirmed", !.at = k]
  ELSE [w EXCEPT !.formed = @ \/ (c[k].low > c[crash].low /\ c[k].low < c[k - 1].low),
                 !.high = Max({@, c[k].high})]

Walk(c, crash) ==
  FoldLeft(LAMBDA w, k : After(c, crash, w, k),
           [state |-> "alive", high |-> c[crash].high, formed |-> FALSE, at |-> 0],
           [n \in 1 .. Min({WATCH_WINDOW_DAYS, Len(c) - crash}) |-> crash + n])

(* The crashes the logger follows, each with its breakout: those within    *)
(* the cooldown of the last one, and one in the last session, are skipped. *)
Followed(c) ==
  FoldLeft(LAMBDA s, i :
             IF i < s.last_entry + Cooldown \/ i = Len(c) THEN s
             ELSE LET w == Walk(c, i) IN
                  IF w.state = "confirmed"
                  THEN [last_entry |-> w.at + 1, signals |-> s.signals \cup {[crash |-> i, at |-> w.at]}]
                  ELSE [s EXCEPT !.last_entry = i + 1],
           [last_entry |-> -999, signals |-> {}], Crashes(c))

find_confirmed_higher_low_signal(c) == {s \in Followed(c).signals : s.at = Len(c)}

(* The newest crash of the window that is neither undercut nor confirmed.  *)
find_watch_candidate(c) ==
  LET alive == {i \in Len(c) - WATCH_WINDOW_DAYS .. Len(c) :
                  i \in DOMAIN c /\ is_crash(c, i) /\ Walk(c, i).state = "alive"}
  IN IF alive = {} THEN {} ELSE {Max(alive)}

(* The last session against the base of the d sessions before it, which    *)
(* must follow a rise of 10 % and be at most 15 % high.                    *)
BaseStatus(c, d) ==
  LET now == c[Len(c)]
      base == Len(c) - d .. Len(c) - 1
      pre == Len(c) - d - PRE_RETURN_DAYS
      high == High(c, base)
      low == Low(c, base)
  IN IF \/ pre < 1
        \/ 10 * c[Len(c) - d - 1].close < 11 * c[pre].close
        \/ 100 * (high - low) > 15 * low
     THEN "none"
     ELSE IF now.high > high /\ now.low < low THEN "same_day_both"
     ELSE IF now.high > high /\ 1000 * now.close >= 1005 * high THEN "upward_breakout"
     ELSE IF 100 * now.close >= 98 * high /\ now.low >= low THEN "near_breakout_watch"
     ELSE IF now.low >= low /\ now.close <= high THEN "in_base_watch"
     ELSE "none"

find_latest_uptrend_sideways(c) ==
  FoldLeft(LAMBDA best, d :
             LET status == BaseStatus(c, d) IN
             IF \/ status # "none" /\ best.status = "none"
                \/ status = "upward_breakout" /\ best.status # "upward_breakout"
             THEN [status |-> status, duration |-> d] ELSE best,
           [status |-> "none", duration |-> 0], SetToSortSeq(BASE_DURATIONS, <))
------------------------------------------------------------------------------
HigherLowBetween(c, crash, k) ==
  \E h \in crash + 1 .. k - 1 : c[h].low > c[crash].low /\ c[h].low < c[h - 1].low
Breaks(c, crash, k) ==
  /\ HigherLowBetween(c, crash, k)
  /\ c[k].high > High(c, crash .. k - 1)

(* A signal is the first break of every high since a crash whose low held  *)
(* and was followed by a higher low; that crash was on the watch list the  *)
(* session before and has left it.                                         *)
SignalsAreFirstBreaks(c) ==
  \A s \in find_confirmed_higher_low_signal(c) :
    /\ Breaks(c, s.crash, Len(c)) /\ ~ \E k \in s.crash + 1 .. Len(c) - 1 : Breaks(c, s.crash, k)
    /\ c[s.crash].low = Low(c, s.crash .. Len(c))
    /\ s.crash \notin find_watch_candidate(c)
    /\ Len(c) > FeatureSessions => find_watch_candidate(Front(c)) # {}

(* The reported base is a breakout whenever any duration breaks out, and   *)
(* two breakouts in a row close at rising prices.                          *)
BreakoutsWin(c) ==
  LET best == find_latest_uptrend_sideways(c)
      breaking == {d \in BASE_DURATIONS : BaseStatus(c, d) = "upward_breakout"}
  IN /\ breaking # {} => best = [status |-> "upward_breakout", duration |-> Min(breaking)]
     /\ best.status = "none" => \A d \in BASE_DURATIONS : BaseStatus(c, d) = "none"
     /\ breaking # {} /\ find_latest_uptrend_sideways(Front(c)).status = "upward_breakout" =>
          c[Len(c)].close > c[Len(c) - 1].close
==============================================================================
