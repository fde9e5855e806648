---------------------------- MODULE DataQuality ----------------------------
(***************************************************************************)
(* The data-quality report of the swing app, app/data_quality.py: every    *)
(* item of the latest fetch run is healthy, warned or blocked by what is   *)
(* stored of it in the run's window.  The sample generator reads it as its *)
(* gate.                                                                   *)
(*                                                                         *)
(* `book' maps a symbol to the sequence of its daily bars, one per session *)
(* day, Missing where no candle is stored; `run' is the latest fetch run:  *)
(* its window [from, before) and, per symbol, the item's status and the    *)
(* archive's complete_available_history.                                   *)
(***************************************************************************)
EXTENDS Integers, Sequences, FiniteSets

CONSTANTS CoveragePercent,      \* data_quality_session_coverage_ratio, in %
          BlockMissingSessions, \* data_quality_block_missing_sessions
          ExtremeMovePercent    \* data_quality_extreme_move_percent

\* A day of which the database holds no candle of the symbol.
Missing == [open |-> 0, high |-> 0, low |-> 0, close |-> 0, volume |-> -1]

Larger(a, b) == IF a >= b THEN a ELSE b

Stored(book, s, t) == t \in DOMAIN book[s] /\ book[s][t] # Missing
StoredDays(book, s) == {t \in DOMAIN book[s] : book[s][t] # Missing}

InWindow(run, days) == {t \in days : run.from <= t /\ t < run.before}

LastOf(days) == CHOOSE t \in days : \A u \in days : u <= t
FirstOf(days) == CHOOSE t \in days : \A u \in days : t <= u

\* The sessions the universe traded: days stored for enough mapped symbols.
SessionsOf(book, run) ==
    LET Mapped == {s \in DOMAIN book : run.status[s] # "skipped_unmapped"}
        min_coverage == Larger(1, (Cardinality(Mapped) * CoveragePercent) \div 100)
    IN  {t \in run.from .. run.before - 1 :
            Cardinality({s \in Mapped : Stored(book, s, t)}) >= min_coverage}

\* A symbol whose whole available history is stored answers only from its
\* first candle on (expected_sessions_for_item).
ExpectedSessions(book, run, s) ==
    IF run.complete[s] /\ StoredDays(book, s) # {}
    THEN {t \in SessionsOf(book, run) : t >= FirstOf(StoredDays(book, s))}
    ELSE SessionsOf(book, run)

InvalidOhlc(b) ==
    \/ \E p \in {b.open, b.high, b.low, b.close} : p <= 0
    \/ b.high < Larger(b.open, b.close)
    \/ b.low > b.open \/ b.low > b.close \/ b.low > b.high

Apart(a, b) == IF a >= b THEN a - b ELSE b - a

\* Close or gap against the previous stored close.
ExtremeMove(book, run, s, t) ==
    LET before == {u \in InWindow(run, StoredDays(book, s)) : u < t}
        last == book[s][LastOf(before)].close
        Percent(p) == Apart(p, last) * 100 >= ExtremeMovePercent * last
    IN  /\ before # {} /\ last > 0
        /\ Percent(book[s][t].close) \/ Percent(book[s][t].open)

\* _classify_item: the issues that block, and those that only warn.
BlockingIssues(book, run, s) ==
    LET days == InWindow(run, StoredDays(book, s))
        sessions == SessionsOf(book, run)
        missing == ExpectedSessions(book, run, s) \ days
        fetched == run.status[s] \notin {"skipped_unmapped", "failed"}
        looked == fetched /\ run.status[s] # "skipped_no_new_data"
        When(condition, issue) == IF condition THEN {issue} ELSE {}
    IN  When(run.status[s] = "skipped_unmapped", "UNMAPPED_INSTRUMENT")
        \cup When(run.status[s] = "failed", "FETCH_FAILED")
        \cup When(looked /\ days = {}, "NO_CANDLES")
        \cup When(looked /\ sessions # {} /\ LastOf(sessions) \notin days,
                  "STALE_LATEST_CANDLE")
        \cup When(looked /\ missing # {} /\ Cardinality(missing) >= BlockMissingSessions,
                  "MISSING_SESSIONS")
        \cup When(fetched /\ \E t \in days : InvalidOhlc(book[s][t]), "INVALID_OHLC")
        \cup When(fetched /\ \E t \in days : book[s][t].volume < 0, "NEGATIVE_VOLUME")

Warned(book, run, s) ==
    LET days == InWindow(run, StoredDays(book, s))
    IN  /\ run.status[s] \notin {"skipped_unmapped", "failed"}
        /\ \/ /\ run.status[s] # "skipped_no_new_data"
              /\ ExpectedSessions(book, run, s) \ days # {}
           \/ \E t \in days : book[s][t].volume = 0 \/ ExtremeMove(book, run, s, t)

quality_status(book, run, s) ==
    IF BlockingIssues(book, run, s) # {} THEN "blocked"
    ELSE IF Warned(book, run, s) THEN "warning" ELSE "healthy"
============================================================================
