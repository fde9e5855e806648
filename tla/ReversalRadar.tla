---------------------------- MODULE ReversalRadar ----------------------------
(***************************************************************************)
(* The store of the reversal radar for one stock: snapshots of the newest  *)
(* verdict, replays of earlier sessions, the outcomes measured on later    *)
(* candles, and the promotion of a run's item to the watchlist by way of a *)
(* signal hit.  A verdict is what RadarSignals says on the candles up to a *)
(* session.  Every method is a sequence of transactions of one caller; the *)
(* candles grow and the caller may die between two of them.                *)
(***************************************************************************)
EXTENDS Integers, Sequences, FiniteSets, FiniteSetsExt

CONSTANTS Horizon,       \* 10: sessions an outcome looks ahead
          MaxSessions, MaxRadarRuns, MaxHits   \* bounds

VARIABLES sessions,      \* what the stock did each session: "idle", or its verdict
          radarRuns,     \* [kind, date], kind "live" or "backfill"
          radarItems,    \* [run, date, eligible, counted]; counted -1 is pending
          radarHits,     \* sequence of [date, run]
          promoted,      \* watchlist candidates: [hit, date]
          radarWork      \* the call at work: [at, kind, dates, found, run, left, hit]
radarVars == <<sessions, radarRuns, radarItems, radarHits, promoted, radarWork>>

Verdicts == {"none", "weak", "eligible"}   \* no item, an item below promotion, or above
Idle == [at |-> "idle", kind |-> "live", dates |-> <<>>, found |-> {}, run |-> 0, left |-> {}, hit |-> 0]
Init == sessions = <<>> /\ radarRuns = <<>> /\ radarItems = {} /\ radarHits = <<>> /\ promoted = {}
        /\ radarWork = Idle
Goto(at) == radarWork' = [radarWork EXCEPT !.at = at]

Traded == {d \in DOMAIN sessions : sessions[d] # "idle"}
(* scan_nifty_500_as_of: the verdict on the candles up to a session is     *)
(* dated by the stock's last candle, which may lie before that session.    *)
ScanAsOf(session) ==
  {d \in Traded : /\ d <= session /\ \A e \in Traded : e <= session => e <= d
                  /\ sessions[d] # "none"}
FutureCandles(date) == Min({Horizon, Cardinality({d \in Traded : d > date})})

NewSession == /\ Len(sessions) < MaxSessions
              /\ \E v \in Verdicts \cup {"idle"} : sessions' = Append(sessions, v)
              /\ UNCHANGED <<radarRuns, radarItems, radarHits, promoted, radarWork>>

(* refresh_nifty_500_snapshot: the scan is read here, the run created from *)
(* it later.                                                               *)
Refresh == /\ radarWork.at = "idle" /\ sessions # <<>> /\ Len(radarRuns) < MaxRadarRuns
           /\ radarWork' = [Idle EXCEPT !.at = "create", !.dates = <<Len(sessions)>>,
                                        !.found = ScanAsOf(Len(sessions))]
           /\ UNCHANGED <<sessions, radarRuns, radarItems, radarHits, promoted>>

(* Leaves the horizon after the last date; every step-th of the rest.      *)
select_replay_dates(step) ==
  [k \in 1 .. (Len(sessions) - Horizon + step - 1) \div step |-> 1 + (k - 1) * step]

Backfill(step) ==
  LET dates == select_replay_dates(step) IN
  /\ radarWork.at = "idle" /\ dates # <<>> /\ Len(radarRuns) + Len(dates) <= MaxRadarRuns
  /\ radarWork' = [Idle EXCEPT !.at = "create", !.kind = "backfill", !.dates = dates,
                               !.found = ScanAsOf(dates[1])]
  /\ UNCHANGED <<sessions, radarRuns, radarItems, radarHits, promoted>>

CreateRun == /\ radarWork.at = "create"
             /\ radarRuns' = Append(radarRuns,
                  [kind |-> radarWork.kind, date |-> radarWork.dates[1]])
             /\ radarWork' = [radarWork EXCEPT !.at = "insert", !.run = Len(radarRuns) + 1]
             /\ UNCHANGED <<sessions, radarItems, radarHits, promoted>>

Item(d) == [run |-> radarWork.run, date |-> d, eligible |-> sessions[d] = "eligible", counted |-> -1]

(* Ends a refresh; a backfill measures its items and goes to the next date.*)
InsertItems == /\ radarWork.at = "insert"
               /\ radarItems' = radarItems \cup {Item(d) : d \in radarWork.found}
               /\ radarWork' = IF radarWork.kind = "live" THEN Idle
                               ELSE [radarWork EXCEPT !.at = "measure",
                                                      !.left = {Item(d) : d \in radarWork.found}]
               /\ UNCHANGED <<sessions, radarRuns, radarHits, promoted>>

(* calculate_outcome and update_item_outcome.                              *)
Measured(item) == [item EXCEPT !.counted = FutureCandles(item.date)]
Measure == \E item \in radarWork.left :
             /\ radarWork.at = "measure"
             /\ radarItems' = (radarItems \ {item}) \cup {Measured(item)}
             /\ radarWork' = [radarWork EXCEPT !.left = @ \ {item}]
             /\ UNCHANGED <<sessions, radarRuns, radarHits, promoted>>

NextDate == LET rest == Tail(radarWork.dates) IN
            /\ radarWork.at = "measure" /\ radarWork.left = {}
            /\ radarWork' = IF radarWork.kind = "live" \/ rest = <<>> THEN Idle
                            ELSE [radarWork EXCEPT !.at = "create", !.dates = rest,
                                                   !.found = ScanAsOf(rest[1])]
            /\ UNCHANGED <<sessions, radarRuns, radarItems, radarHits, promoted>>

(* update_outcomes: the items not complete, of every run.                  *)
UpdateOutcomes == /\ radarWork.at = "idle" /\ \E i \in radarItems : i.counted < Horizon
                  /\ radarWork' = [Idle EXCEPT !.at = "measure",
                                               !.left = {i \in radarItems : i.counted < Horizon}]
                  /\ UNCHANGED <<sessions, radarRuns, radarItems, radarHits, promoted>>

(* promote_to_watchlist of a named run, or of the newest live one; an item *)
(* whose stock and date already have a candidate is a duplicate.           *)
Promote(run) ==
  LET known == {c.date : c \in promoted} IN
  /\ radarWork.at = "idle"
  /\ \E i \in radarItems : /\ i.run = run /\ i.eligible /\ i.date \notin known
                           /\ radarWork' = [Idle EXCEPT !.at = "hit", !.left = {i}]
  /\ UNCHANGED <<sessions, radarRuns, radarItems, radarHits, promoted>>

HitsOf(date) == {h \in DOMAIN radarHits : radarHits[h].date = date}

\* Mutant of EnsureHit: a promotion inserts a hit of its own.
InsertHit == /\ radarWork.at = "hit" /\ Len(radarHits) < MaxHits
             /\ \E i \in radarWork.left : radarHits' = Append(radarHits, [date |-> i.date, run |-> i.run])
             /\ radarWork' = [radarWork EXCEPT !.at = "candidate", !.hit = Len(radarHits) + 1]
             /\ UNCHANGED <<sessions, radarRuns, radarItems, promoted>>

(* ensure_reversal_radar_signal_hit: the hit of the date if there is one.  *)
EnsureHit ==
  \E i \in radarWork.left :
    LET old == HitsOf(i.date) IN
    /\ radarWork.at = "hit" /\ (old = {} => Len(radarHits) < MaxHits)
    /\ radarHits' = IF old = {} THEN Append(radarHits, [date |-> i.date, run |-> i.run]) ELSE radarHits
    /\ radarWork' = [radarWork EXCEPT !.at = "candidate",
                                      !.hit = IF old = {} THEN Len(radarHits) + 1 ELSE Max(old)]
    /\ UNCHANGED <<sessions, radarRuns, radarItems, promoted>>

(* upsert_from_review: the candidate of this hit, unless the stock and     *)
(* date have one of another hit.                                           *)
InsertCandidate ==
  /\ radarWork.at = "candidate"
  /\ promoted' = IF \E c \in promoted : c.date = radarHits[radarWork.hit].date THEN promoted
                 ELSE promoted \cup {[hit |-> radarWork.hit, date |-> radarHits[radarWork.hit].date]}
  /\ radarWork' = Idle
  /\ UNCHANGED <<sessions, radarRuns, radarItems, radarHits>>

RadarDies == /\ radarWork.at # "idle" /\ radarWork' = Idle
             /\ UNCHANGED <<sessions, radarRuns, radarItems, radarHits, promoted>>

Next == \/ NewSession \/ Refresh \/ \E step \in 1 .. 2 : Backfill(step)
        \/ CreateRun \/ InsertItems \/ Measure \/ NextDate \/ UpdateOutcomes
        \/ \E run \in DOMAIN radarRuns : Promote(run)
        \/ EnsureHit \/ InsertCandidate \/ RadarDies
Spec == Init /\ [][Next]_radarVars
------------------------------------------------------------------------------
(* A stock and date become one hit and one candidate, although live runs   *)
(* and replays hold the same item more than once, the stock's date stands  *)
(* still while it does not trade, and a promotion may die between the two. *)
PromotedOnce ==
  /\ \A h, k \in DOMAIN radarHits : radarHits[h].date = radarHits[k].date => h = k
  /\ \A c \in promoted : c.date = radarHits[c.hit].date /\ sessions[c.date] = "eligible"
  /\ \A c, d \in promoted : c.date = d.date => c = d

(* An outcome never counts a candle that is not there, and a replay's item *)
(* of a stock that never paused has its whole horizon when measured.       *)
OutcomesHonest ==
  \A i \in radarItems : /\ i.counted <= FutureCandles(i.date)
                        /\ /\ radarRuns[i.run].kind = "backfill" /\ i.counted # -1
                           /\ Traded = DOMAIN sessions
                           => i.counted = Horizon
RadarTruthful == PromotedOnce /\ OutcomesHonest

(* A measured outcome never loses candles, a complete one never changes.   *)
OutcomesGrow ==
  \A i \in radarItems : \E j \in radarItems' :
    j.run = i.run /\ j.date = i.date /\ j.eligible = i.eligible /\ j.counted >= i.counted
==============================================================================
