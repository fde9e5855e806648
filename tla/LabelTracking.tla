--------------------------- MODULE LabelTracking ---------------------------
(***************************************************************************)
(* The labelled samples of the ML branch and the shadow journal of its     *)
(* scored shortlists:                                                      *)
(*   - app/ml_samples.py generates, for one symbol at a time and behind    *)
(*     the quality gate, a sample per stored day; a sample with a full     *)
(*     future window is labelled once and locked, one without is rebuilt;  *)
(*   - app/scripts/track_shadow_*.py insert OBSERVING rows for the head of *)
(*     a ranking; app/scripts/resolve_shadow_outcomes.py classifies them   *)
(*     in one read-only pass and then writes them one transaction a row.   *)
(* Candles arrive, are revised and are filled in later meanwhile.          *)
(*                                                                         *)
(* The samples of a symbol are generated by one caller at a time (the      *)
(* batch script); one resolver runs at a time.  `touched' is history: the  *)
(* days of a symbol that changed after they had gone by.                   *)
(***************************************************************************)
EXTENDS DataQuality

CONSTANTS Bars(_),        \* bars a session may bring to a symbol
          Symbols, Models,
          MayMiss,        \* the symbols a fetch may bring nothing of
          ML_INPUT_WINDOW_SESSIONS, ML_FUTURE_WINDOW_SESSIONS,
          ML_TARGET_PERCENT, ML_STOP_PERCENT,
          MaxDays, MaxTouches   \* bounds

VARIABLES book,       \* daily_candles
          fetched,    \* the latest row of historical_fetch_runs with its items
          samples,    \* ml_samples: <<symbol, day>> -> outcome
          shadow,     \* shadow_tracking: <<model, day, symbol>> -> outcome
          resolving,  \* the resolver's classified rows still to be written
          touched
labelVars == <<book, fetched, samples, shadow, resolving, touched>>

Insufficient == "INSUFFICIENT_FUTURE_DATA"
Outcomes == {"WIN", "LOSS", "TIMEOUT", "AMBIGUOUS"}

----------------------------------------------------------------------------
\* classify_outcome over the stored days after `day'; a full window ends at
\* WindowEnd.
FutureDays(s, day) == {t \in StoredDays(book, s) : t > day}

Future(s, day) ==
    {t \in FutureDays(s, day) :
        Cardinality({u \in FutureDays(s, day) : u <= t}) <= ML_FUTURE_WINDOW_SESSIONS}

classify_outcome(s, day) ==
    LET entry_close == book[s][day].close
        Target(t) == book[s][t].high * 100 >= entry_close * (100 + ML_TARGET_PERCENT)
        Stop(t) == book[s][t].low * 100 <= entry_close * (100 - ML_STOP_PERCENT)
        hits == {t \in Future(s, day) : Target(t) \/ Stop(t)}
        hit == FirstOf(hits)
    IN  CASE Cardinality(Future(s, day)) < ML_FUTURE_WINDOW_SESSIONS -> Insufficient
          [] Cardinality(Future(s, day)) = ML_FUTURE_WINDOW_SESSIONS /\ hits = {} -> "TIMEOUT"
          [] OTHER -> CASE Target(hit) /\ Stop(hit) -> "AMBIGUOUS"
                        [] Target(hit) /\ ~Stop(hit) -> "WIN"
                        [] OTHER -> "LOSS"

\* The days generate_one samples: a full input window of stored days.
SampledDays(s) ==
    {t \in StoredDays(book, s) :
        Cardinality({u \in StoredDays(book, s) : u <= t}) >= ML_INPUT_WINDOW_SESSIONS}

Locked(s, day) == <<s, day>> \in DOMAIN samples /\ samples[<<s, day>>] # Insufficient

----------------------------------------------------------------------------
Init ==
    /\ book = [s \in Symbols |-> <<>>]
    /\ fetched = [from |-> 1, before |-> 1, status |-> [s \in Symbols |-> "completed"],
                  complete |-> [s \in Symbols |-> FALSE]]
    /\ samples = <<>> /\ shadow = <<>> /\ resolving = <<>> /\ touched = {}

Days == IF Symbols = {} THEN 0 ELSE Len(book[CHOOSE s \in Symbols : TRUE])

\* A session is fetched by a new run over `from' .. today: a bar, or none
\* (failed, or nothing new) of each symbol.  A run over the whole window may
\* find the floor of the source, which makes the archives complete.
NextDay ==
    /\ Days < MaxDays
    /\ \E bar \in [Symbols -> UNION {Bars(s) : s \in Symbols} \cup {Missing}] :
          /\ \A s \in Symbols : bar[s] \in Bars(s) \/ (bar[s] = Missing /\ s \in MayMiss)
          /\ \E s \in Symbols : bar[s] # Missing
          /\ \E status \in [Symbols -> {"completed", "failed", "skipped_no_new_data"}],
                from \in {1, Days + 1},
                complete \in {fetched.complete, [s \in Symbols |-> TRUE]} :
               /\ from = Days + 1 => complete = fetched.complete
               /\ \A s \in Symbols : (status[s] = "completed") <=> (bar[s] # Missing)
               /\ fetched' = [from |-> from, before |-> Days + 2, status |-> status,
                              complete |-> complete]
          /\ book' = [s \in Symbols |-> Append(book[s], bar[s])]
    /\ UNCHANGED <<samples, shadow, resolving, touched>>

\* A later run stores another candle for a day gone by: the missing one, or
\* a corrected one over it (upsert_candles).
Retouch(s) ==
    /\ Cardinality(touched) < MaxTouches
    /\ \E t \in DOMAIN book[s], bar \in Bars(s) :
          /\ bar # book[s][t]
          /\ book' = [book EXCEPT ![s][t] = bar]
          /\ touched' = touched \cup {<<s, t>>}
    /\ fetched' = [fetched EXCEPT !.status[s] = "completed"]
    /\ UNCHANGED <<samples, shadow, resolving>>

\* generate_one of a symbol that passes the gate.  A dry run writes nothing.
Generate(s) ==
    LET open == {t \in SampledDays(s) : ~Locked(s, t)}
    IN  /\ open # {} /\ quality_status(book, fetched, s) = "healthy"
        /\ samples' = [k \in DOMAIN samples \cup {<<s, t>> : t \in open} |->
                         IF k[1] = s /\ k[2] \in open THEN classify_outcome(s, k[2]) ELSE samples[k]]
        /\ UNCHANGED <<book, fetched, shadow, resolving, touched>>

\* The shortlist of a scored day: the head of its ranking, which of fewer
\* than thirty symbols is one.  A row that exists is left alone (UNIQUE).
\* Bound: only of days that have a full window within MaxDays.
Track(model) ==
    \E day \in 1 .. Days, picked \in Symbols :
        /\ day + ML_FUTURE_WINDOW_SESSIONS <= MaxDays
        /\ <<picked, day>> \in DOMAIN samples
        /\ <<model, day, picked>> \notin DOMAIN shadow
        /\ shadow' = [r \in DOMAIN shadow \cup {<<model, day, picked>>} |->
                        IF r \in DOMAIN shadow THEN shadow[r] ELSE "OBSERVING"]
        /\ UNCHANGED <<book, fetched, samples, resolving, touched>>

----------------------------------------------------------------------------
\* run_resolver with --execute: all OBSERVING rows of the model (or of every
\* model, or of one scored date) are classified first ...
Observing(models, days) ==
    {r \in DOMAIN shadow : shadow[r] = "OBSERVING" /\ r[1] \in models /\ r[2] \in days}

\* Mutant of Ready: a record is ready as soon as its entry close is stored.
ReadyAtEntry(r) == r[2] \in StoredDays(book, r[3])

Ready(r) == /\ r[2] \in StoredDays(book, r[3])
            /\ classify_outcome(r[3], r[2]) # Insufficient

Classify ==
    /\ resolving = <<>>
    /\ \E models \in {{m} : m \in Models} \cup {Models},
          days \in {{t} : t \in 1 .. Days} \cup {1 .. Days} :
          LET ready == {r \in Observing(models, days) : Ready(r)}
          IN  /\ ready # {}
              /\ resolving' = [r \in ready |-> classify_outcome(r[3], r[2])]
    /\ UNCHANGED <<book, fetched, samples, shadow, touched>>

\* ... and then written row by row, each in a transaction of its own.
WriteOutcome ==
    \E r \in DOMAIN resolving :
        /\ shadow' = [shadow EXCEPT ![r] = resolving[r]]
        /\ resolving' = [q \in DOMAIN resolving \ {r} |-> resolving[q]]
        /\ UNCHANGED <<book, fetched, samples, touched>>

\* The resolver is killed between two rows.
ResolverDies ==
    /\ resolving # <<>> /\ resolving' = <<>>
    /\ UNCHANGED <<book, fetched, samples, shadow, touched>>

Next == \/ NextDay
             \/ \E s \in Symbols : Retouch(s) \/ Generate(s)
             \/ \E m \in Models : Track(m)
             \/ Classify \/ WriteOutcome \/ ResolverDies

----------------------------------------------------------------------------
Untouched(s, day) ==
    LET window == Future(s, day)
    IN  \A t \in day .. Days : <<s, t>> \in touched => window # {} /\ t > LastOf(window)

\* What a label claims of the full window after its day: which barrier was
\* reached, and that the other one was not reached on that day or before it.
Claims(label, s, day) ==
    LET entry == book[s][day].close
        Up(t) == book[s][t].high * 100 >= entry * (100 + ML_TARGET_PERCENT)
        Down(t) == book[s][t].low * 100 <= entry * (100 - ML_STOP_PERCENT)
        Before(t) == {u \in Future(s, day) : u < t}
        First(A(_), B(_)) == \E t \in Future(s, day) :
            A(t) /\ ~B(t) /\ \A u \in Before(t) : ~A(u) /\ ~B(u)
    IN  /\ Cardinality(Future(s, day)) = ML_FUTURE_WINDOW_SESSIONS
        /\ label \in Outcomes
        /\ label = "WIN" <=> First(Up, Down)
        /\ label = "LOSS" <=> First(Down, Up)
        /\ label = "TIMEOUT" <=> \A t \in Future(s, day) : ~Up(t) /\ ~Down(t)

\* A label says what the stored candles say: a locked sample, and a resolved
\* row of the shadow journal, claim the outcome of their full window as long
\* as no candle of it came or changed afterwards - so both models, and the
\* sample, agree on one symbol and day.
LabelsHonest ==
    /\ \A k \in DOMAIN samples :
          samples[k] # Insufficient /\ Untouched(k[1], k[2]) => Claims(samples[k], k[1], k[2])
    /\ \A r \in DOMAIN shadow :
          shadow[r] # "OBSERVING" /\ Untouched(r[3], r[2]) => Claims(shadow[r], r[3], r[2])

\* A label once given stays: neither a rebuild nor a later candle changes a
\* locked sample, and a resolved row is not resolved again.
LabelsStay ==
    /\ \A k \in DOMAIN samples : samples[k] # Insufficient =>
          k \in DOMAIN samples' /\ samples'[k] = samples[k]
    /\ \A r \in DOMAIN shadow : shadow[r] # "OBSERVING" =>
          r \in DOMAIN shadow' /\ shadow'[r] = shadow[r]
============================================================================
