---------------------------- MODULE MCOperations ----------------------------
(***************************************************************************)
(* One run for the parts of the repository that share no state with each   *)
(* other: a behaviour picks one of them (`system') and is a behaviour of   *)
(* that module, the variables of the others staying as they start.  What   *)
(* OperationsProofs proves something about keeps its parameters; of the    *)
(* others the small values are given where the module is instantiated.     *)
(***************************************************************************)
EXTENDS Integers, Sequences, FiniteSets, TLC

CONSTANTS
  Invocations, MaxChanges,                         \* ContinuityInit
  Rows, Syncs, MaxClock, MaxVersion, MaxFailures,  \* CandleMirror
  Minutes, Intervals, Answers,                     \* IntradayStore
  Universe, Kinds, MaxScans,                       \* ScanRuns
  Horizon, MaxSessions, MaxRadarRuns, MaxHits,     \* ReversalRadar
  Candles, Reviews, AnchorLow, InitialCash,        \* DemoDesk
  MaxHolding, ExpirySessions, MaxDeskCandles, MaxDeskHits, MaxOrders, MaxDeskDeaths,
  InstrumentFiles, ConstituentFiles, OldListings,  \* ReferenceData
  SegmentFilter, MaxImports, MaxDownloads,
  Bars(_), Symbols, Models, MayMiss,               \* LabelTracking
  ML_INPUT_WINDOW_SESSIONS, ML_FUTURE_WINDOW_SESSIONS, ML_TARGET_PERCENT, ML_STOP_PERCENT,
  MaxDays, MaxTouches, CoveragePercent, BlockMissingSessions, ExtremeMovePercent,
  MaxJobs,                                         \* TrainingJobs
  LoggerSessions, LoggerUniverse, MayFail,         \* ForwardLogger
  MAX_SLOTS, TimeStop, StartingEquity, MaxLoggerSessions, MaxForced, MaxLogDeaths,
  Shapes, SMA_WINDOW, SLOPE_LOOKBACK, RANGE_WINDOW, \* CandleSeries
  LookbackSessions, VolumeSmaSessions, REVERSAL_TREND_LOOKBACK, DEFAULT_PIVOT_LEFT,
  DEFAULT_PIVOT_RIGHT, ExtremeWindows, MaxCandles

\* A run of the initialisation is not one of the strategies' jobs; the tables
\* are finite; a row is of a minute of the session or of none; a position may
\* be held for a session.
ASSUME OperationsAssumption ==
  /\ Invocations \cap {"", "job"} = {} /\ MaxChanges \in Nat
  /\ IsFiniteSet(Rows) /\ Rows # {} /\ {MaxClock, MaxVersion, MaxFailures} \subseteq Nat
  /\ Minutes \in Nat \ {0} /\ Intervals \subseteq Nat \ {0}
  /\ \A a \in Answers : \A k \in DOMAIN a.rows :
       a.rows[k].minute \in -1 .. Minutes /\ a.rows[k].price \in Nat
  /\ Universe \subseteq Nat /\ IsFiniteSet(Universe)
  /\ {MaxScans, Horizon, MaxSessions, MaxRadarRuns, MaxHits} \subseteq Nat
  /\ {ML_FUTURE_WINDOW_SESSIONS, MaxDays, MaxTouches, MaxJobs} \subseteq Nat
  /\ \A c \in Candles : {c.open, c.high, c.low, c.close} \subseteq Int
  /\ \A r \in Reviews : {r.low, r.high, r.breakout, r.stop, r.target} \subseteq Int
  /\ {AnchorLow, InitialCash, ExpirySessions} \subseteq Int /\ MaxHolding \in Nat \ {0} /\ MaxDeskCandles \in Nat
  /\ IsFiniteSet(OldListings) /\ {MaxImports, MaxDownloads} \subseteq Nat
  /\ \A f \in InstrumentFiles : DOMAIN f \subseteq Nat
  /\ \A f \in ConstituentFiles : DOMAIN f \subseteq Nat
  /\ \A s \in Symbols : \A b \in Bars(s) : b.volume >= 0
  /\ \A s \in LoggerSessions : \A x \in DOMAIN s.bars :
       s.bars[x].close \in Nat /\ s.bars[x].open \in Nat \ {0}
  /\ StartingEquity \in Nat /\ MAX_SLOTS \in Nat \ {0}
  /\ \A s \in Shapes : {s.open, s.high, s.low, s.close, s.volume} \subseteq Int
  /\ {SMA_WINDOW, SLOPE_LOOKBACK, LookbackSessions, VolumeSmaSessions, DEFAULT_PIVOT_LEFT, DEFAULT_PIVOT_RIGHT} \subseteq Nat
  /\ RANGE_WINDOW \in 1 .. SMA_WINDOW + SLOPE_LOOKBACK /\ REVERSAL_TREND_LOOKBACK \in Nat \ {0}

Systems == {"init", "mirror", "intraday", "desk", "scans", "radar",
            "reference", "series", "labels", "jobs", "logger"}

VARIABLES system,
  ledgers, market, marker, metadata, journal, run, changes,
  clock, source, writing, target, watermark, sync, straddled, syncFailures,
  symbolDay, minute, quarantine, reconciled, derived, command,
  candles, hits, candidates, orders, nextOrder, positions, account,
  snapshots, outcomes, work, deaths, unlearned,
  scans, scanRows, regimes, scanning,
  sessions, radarRuns, radarItems, radarHits, promoted, radarWork,
  instruments, constituents, imports, downloads, importing,
  history,
  book, fetched, samples, shadow, resolving, touched,
  jobs,
  stored, portfolio, tradeLedger, dailyLog, logger, lost, forced, logDeaths

initVars == <<ledgers, market, marker, metadata, journal, run, changes>>
mirrorVars == <<clock, source, writing, target, watermark, sync, straddled, syncFailures>>
intradayVars == <<symbolDay, minute, quarantine, reconciled, derived, command>>
deskVars == <<candles, hits, candidates, orders, nextOrder, positions, account,
              snapshots, outcomes, work, deaths, unlearned>>
scanVars == <<scans, scanRows, regimes, scanning>>
radarVars == <<sessions, radarRuns, radarItems, radarHits, promoted, radarWork>>
refVars == <<instruments, constituents, imports, downloads, importing>>
labelVars == <<book, fetched, samples, shadow, resolving, touched>>
loggerVars == <<stored, portfolio, tradeLedger, dailyLog, logger, lost, forced, logDeaths>>
vars == <<system, initVars, mirrorVars, intradayVars, deskVars, scanVars, radarVars,
          refVars, history, labelVars, jobs, loggerVars>>

------------------------------------------------------------------------------
Continuity == INSTANCE ContinuityInit

Mirror == INSTANCE CandleMirror

\* What a session's answer may be: whole, partial, in disorder, with a
\* duplicate, or with a row that is out of session, unreadable or invalid.
Good(m, p) == [minute |-> m, price |-> p, ok |-> "good"]
Whole(p) == [m \in 1 .. 4 |-> Good(m, p[m])]
SmallAnswers ==
  {[array |-> FALSE, rows |-> <<>>]} \cup
  {[array |-> TRUE, rows |-> rows] : rows \in
     {<<>>, Whole(<<1, 3, 2, 1>>), Whole(<<2, 1, 3, 3>>), <<Good(2, 1), Good(3, 1)>>,
      Append(Whole(<<1, 3, 2, 1>>), Good(4, 2)), Append(Whole(<<1, 3, 2, 1>>), Good(0, 2)),
      Append(Whole(<<1, 3, 2, 1>>), Good(-1, 2)), <<[Good(1, 1) EXCEPT !.ok = "unparsed"]>>,
      <<[Good(1, 1) EXCEPT !.ok = "invalid"]>>,
      <<Good(4, 1), Good(3, 2), Good(1, 1), Good(2, 1)>>}}
Intraday == INSTANCE IntradayStore

\* A quiet session and one that reaches stop and target both; a breakout
\* plan and a pullback plan.
Bar(o, h, l, c) == [open |-> o, high |-> h, low |-> l, close |-> c]
Review(pullback, low, high, breakout, goal) ==
  [decision |-> "WAIT", pullback |-> pullback, low |-> low, high |-> high,
   breakout |-> breakout, stop |-> 98, target |-> goal]
SmallCandles == {Bar(102, 106, 101, 105), Bar(104, 118, 93, 96)}
SmallReviews == {Review(FALSE, 0, 0, 103, 0), Review(TRUE, 100, 104, 0, 106)}
Desk == INSTANCE DemoDesk WITH
  MaxCandles <- MaxDeskCandles, MaxHits <- MaxDeskHits, MaxDeaths <- MaxDeskDeaths

Scan == INSTANCE ScanRuns

Radar == INSTANCE ReversalRadar

\* Files that add, correct, repeat and drop listings, and an empty one.
Listing(isin, segment) == [isin |-> isin, segment |-> segment]
Line(key, hash) == [key |-> key, hash |-> hash]
SmallInstrumentFiles ==
  {<<>>, <<Line(Listing("a", "E"), 1), Line(Listing("b", "E"), 1)>>,
   <<Line(Listing("a", "E"), 2), Line(Listing("a", "E"), 1), Line(Listing("a", "D"), 1)>>}
SmallConstituentFiles == {<<Line("a", 1), Line("b", 1)>>, <<Line("a", 2)>>}
SmallListings == {Listing("a", "E"), Listing("a", "D")}
Reference == INSTANCE ReferenceData

\* Sessions relative to the last close: two falls, a strong recovery, a
\* crash and a hammer; windows cut down to fit seven candles.
Shape(o, h, l, c, v) == [open |-> o, high |-> h, low |-> l, close |-> c, volume |-> v]
SmallShapes ==
  {Shape(0, 5, -90, -60, 1), Shape(-10, 0, -12, -5, 2), Shape(-5, 80, -10, 75, 3),
   Shape(-140, -130, -170, -150, 2), Shape(-5, 35, -10, 30, 3)}
Series == INSTANCE CandleSeries WITH
  Thresholds <- {10, 15}, Pullbacks <- {5, 10},
  FeatureSessions <- 3, SmaSessions <- 2, HighSessions <- 2, LowSessions <- 2,
  WATCH_WINDOW_DAYS <- 4, Cooldown <- 1, BASE_DURATIONS <- {1, 2}, PRE_RETURN_DAYS <- 3

\* Sessions that win, lose, do both or neither after one another.
Daily(h, l, c) == [open |-> 100, high |-> h, low |-> l, close |-> c, volume |-> 5]
BarsOf(s) == IF s = "a" THEN {Daily(109, 97, 101), Daily(103, 95, 96)} ELSE {Daily(101, 99, 100)}
Labels == INSTANCE LabelTracking

Jobs == INSTANCE TrainingJobs

\* A quiet session, one without a candle of `a', one that reaches stop and
\* target both, and one that opens above every target.
Quiet == Bar(100, 104, 97, 100)
Wide == Bar(100, 112, 90, 100)
Gap == Bar(210, 212, 205, 208)
Stored(a, b, signals) ==
  [bars |-> a @@ ("b" :> b) @@ ("c" :> Quiet), signals |-> signals]
SmallLoggerSessions ==
  {Stored("a" :> Quiet, Quiet, <<"a", "b", "c">>), Stored("a" :> Wide, Quiet, <<"b", "a">>),
   Stored(<<>>, Wide, <<"c", "b">>), Stored("a" :> Gap, Quiet, <<"b">>)}
Logger == INSTANCE ForwardLogger WITH
  Sessions <- LoggerSessions, Universe <- LoggerUniverse, MaxSessions <- MaxLoggerSessions

------------------------------------------------------------------------------
Init ==
  /\ system \in Systems
  /\ Continuity!Init /\ Mirror!Init /\ Intraday!Init /\ Desk!Init /\ Scan!Init /\ Radar!Init
  /\ Reference!Init /\ Series!Init /\ Labels!Init /\ Jobs!Init /\ Logger!Init
  /\ system # "desk" => candles = <<CHOOSE c \in Candles : TRUE>>
  /\ system # "reference" => instruments = <<>>

\* Of the systems other than s everything stays.
OthersStay(s) ==
  /\ UNCHANGED system /\ system = s
  /\ s # "init" => UNCHANGED initVars
  /\ s # "mirror" => UNCHANGED mirrorVars
  /\ s # "intraday" => UNCHANGED intradayVars
  /\ s # "desk" => UNCHANGED deskVars
  /\ s # "scans" => UNCHANGED scanVars
  /\ s # "radar" => UNCHANGED radarVars
  /\ s # "reference" => UNCHANGED refVars
  /\ s # "series" => UNCHANGED history
  /\ s # "labels" => UNCHANGED labelVars
  /\ s # "jobs" => UNCHANGED jobs
  /\ s # "logger" => UNCHANGED loggerVars

Next ==
  \/ OthersStay("init") /\ Continuity!Next
  \/ OthersStay("mirror") /\ Mirror!Next
  \/ OthersStay("intraday") /\ Intraday!Next
  \/ OthersStay("desk") /\ Desk!Next
  \/ OthersStay("scans") /\ Scan!Next
  \/ OthersStay("radar") /\ Radar!Next
  \/ OthersStay("reference") /\ Reference!Next
  \/ OthersStay("series") /\ Series!Next
  \/ OthersStay("labels") /\ Labels!Next
  \/ OthersStay("jobs") /\ Jobs!Next
  \/ OthersStay("logger") /\ Logger!Next

Spec == Init /\ [][Next]_vars

------------------------------------------------------------------------------
(* The paper desk's account, journal, orders, holding counts and learning  *)
(* agree with each other, whichever calls died half-way (DemoDesk).        *)
DeskAddsUp ==
  system = "desk" => /\ Desk!JournalAddsUp /\ Desk!OneOrderPerSignal
                     /\ Desk!SessionsCountedOnce /\ Desk!LearnsWhatHappened

(* The forward logger's portfolio, ledger and daily log agree with each    *)
(* other, whatever died or was forced (ForwardLogger).                     *)
LoggerAddsUp == system = "logger" => Logger!LoggerAddsUp

(* A continuity file is covered by a whole intent record, and success is   *)
(* reported of both files only (ContinuityInit).                           *)
ContinuityRecorded ==
  system = "init" => Continuity!RecordedBeforeWritten /\ Continuity!SuccessMeansBoth

(* Intraday candles are those of the minutes stored, roll up and hold      *)
(* nothing rejected (IntradayStore); the candle mirror misses only what    *)
(* was being written across an export (CandleMirror).                      *)
CandlesDerived ==
  /\ system = "intraday" => /\ Intraday!DerivedFromMinutes /\ Intraday!RollsUp
                            /\ Intraday!NothingRejectedStored
  /\ system = "mirror" => Mirror!OnlyStraddlersMissed

(* Scan counts are rows and regimes of one run (ScanRuns); a promoted      *)
(* stock and date is one hit and one candidate, and an outcome counts      *)
(* candles that exist (ReversalRadar).                                     *)
ScansTruthful ==
  /\ system = "scans" => Scan!ScansTruthful
  /\ system = "radar" => Radar!RadarTruthful

(* What is active of the reference tables is what the newest committed     *)
(* import saw (ReferenceData).                                             *)
ReferenceTruthful == system = "reference" => Reference!ReferenceTruthful

(* What any of these runs and imports reports is what it left in the store *)
(* (move_events.py, regime.py, reversal_opportunities.py,                  *)
(* instrument_master.py, index_universe.py).                               *)
RunsTruthful == ScansTruthful /\ ReferenceTruthful

(* The detectors of one candle series agree with their definitions and     *)
(* with each other (CandleSeries).                                         *)
SeriesReadRight ==
  system = "series" => Series!MatchesReference /\ Series!VerdictsConsistent

(* Sample labels and shadow outcomes claim what the candles say            *)
(* (LabelTracking); the shown training job is the active one               *)
(* (TrainingJobs).                                                         *)
LabelsHonest ==
  /\ system = "labels" => Labels!LabelsHonest
  /\ system = "jobs" => Jobs!ShownJobIsActive

(* No step takes back what was settled: a continuity file, a mirrored      *)
(* version, a closed candidate, an ended scan, a measured outcome, a       *)
(* listing's key, a verdict about a past session, a label, a cancelled job.*)
NothingGoesBack ==
  [][/\ system = "init" => Continuity!CreateOnly
     /\ system = "mirror" => Mirror!NeverGoesBack
     /\ system = "desk" => Desk!CandidatesFinal
     /\ system = "scans" => Scan!EndedScansStay
     /\ system = "radar" => Radar!OutcomesGrow
     /\ system = "reference" => Reference!KeysStay
     /\ system = "series" => Series!PastStays
     /\ system = "labels" => Labels!LabelsStay
     /\ system = "jobs" => Jobs!CancelledStays]_vars
==============================================================================
