-------------------------- MODULE PaperContinuity --------------------------
(***************************************************************************)
(* The scheduled wrapper around the end-of-day trader: it compares the     *)
(* dates in daily_report.csv with the sessions Matsya has stored, refuses  *)
(* to run behind a gap, runs the trader for every trailing session in      *)
(* order, and labels the epoch in continuity_status.json.                  *)
(***************************************************************************)
EXTENDS EodTrader

CONSTANTS
  Backfills,  \* may a session be stored behind a later one?
  MaxDeaths   \* bound: how often a trader or its runner dies half way

ASSUME ContinuityAssumption == Backfills \in BOOLEAN /\ MaxDeaths \in Nat

VARIABLES
  status,   \* continuity_status.json: its label and replayed_dates
  batched,  \* history: dates reported by a run that planned several
  deaths    \* deaths so far, for the bound

vars == <<sessions, files, run, status, batched, deaths>>

Reported == Range(report)

-----------------------------------------------------------------------------
(* build_plan: reported dates against the stored ones since the first        *)

HasDuplicates == Len(report) # Cardinality(Reported)
Missing  == {d \in Stored : d > Min(Reported) /\ d \notin Reported}
Interior == {d \in Missing : d < Max(Reported)}

\* Mutant of Trailing: the last reported date is run again.
TrailingAgain == {d \in Stored : d >= Max(Reported)}
Trailing == Missing \ Interior

\* Mutant of Plan: an interior gap is replayed like a trailing one.
PlanFillsGaps ==
  IF report = <<>> THEN [label |-> "new_epoch", dates |-> {Max(Stored)}]
  ELSE [label |-> "healthy", dates |-> Missing]

Plan ==
  IF report = <<>> THEN [label |-> "new_epoch", dates |-> {Max(Stored)}]
  ELSE IF HasDuplicates THEN [label |-> "invalid_duplicate", dates |-> {}]
  ELSE IF Interior # {} THEN [label |-> "invalid_gap", dates |-> {}]
  ELSE [label |-> "healthy", dates |-> Trailing]

Valid(label) == label \in {"new_epoch", "healthy"}

\* Mutant of BeginWrite: the earlier status is not read back.
BeginWriteAfresh(r, label, replayed) ==
  run' = [run EXCEPT ![r] = [pc |-> "label", todo |-> {}, replayed |-> replayed,
                             label |-> label, copy |-> EmptyBook]]

\* write_continuity: the dates on record are read and the runner's own added.
BeginWrite(r, label, replayed) ==
  run' = [run EXCEPT ![r] = [pc |-> "label", todo |-> {},
                             replayed |-> status.replayed \cup replayed,
                             label |-> label, copy |-> EmptyBook]]

-----------------------------------------------------------------------------
(* Actions                                                                   *)

\* A session reaches the store: the next one, or any later one.
StoreSession ==
  \E d \in Days, data \in SessionData :
    /\ Backfills \/ \A e \in Stored : e < d
    /\ Store(d, data)
    /\ UNCHANGED <<status, batched, deaths>>

\* The wrapper starts: an invalid epoch is only labelled.
Start(r) ==
  /\ run[r].pc = "idle" /\ Stored # {}
  /\ IF Valid(Plan.label)
     THEN /\ run' = [run EXCEPT ![r] =
                       [pc |-> "next", todo |-> Plan.dates, label |-> Plan.label,
                        replayed |-> IF Cardinality(Plan.dates) > 1 THEN Plan.dates ELSE {},
                        copy |-> EmptyBook]]
     ELSE BeginWrite(r, Plan.label, {})
  /\ UNCHANGED <<sessions, files, status, batched, deaths>>

\* write_continuity, later: the file is replaced whatever it holds by now; a
\* healthy plan with replayed dates is labelled reconstructed.
WriteContinuity(r) ==
  /\ run[r].pc = "label"
  /\ status' = [label |-> IF run[r].replayed # {} /\ run[r].label = "healthy"
                          THEN "reconstructed" ELSE run[r].label,
                replayed |-> run[r].replayed]
  /\ run' = [run EXCEPT ![r] = Idle]
  /\ UNCHANGED <<sessions, files, batched, deaths>>

\* Mutant of GiveUp: a label the dashboard does not know.
GiveUpUnlabelled(r) ==
  /\ BeginWrite(r, "failed", {})
  /\ UNCHANGED <<sessions, files, status, batched>>

\* The trader's exit code is not 0: the plan's label is written and the
\* remaining dates are left to a later run.
GiveUp(r) ==
  /\ BeginWrite(r, run[r].label, {})
  /\ UNCHANGED <<sessions, files, status, batched>>

\* The health gate refuses, before anything is loaded.
GateFails(r) ==
  /\ run[r].pc = "next" /\ run[r].todo # {}
  /\ GiveUp(r)
  /\ UNCHANGED deaths

Die == deaths < MaxDeaths /\ deaths' = deaths + 1

TraderDies(r) ==
  /\ run[r].pc \in {"processed", "placed", "saved"} /\ Die
  /\ GiveUp(r)

\* The container is gone, wrapper and trader with it.
RunnerDies(r) ==
  /\ run[r].pc # "idle" /\ Die
  /\ run' = [run EXCEPT ![r] = Idle]
  /\ UNCHANGED <<sessions, files, status, batched>>

Finish(r) ==
  /\ run[r].pc = "next" /\ run[r].todo = {}
  /\ BeginWrite(r, Plan.label, run[r].replayed)
  /\ UNCHANGED <<sessions, files, status, batched, deaths>>

\* One step of the trader the wrapper has spawned.
TraderRuns(r) ==
  /\ TraderStep(r)
  /\ batched' = IF report' # report /\ run[r].replayed # {} THEN batched \cup {Date(r)} ELSE batched
  /\ UNCHANGED <<status, deaths>>

Init ==
  /\ TraderInit
  /\ status = [label |-> "none", replayed |-> {}]
  /\ batched = {} /\ deaths = 0

Next ==
  \/ StoreSession
  \/ \E r \in Runners :
       \/ Start(r) \/ TraderRuns(r) \/ Finish(r) \/ WriteContinuity(r)
       \/ GateFails(r) \/ TraderDies(r) \/ RunnerDies(r)

Spec == Init /\ [][Next]_vars

\* The schedule starts the wrapper again and again, and a trader that is
\* started again and again gets through in the end.
Fairness ==
  \A r \in Runners : /\ WF_vars(Start(r)) /\ WF_vars(Finish(r)) /\ WF_vars(WriteContinuity(r))
                     /\ SF_vars(TraderRuns(r))
FairSpec == Spec /\ Fairness

-----------------------------------------------------------------------------
(* Properties                                                                *)

OrderType == [sym: Symbols, sig: Days]
PositionType == [sym: Symbols, sig: Days, entered: Days, bars: Nat]
TradeType == [sym: Symbols, sig: Days, entered: Days, exited: Days]
BookType == [pending: SUBSET OrderType, open: SUBSET PositionType]
Labels == {"none", "new_epoch", "healthy", "reconstructed", "invalid_gap", "invalid_duplicate"}
RunType == [pc: Resting \cup {"processed", "placed", "saved"}, todo: SUBSET Days,
            replayed: SUBSET Days, label: Labels, copy: BookType]

\* The variables hold values of their types.
TypeOK ==
  /\ Stored \subseteq Days /\ Range(sessions) \subseteq SessionData
  /\ book \in BookType
  /\ BagToSet(trades) \subseteq TradeType
  /\ report \in Seq(Days)
  /\ run \in [Runners -> RunType]
  /\ status \in [label: Labels, replayed: SUBSET Days]
  /\ batched \subseteq Days /\ deaths \in 0..MaxDeaths

\* Sessions are processed in their order and once each, whatever is stored
\* late and whoever dies: no report row is older than the row before it.
ReportsAscend == \A i, j \in DOMAIN report : i < j => report[i] < report[j]

\* A date on record as replayed stays there, and an epoch once labelled
\* reconstructed is never shown as healthy again.  So for one runner at a
\* time; of two, the one that read the record first may write it last.
StaysReconstructed ==
  /\ status.replayed \subseteq status'.replayed
  /\ status.label = "reconstructed" => status'.label # "healthy"
ReconstructedForGood == [][StaysReconstructed]_vars

\* Every session stored since the epoch began is processed in the end, unless
\* one that was stored behind a later report has made the epoch invalid; and
\* such a gap is shown as one.
HasGap == report # <<>> /\ Interior # {}
EverySessionProcessed ==
  /\ \A d \in Days : (report # <<>> /\ d \in Missing) ~> (d \in Reported \/ HasGap)
  /\ HasGap ~> status.label = "invalid_gap"

\* The book claims a symbol once, by an order or by a position.
OneClaimIn(b) ==
  /\ \A x, y \in b.pending : x.sym = y.sym => x = y
  /\ \A x, y \in b.open : x.sym = y.sym => x = y
  /\ SymbolsIn(b.pending) \cap SymbolsIn(b.open) = {}
OneClaimPerSymbol == OneClaimIn(book)

\* Orders and positions never exceed MAX_SLOTS.
SlotsIn(b) == Cardinality(b.pending) + Cardinality(b.open) <= MaxSlots
SlotsBounded == SlotsIn(book)

\* Sessions a position has been through, by what has been reported.
SessionsHeld(p) == Cardinality({d \in Reported : d >= p.entered /\ Candle(d, p.sym)})

\* The time exit: no position is still held after its last allowed session.
TimeExitKept == \A p \in book.open : SessionsHeld(p) < MaxBars

\* No session is processed twice.
ReportedOnce == ~HasDuplicates

\* A session ages a position once.
Working == {Date(r) : r \in {q \in Runners : run[q].pc \notin Resting}}
AgedOncePerSession ==
  \A p \in book.open :
    p.bars <= Cardinality({d \in Reported \cup Working : d >= p.entered /\ Candle(d, p.sym)})

\* A closed position has one ledger row and has left the book.
TradedOnce ==
  \A row \in BagToSet(trades) :
    /\ trades[row] = 1
    /\ Working = {} => \A p \in book.open : p.sym # row.sym \/ p.sig # row.sig

\* An order is filled on a session after the one that signalled it.
EntryAfterSignal == \A p \in book.open : p.entered > p.sig

\* Run after run, and with nobody dying, a session acts on a position once:
\* it fills, ages and closes it no more than once.
OncePerSession == AgedOncePerSession /\ TradedOnce /\ EntryAfterSignal

\* The trader implements the life of an order: placed once, entered once,
\* closed once (here possibly by the same save).
OrderStatus(o) ==
  IF \E x \in book.pending : x.sym = o[1] /\ x.sig = o[2] THEN "pending"
  ELSE IF \E p \in book.open : p.sym = o[1] /\ p.sig = o[2] THEN "open"
  ELSE IF \E row \in BagToSet(trades) : row.sym = o[1] /\ row.sig = o[2] THEN "closed"
  ELSE "none"
Lifecycle == INSTANCE OrderLifecycle WITH
               Dates <- Days, DayTrades <- TRUE,
               status <- [o \in Symbols \X Days |-> OrderStatus(o)]
ImplementsLifecycle == Lifecycle!Spec

\* An epoch shown as healthy has no session that was replayed in a batch.
HealthyIsForward == status.label = "healthy" => batched = {}
=============================================================================
