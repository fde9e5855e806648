----------------------------- MODULE CandleFetch -----------------------------
(***************************************************************************)
(* The daily candle fetch of the swing application: the store of runs,     *)
(* items, candles and archive rows, the service that starts or resumes a   *)
(* run under its lock, the one background thread that works it off, and    *)
(* the maintenance loop that calls the service.  Time passes in steps of   *)
(* twelve hours, the retry delay of an empty answer.                       *)
(***************************************************************************)
EXTENDS Integers, Sequences, FiniteSets, FiniteSetsExt, Functions

CONSTANTS
  Instruments, Sessions, Listing,
  Main,          \* the universe the maintenance loop keeps fetched
  Scope,         \* a universe fetched on demand (upward movers)
  Members,       \* sequence of constituents of each universe
  Unmapped,      \* constituents without an instrument
  Lookback,      \* calendar days of each universe's window
  Supported,     \* days of history the source supports
  Retention,     \* days kept when auto purge is on
  StartGrace, EndGrace, MaxRetries,
  FirstDay, LastDay, MaxRuns, MaxDeaths   \* bounds of the check

Universes == {Main, Scope}

ASSUME FetchAssumption ==
  /\ Main # Scope /\ Unmapped \cap Instruments = {}
  /\ Members \in [Universes -> Seq(Instruments \cup Unmapped)]
  /\ Sessions \subseteq Nat /\ Listing \in [Instruments -> Nat]
  /\ Lookback \in [Universes -> Nat] /\ {Supported, Retention, StartGrace, EndGrace} \subseteq Nat
  /\ {MaxRetries, FirstDay, LastDay, MaxRuns, MaxDeaths} \subseteq Nat

VARIABLES
  now,        \* half-days since day 0
  published,  \* last day whose candles the source serves
  token,      \* whether the stored token is allowed to fetch
  candles,    \* daily_candles: days stored per instrument
  archive,    \* historical_instrument_archive: [complete, retry] per instrument
  runs,       \* historical_fetch_runs, each with its historical_fetch_items
  task,       \* the background thread and its local state
  deaths      \* of the thread or its process, and writes that raised

dbVars == <<candles, archive, runs>>
worldVars == <<now, published, token>>
vars == <<now, published, token, candles, archive, runs, task, deaths>>

Today == now \div 2
Active == {"queued", "running"}
Open == {"queued", "fetching"}
Succeeded == {"done", "skipped_up_to_date", "skipped_no_new_data", "skipped_retry_later"}
Idle == [pc |-> "none", run |-> 0, queue |-> {}, attempts |-> 0, got |-> {}]

Available(i) == {d \in Sessions : Listing[i] <= d /\ d <= published}
First(i) == Min(candles[i])
Latest(i) == Max(candles[i])
Stored(i) == candles[i] # {}

------------------------------------------------------------------------------
(* Windows, coverage and the plan of one item.                             *)

HistoricalWindow(days) == [from |-> Today - days, to |-> Today - 1]
Window(u) == [HistoricalWindow(Lookback[u]) EXCEPT
                !.from = Max({@, Today - Supported})]

Mapped(u) == Range(Members[u]) \ Unmapped

CoveredIn(i, w) ==
  LET kept == candles[i] \cap (w.from .. w.to) IN
  /\ \E d \in kept : d <= w.from + StartGrace
  /\ \E d \in kept : d >= w.to + 1 - EndGrace

CoverageUpToDate(u) ==
  Mapped(u) # {} /\ \A i \in Mapped(u) : CoveredIn(i, Window(u))

Item(status, kind, from, to) ==
  [status |-> status, kind |-> kind, from |-> from, to |-> to]
Skipped(status) == Item(status, "none", 0, 0)

\* Mutant of FetchPlan: an incremental request starts a day late.
FetchPlanLate(i, w) ==
  CASE archive[i].retry > now -> Skipped("skipped_retry_later")
    [] archive[i].retry <= now /\ ~Stored(i) -> Item("queued", "initial_capture", w.from, w.to)
    [] OTHER -> Item("queued", "incremental_update", Max({w.from, Latest(i) + 2}), w.to)

\* Mutant of FetchPlan: what is older is not asked for.
FetchPlanForward(i, w) ==
  IF Stored(i) /\ Latest(i) >= w.to THEN Skipped("skipped_up_to_date")
  ELSE Item("queued", "incremental_update", IF Stored(i) THEN Latest(i) + 1 ELSE w.to, w.to)

FetchPlan(i, w) ==
  CASE archive[i].retry > now -> Skipped("skipped_retry_later")
    [] archive[i].retry <= now /\ Stored(i) /\ First(i) > w.from /\ ~archive[i].complete ->
         Item("queued", "older_history_backfill", w.from, First(i) - 1)
    [] OTHER ->
         IF ~Stored(i) THEN Item("queued", "initial_capture", w.from, w.to)
         ELSE IF Latest(i) >= w.to THEN Skipped("skipped_up_to_date")
         ELSE Item("queued", "incremental_update", Max({w.from, Latest(i) + 1}), w.to)

ItemFor(c, w) ==
  IF c \in Unmapped THEN Skipped("skipped_unmapped") ELSE FetchPlan(c, w)

CreateRun(u) ==
  [universe |-> u, window |-> Window(u), status |-> "queued",
   items |-> [k \in DOMAIN Members[u] |-> ItemFor(Members[u][k], Window(u))]]

------------------------------------------------------------------------------
(* Which run a request starts, resumes or returns.                         *)

RunsOf(u) == {r \in DOMAIN runs : runs[r].universe = u}

\* Mutant of ActiveRuns: a run that is being worked on does not count.
ActiveRunsQueued(u) == {r \in RunsOf(u) : runs[r].status = "queued"}

ActiveRuns(u) == {r \in RunsOf(u) : runs[r].status \in Active}
CountOf(r, statuses) ==
  Cardinality({k \in DOMAIN runs[r].items : runs[r].items[k].status \in statuses})

ReusableCurrentWindowRun(u) ==
  /\ RunsOf(u) # {}
  /\ LET r == Max(RunsOf(u)) IN
     /\ runs[r].status \in {"completed", "completed_with_errors"}
     /\ CountOf(r, {"failed"}) = 0
     /\ runs[r].window = Window(u)

\* Mutant of StartTask: only a run that was never started gets a thread.
StartTaskOnce(r) == task' = IF task.pc = "none" /\ r \notin {q \in DOMAIN runs : runs[q].status = "running"}
                            THEN [Idle EXCEPT !.pc = "created", !.run = r] ELSE task

StartTask(r) == task' = IF task.pc = "none" THEN [Idle EXCEPT !.pc = "created", !.run = r]
                        ELSE task

(* start_or_resume under the asyncio lock: an active run is resumed, with  *)
(* or without a token, the main universe reuses a good run of the same     *)
(* window, and nothing is created while a thread works on another universe.*)
StartOrResume(u) ==
  /\ \/ /\ ActiveRuns(u) # {}
        /\ StartTask(Max(ActiveRuns(u)))
        /\ UNCHANGED runs
     \/ /\ ActiveRuns(u) = {} /\ task.pc = "none" /\ token
        /\ ~(u = Main /\ ReusableCurrentWindowRun(u)) /\ ~CoverageUpToDate(u)
        /\ Len(runs) < MaxRuns
        /\ runs' = Append(runs, CreateRun(u))
        /\ StartTask(Len(runs) + 1)
  /\ UNCHANGED <<worldVars, candles, archive, deaths>>

------------------------------------------------------------------------------
(* The background thread: _run_fetch, one step per transaction.            *)

Run == runs[task.run]
Current == Min(task.queue)   \* the items in the order of their ids
Symbol == Members[Run.universe][Current]
At(pc) == task.pc = pc
Goto(pc) == task' = [task EXCEPT !.pc = pc]
SetItem(k, status) == runs' = [runs EXCEPT ![task.run].items[k].status = status]
TaskOnly == UNCHANGED <<worldVars, deaths>>

PrepareRun ==
  /\ At("created") /\ Goto("prepared")
  /\ runs' = [runs EXCEPT ![task.run] = [@ EXCEPT
       !.status = "running",
       !.items = [k \in DOMAIN Run.items |-> IF Run.items[k].status = "fetching"
                    THEN [Run.items[k] EXCEPT !.status = "queued"] ELSE Run.items[k]]]]
  /\ TaskOnly /\ UNCHANGED <<candles, archive>>

FailRemaining ==
  /\ runs' = [runs EXCEPT ![task.run] = [@ EXCEPT
       !.status = "failed",
       !.items = [k \in DOMAIN Run.items |-> IF Run.items[k].status \in Open
                    THEN [Run.items[k] EXCEPT !.status = "failed"] ELSE Run.items[k]]]]
  /\ task' = Idle

QueuedItems ==
  /\ At("prepared")
  /\ \/ ~token /\ FailRemaining
     \/ /\ token /\ UNCHANGED runs
        /\ task' = [task EXCEPT !.pc = "next",
             !.queue = {k \in DOMAIN Run.items : Run.items[k].status = "queued"}]
  /\ TaskOnly /\ UNCHANGED <<candles, archive>>

MarkItemFetching ==
  /\ At("next") /\ task.queue # {}
  /\ SetItem(Current, "fetching")
  /\ task' = [task EXCEPT !.pc = "asked", !.attempts = @ + 1]
  /\ TaskOnly /\ UNCHANGED <<candles, archive>>

(* The source is taken to include both ends of the request, as the plans   *)
(* here do (Matsya's fetch asks for a day more).                           *)
Requested == Available(Symbol) \cap (Run.items[Current].from .. Run.items[Current].to)

UpsertCandles ==
  /\ At("asked") /\ Requested # {}
  /\ candles' = [candles EXCEPT ![Symbol] = @ \cup Requested]
  /\ task' = [task EXCEPT !.pc = "answered", !.got = Requested]
  /\ TaskOnly /\ UNCHANGED <<archive, runs>>

(* An empty answer, or the 400 that says no data is present.               *)
NoData ==
  /\ At("asked") /\ Requested = {}
  /\ Goto("answered")
  /\ TaskOnly /\ UNCHANGED dbVars

RecordFetchOutcome ==
  LET i == Symbol
      kind == Run.items[Current].kind
      known == archive[i]
  IN /\ At("answered") /\ Goto("recorded")
     /\ archive' = [archive EXCEPT ![i] =
          IF task.got # {}
          THEN [complete |-> known.complete \/ kind # "incremental_update", retry |-> 0]
          ELSE IF Stored(i) /\ kind # "older_history_backfill"
          THEN [known EXCEPT !.retry = now + 1]
          ELSE [complete |-> TRUE, retry |-> 0]]
     /\ TaskOnly /\ UNCHANGED <<candles, runs>>

MarkItem ==
  /\ At("recorded") /\ Goto("settle")
  /\ SetItem(Current, IF task.got # {} THEN "done" ELSE "skipped_no_new_data")
  /\ TaskOnly /\ UNCHANGED <<candles, archive>>

(* 429, 5xx, a timeout or a broken connection: asked again, MaxRetries     *)
(* times; after that, and for any other error, the item has failed.        *)
RetryItem ==
  /\ At("asked") /\ task.attempts <= MaxRetries
  /\ Goto("next")
  /\ TaskOnly /\ UNCHANGED dbVars

MarkItemFailed ==
  /\ At("asked") /\ SetItem(Current, "failed")
  /\ Goto("settle") \/ Goto("refused")   \* refused: 401 or 403
  /\ TaskOnly /\ UNCHANGED <<candles, archive>>

(* So has one whose candles are stored and a later write raises.           *)
WriteFails ==
  /\ task.pc \in {"answered", "recorded"} /\ deaths < MaxDeaths
  /\ deaths' = deaths + 1
  /\ SetItem(Current, "failed") /\ Goto("settle")
  /\ UNCHANGED <<worldVars, candles, archive>>

FailRefused ==
  /\ At("refused") /\ FailRemaining
  /\ TaskOnly /\ UNCHANGED <<candles, archive>>

FinishedStatus ==
  IF CountOf(task.run, Open) > 0 THEN Run.status
  ELSE IF CountOf(task.run, Succeeded) = 0 /\ CountOf(task.run, {"failed"}) > 0 THEN "failed"
  ELSE IF CountOf(task.run, {"failed", "skipped_unmapped"}) > 0 THEN "completed_with_errors"
  ELSE "completed"

(* finish_run_if_complete after every item and once more at the end.       *)
FinishRunIfComplete ==
  /\ \/ /\ At("settle")
        /\ task' = [task EXCEPT !.pc = "next", !.queue = @ \ {Current}, !.attempts = 0, !.got = {}]
     \/ At("next") /\ task.queue = {} /\ task' = Idle
  /\ runs' = [runs EXCEPT ![task.run].status = FinishedStatus]
  /\ TaskOnly /\ UNCHANGED <<candles, archive>>

TaskStep == \/ PrepareRun \/ QueuedItems \/ MarkItemFetching \/ UpsertCandles \/ NoData
            \/ RecordFetchOutcome \/ MarkItem \/ RetryItem \/ MarkItemFailed
            \/ FailRefused \/ FinishRunIfComplete

------------------------------------------------------------------------------
(* The maintenance loop's purge, and the world.                            *)

PruneCandlesBefore ==
  /\ token
  /\ candles' = [i \in Instruments |->
       {d \in candles[i] : d >= HistoricalWindow(Retention).from}]
  /\ UNCHANGED <<worldVars, archive, runs, task, deaths>>

(* The process dies, or an exception outside the handlers ends the thread. *)
Die == /\ task.pc # "none" /\ deaths < MaxDeaths
       /\ deaths' = deaths + 1 /\ task' = Idle
       /\ UNCHANGED <<worldVars, dbVars>>

Tick == /\ now < 2 * LastDay + 1
        /\ now' = now + 1
        /\ UNCHANGED <<published, token, dbVars, task, deaths>>

Publish == /\ published < Today - 1
           /\ published' = published + 1
           /\ UNCHANGED <<now, token, dbVars, task, deaths>>

TokenChanges == /\ token' = ~token
                /\ UNCHANGED <<now, published, dbVars, task, deaths>>

Init == /\ now = 2 * FirstDay /\ published = FirstDay - 2 /\ token = TRUE
        /\ candles = [i \in Instruments |-> {}]
        /\ archive = [i \in Instruments |-> [complete |-> FALSE, retry |-> 0]]
        /\ runs = <<>> /\ task = Idle /\ deaths = 0

Next == \/ TaskStep \/ WriteFails \/ PruneCandlesBefore \/ Die \/ Tick \/ Publish \/ TokenChanges
        \/ \E u \in Universes : StartOrResume(u)

Spec == Init /\ [][Next]_vars

(* The thread runs on, and the maintenance loop calls on and on, whenever  *)
(* the token is good.                                                      *)
FairSpec == Spec /\ WF_vars(TaskStep) /\ SF_vars(token /\ StartOrResume(Main))

------------------------------------------------------------------------------
ItemStatuses == Open \cup Succeeded \cup {"failed", "skipped_unmapped"}
Kinds == {"none", "initial_capture", "older_history_backfill", "incremental_update"}

(* Runs, items, archive rows and the thread's state are well formed.       *)
TypeOK ==
  /\ now \in Nat /\ published \in Int /\ token \in BOOLEAN /\ deaths \in 0 .. MaxDeaths
  /\ candles \in [Instruments -> SUBSET Int]
  /\ archive \in [Instruments -> [complete : BOOLEAN, retry : Nat]]
  /\ \A r \in DOMAIN runs :
       /\ runs[r].universe \in Universes
       /\ runs[r].status \in Active \cup {"failed", "completed", "completed_with_errors"}
       /\ DOMAIN runs[r].items = DOMAIN Members[runs[r].universe]
       /\ \A k \in DOMAIN runs[r].items :
            runs[r].items[k].status \in ItemStatuses /\ runs[r].items[k].kind \in Kinds
  /\ task.run \in 0 .. Len(runs) /\ task.attempts \in 0 .. MaxRetries + 1

(* However requests, deaths and the thread interleave, a universe has at   *)
(* most one run in progress.                                               *)
OneActiveRun ==
  \A q, r \in DOMAIN runs :
    {runs[q].status, runs[r].status} \subseteq Active /\ runs[q].universe = runs[r].universe
      => q = r

(* A run that has ended has no item left open, across fail_remaining,      *)
(* resumption and the death between an item and its run.                   *)
EndedRunsSettled ==
  \A r \in DOMAIN runs : runs[r].status \notin Active => CountOf(r, Open) = 0

(* A run is only called completed when something succeeded or nothing had  *)
(* to be fetched, and without errors only when every constituent succeeded.*)
CompletedMeansSucceeded ==
  \A r \in DOMAIN runs :
    /\ runs[r].status = "completed" => CountOf(r, Succeeded) = Len(runs[r].items)
    /\ runs[r].status = "completed_with_errors" /\ CountOf(r, Succeeded) = 0
         => CountOf(r, {"failed"}) = 0

(* An item reported done had its candles stored and its outcome recorded   *)
(* first, whichever of the three transactions the process dies between: a  *)
(* capture that is done is on record as complete.                          *)
DoneIsRecorded ==
  \A r \in DOMAIN runs : \A k \in DOMAIN runs[r].items :
    /\ runs[r].items[k].status = "done"
    /\ runs[r].items[k].kind \in {"initial_capture", "older_history_backfill"}
    => archive[Members[runs[r].universe][k]].complete

(* A constituent passed over as up to date lacks no session of its run's   *)
(* window that the source serves (short of the days it was late with).     *)
UpToDateMisses(r, k) ==
  LET i == Members[runs[r].universe][k] IN
  {d \in Available(i) : /\ runs[r].window.from <= d /\ d <= runs[r].window.to
                        /\ Today - d <= Retention} \ candles[i]
SkippedOnlyWhenComplete ==
  \A r \in DOMAIN runs : \A k \in DOMAIN runs[r].items :
    runs[r].items[k].status = "skipped_up_to_date" => UpToDateMisses(r, k) = {}

(* Whatever the lookbacks of the universes: it lacks no session that each  *)
(* of them would have asked for on the day of the run.                     *)
AskedByAll(r, d) == \A u \in Universes : runs[r].window.to + 1 - Lookback[u] <= d
PassedOverIsComplete ==
  \A r \in DOMAIN runs : \A k \in DOMAIN runs[r].items :
    runs[r].items[k].status = "skipped_up_to_date" =>
      \A d \in UpToDateMisses(r, k) : ~AskedByAll(r, d)

(* A run of the maintained universe that is in progress is brought to an   *)
(* end, although the thread may die and the token come and go, as long as  *)
(* it comes back.                                                          *)
MainRunsEnd ==
  []<>token => \A r \in 1 .. MaxRuns :
    (r \in DOMAIN runs /\ runs[r].universe = Main /\ runs[r].status \in Active)
      ~> (r \in DOMAIN runs /\ runs[r].status \notin Active)

(* Whatever interleaves, dies and is resumed, the runs say what happened.  *)
RunsSettled == TypeOK /\ OneActiveRun /\ EndedRunsSettled /\ CompletedMeansSucceeded /\ DoneIsRecorded

(* The first day that every universe asks for.                             *)
CommonFloor == Max({Window(u).from : u \in Universes})

Archive == INSTANCE CandleArchive WITH
             floor <- CommonFloor,
             complete <- {i \in Instruments : archive[i].complete}

(* The stored candles stay a gapless stretch and an archive is declared    *)
(* complete only when the source has nothing older that all ask for.       *)
KeepsArchive == Archive!Spec
==============================================================================
