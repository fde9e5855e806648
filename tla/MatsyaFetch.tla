----------------------------- MODULE MatsyaFetch -----------------------------
(***************************************************************************)
(* Matsya's daily candles: the fetch service and the one worker that runs  *)
(* it every morning in three stages (primary and repair fetch, final       *)
(* check) before a deadline.  The worker's process may die or end with an  *)
(* exception, and compose restarts it; what it has done today it then      *)
(* infers from the latest run.  A clock step may pass in the middle of a   *)
(* fetch; the night between two mornings is one step.                      *)
(***************************************************************************)
EXTENDS Integers, FiniteSets, FiniteSetsExt, Sequences

CONSTANTS
  Members, Unmapped,       \* the universe and its members without instrument
  Sessions, Listing,       \* trading days; first session of each instrument
  Lookback, Supported,     \* days of the window, days the source supports
  StartGrace, EndGrace, Overlap, MaxRetries, RetryDelay,
  Primary, Repair, FinalCheck, Deadline,   \* clock times of the schedule
  FirstDay, LastDay, MaxRuns, MaxMishaps   \* bounds of the check

Instruments == Members \ Unmapped
Fetches == {"primary", "repair"}
Stages == Fetches \cup {"final_check"}

ASSUME MatsyaFetchAssumption ==
  /\ IsFiniteSet(Members) /\ "" \notin Members
  /\ Sessions \subseteq Nat /\ Listing \in [Instruments -> Nat]
  /\ {Lookback, Supported, StartGrace, EndGrace, Overlap, MaxRetries} \subseteq Nat
  /\ {Primary, Repair, FinalCheck, Deadline} \subseteq Nat /\ RetryDelay \in Nat \ {0}
  /\ Primary < Repair /\ Repair < FinalCheck /\ FinalCheck < Deadline
  /\ {FirstDay, LastDay, MaxRuns, MaxMishaps} \subseteq Nat /\ FirstDay <= LastDay

VARIABLES
  day, clock,
  latest,     \* last day whose candles the source serves
  allowed,    \* whether the stored token is allowed to fetch
  ohlcv,      \* ohlcv_daily: days stored per instrument
  archives,   \* ohlcv_instrument_archive: [complete, retry] per instrument
  fetchRuns,  \* ohlcv_fetch_runs with their ohlcv_fetch_items
  worker,     \* the process: pc, run, item, attempts, got, stage, completed
  mishaps     \* deaths of the process, writes that raise, losses of the token

storeVars == <<ohlcv, archives, fetchRuns>>
sourceVars == <<day, clock, latest, allowed>>
matsyaFetchVars == <<day, clock, latest, allowed, ohlcv, archives, fetchRuns, worker, mishaps>>

MorningLength == Deadline + RetryDelay + 1
Now == day * MorningLength + clock
RunAt(s) == CASE s = "primary" -> Primary [] s = "repair" -> Repair [] OTHER -> FinalCheck

Open == {"queued", "fetching"}
Succeeded == {"done", "skipped_up_to_date", "skipped_no_new_data", "skipped_retry_later"}
Terminal == {"completed", "completed_with_errors", "failed"}

------------------------------------------------------------------------------
(* Calendar, windows and the plan of one item.                             *)

previous_trading_day(d) == Max({s \in Sessions : s < d} \cup {-1})
expected_latest_candle_date == previous_trading_day(day)   \* before 18:00
\* n trading days before session d.
Back(n, d) ==
  Max({-1} \cup {s \in Sessions : s <= d /\ Cardinality({t \in Sessions : s < t /\ t <= d}) >= n})

Window == LET to == expected_latest_candle_date IN
          [from |-> Max({to - Lookback + 1, day - Supported}), to |-> to]

Served(i) == {d \in Sessions : Listing[i] <= d /\ d <= latest}

coverage_up_to_date ==
  /\ Instruments # {}
  /\ \A i \in Instruments :
       LET kept == ohlcv[i] \cap (Window.from .. Window.to) IN
       /\ \E d \in kept : d <= Window.from + StartGrace
       /\ \E d \in kept : d >= Window.to + 1 - EndGrace

Item(status, kind, from, to) == [status |-> status, kind |-> kind, from |-> from, to |-> to]
Skipped(status) == Item(status, "none", 0, 0)

incremental_request_from_date(i) == Max({Window.from, Back(Overlap, Max(ohlcv[i]))})

\* Mutant of fetch_plan_for_instrument: an incremental request starts a day late.
plan_late(i) ==
  CASE archives[i].retry > Now -> Skipped("skipped_retry_later")
    [] archives[i].retry <= Now /\ ohlcv[i] = {} -> Item("queued", "initial_capture", Window.from, Window.to)
    [] OTHER -> Item("queued", "incremental_update", Max(ohlcv[i]) + 2, Window.to)

\* Mutant of fetch_plan_for_instrument: the first fetch asks for one day.
plan_latest_only(i) ==
  CASE archives[i].retry > Now -> Skipped("skipped_retry_later")
    [] archives[i].retry <= Now /\ ohlcv[i] = {} -> Item("queued", "initial_capture", Window.to, Window.to)
    [] OTHER -> Item("queued", "incremental_update", incremental_request_from_date(i), Window.to)

fetch_plan_for_instrument(i) ==
  CASE archives[i].retry > Now -> Skipped("skipped_retry_later")
    [] /\ archives[i].retry <= Now /\ ohlcv[i] # {}
       /\ Min(ohlcv[i]) > Window.from /\ ~archives[i].complete ->
         Item("queued", "older_history_backfill", Window.from, Min(ohlcv[i]) - 1)
    [] OTHER ->
         IF ohlcv[i] = {} THEN Item("queued", "initial_capture", Window.from, Window.to)
         ELSE IF Max(ohlcv[i]) >= Window.to THEN Skipped("skipped_up_to_date")
         ELSE Item("queued", "incremental_update", incremental_request_from_date(i), Window.to)

Never == [day |-> -1, clock |-> 0]
create_run ==
  [window |-> Window, status |-> "queued", ended |-> Never,
   items |-> [m \in Members |-> IF m \in Unmapped THEN Skipped("skipped_unmapped")
                                ELSE fetch_plan_for_instrument(m)]]

reusable_current_window_run ==
  /\ fetchRuns # <<>>
  /\ LET r == fetchRuns[Len(fetchRuns)] IN
     /\ r.status \in Terminal \ {"failed"}
     /\ \A m \in Members : r.items[m].status # "failed"
     /\ \A i \in Instruments : archives[i].retry = 0
     /\ \E i \in Instruments : ohlcv[i] # {} /\ Max(ohlcv[i]) >= Window.to
     /\ r.window = Window

------------------------------------------------------------------------------
(* The worker's loop: what is due, and what a restart takes as done.       *)

Down == [pc |-> "down", run |-> 0, item |-> "", attempts |-> 0, got |-> {},
         stage |-> "", completed |-> {}]
At(pc) == worker.pc = pc
Goto(pc) == worker' = [worker EXCEPT !.pc = pc]

due_schedule_stage(s) ==
  /\ clock < Deadline /\ s \notin worker.completed /\ clock >= RunAt(s)
  /\ \A t \in Stages \ worker.completed : RunAt(s) <= RunAt(t)

initial_completed_schedule_stages ==
  IF fetchRuns = <<>> THEN {}
  ELSE LET r == fetchRuns[Len(fetchRuns)] IN
       IF r.status \notin Terminal \/ r.ended.day # day THEN {}
       ELSE IF r.ended.clock >= FinalCheck THEN Stages
       ELSE {s \in Fetches : RunAt(s) <= r.ended.clock}

Starts == /\ At("down")
          /\ worker' = [Down EXCEPT !.pc = "loop", !.completed = initial_completed_schedule_stages]
          /\ UNCHANGED <<sourceVars, storeVars, mishaps>>

StageDone == [worker EXCEPT !.pc = "loop", !.run = 0, !.stage = "",
                            !.completed = @ \cup {worker.stage}]

(* run_once up to the run it works on.  The active run comes first and     *)
(* needs no token; without one the exception ends the worker.              *)
Active == {n \in DOMAIN fetchRuns : fetchRuns[n].status \in {"queued", "running"}}
Process(s, n) == worker' = [worker EXCEPT !.pc = "created", !.stage = s, !.run = n]
start_or_resume_ohlcv_fetch(s) ==
  /\ At("loop") /\ due_schedule_stage(s) /\ s \in Fetches
  /\ \/ /\ Active # {} /\ Process(s, Max(Active)) /\ UNCHANGED fetchRuns
     \/ /\ Active = {} /\ ~allowed /\ worker' = Down /\ UNCHANGED fetchRuns
     \/ /\ Active = {} /\ allowed /\ reusable_current_window_run
        /\ Process(s, Len(fetchRuns)) /\ UNCHANGED fetchRuns
     \/ /\ Active = {} /\ allowed /\ ~reusable_current_window_run /\ coverage_up_to_date
        /\ worker' = [worker EXCEPT !.completed = @ \cup {s}] /\ UNCHANGED fetchRuns
     \/ /\ Active = {} /\ allowed /\ ~reusable_current_window_run /\ ~coverage_up_to_date
        /\ Len(fetchRuns) < MaxRuns
        /\ fetchRuns' = Append(fetchRuns, create_run) /\ Process(s, Len(fetchRuns) + 1)
  /\ UNCHANGED <<sourceVars, ohlcv, archives, mishaps>>

log_readiness_check ==
  /\ At("loop") /\ due_schedule_stage("final_check")
  /\ worker' = [worker EXCEPT !.completed = @ \cup {"final_check"}]
  /\ UNCHANGED <<sourceVars, storeVars, mishaps>>

------------------------------------------------------------------------------
(* _run_fetch, one step per transaction.                                   *)

Run == fetchRuns[worker.run]
Cur == Run.items[worker.item]
SetItem(i, status) == fetchRuns' = [fetchRuns EXCEPT ![worker.run].items[i].status = status]
Settle == [worker EXCEPT !.pc = "settle", !.attempts = 0, !.got = {}]

prepare_run ==
  /\ At("created") /\ Goto("prepared")
  /\ fetchRuns' = [fetchRuns EXCEPT ![worker.run] = [@ EXCEPT
       !.status = "running",
       !.items = [m \in Members |-> IF Run.items[m].status = "fetching"
                    THEN [Run.items[m] EXCEPT !.status = "queued"] ELSE Run.items[m]]]]
  /\ UNCHANGED <<sourceVars, ohlcv, archives, mishaps>>

\* Mutant of fail_remaining: the item in flight is forgotten.
fail_queued ==
  /\ fetchRuns' = [fetchRuns EXCEPT ![worker.run] = [@ EXCEPT
       !.status = "failed", !.ended = [day |-> day, clock |-> clock],
       !.items = [m \in Members |-> IF Run.items[m].status = "fetching"
                    THEN [Run.items[m] EXCEPT !.status = "failed"] ELSE Run.items[m]]]]
  /\ worker' = [StageDone EXCEPT !.item = "", !.attempts = 0, !.got = {}]
  /\ UNCHANGED <<sourceVars, ohlcv, archives, mishaps>>

fail_remaining ==
  /\ fetchRuns' = [fetchRuns EXCEPT ![worker.run] = [@ EXCEPT
       !.status = "failed", !.ended = [day |-> day, clock |-> clock],
       !.items = [m \in Members |-> IF Run.items[m].status \in Open
                    THEN [Run.items[m] EXCEPT !.status = "failed"] ELSE Run.items[m]]]]
  /\ worker' = [StageDone EXCEPT !.item = "", !.attempts = 0, !.got = {}]
  /\ UNCHANGED <<sourceVars, ohlcv, archives, mishaps>>

NotAllowed == At("prepared") /\ ~allowed /\ fail_remaining
queued_items == /\ At("prepared") /\ allowed /\ Goto("next")
                /\ UNCHANGED <<sourceVars, storeVars, mishaps>>

Queued == {m \in Members : Run.items[m].status = "queued"}
NextItem == IF worker.item # "" THEN worker.item ELSE CHOOSE m \in Queued : TRUE
mark_item_fetching ==
  /\ At("next") /\ (worker.item # "" \/ Queued # {})
  /\ SetItem(NextItem, "fetching")
  /\ worker' = [worker EXCEPT !.pc = "asked", !.item = NextItem, !.attempts = @ + 1]
  /\ UNCHANGED <<sourceVars, ohlcv, archives, mishaps>>

(* dhan_exclusive_to_date adds the day that the source leaves out.         *)
Answer == Served(worker.item) \cap (Cur.from .. Cur.to)
upsert_candles ==
  /\ At("asked")
  /\ ohlcv' = [ohlcv EXCEPT ![worker.item] = @ \cup Answer]
  /\ worker' = [worker EXCEPT !.pc = "answered", !.got = Answer]
  /\ UNCHANGED <<sourceVars, archives, fetchRuns, mishaps>>

returned_candles_are_trailing_stale == worker.got # {} /\ Max(worker.got) < Cur.to

record_fetch_outcome ==
  LET i == worker.item
      known == archives[i].complete
      later == Now + RetryDelay
  IN /\ At("answered") /\ Goto("recorded")
     /\ archives' = [archives EXCEPT ![i] =
          IF worker.got # {}
          THEN [complete |-> known \/ Cur.kind # "incremental_update",
                retry |-> IF returned_candles_are_trailing_stale THEN later ELSE 0]
          ELSE IF ohlcv[i] # {} /\ Cur.kind # "older_history_backfill"
          THEN [complete |-> known, retry |-> later]
          ELSE [complete |-> TRUE, retry |-> 0]]
     /\ UNCHANGED <<sourceVars, ohlcv, fetchRuns, mishaps>>

mark_item ==
  /\ At("recorded") /\ worker' = Settle
  /\ SetItem(worker.item, IF worker.got = {} \/ returned_candles_are_trailing_stale
                          THEN "skipped_no_new_data" ELSE "done")
  /\ UNCHANGED <<sourceVars, ohlcv, archives, mishaps>>

RetryItem ==
  /\ At("asked") /\ worker.attempts <= MaxRetries /\ Goto("next")
  /\ UNCHANGED <<sourceVars, storeVars, mishaps>>

mark_item_failed ==
  /\ At("asked") /\ SetItem(worker.item, "failed")
  /\ \/ worker' = Settle
     \/ worker' = [Settle EXCEPT !.pc = "refused"]   \* 401 or 403
  /\ UNCHANGED <<sourceVars, ohlcv, archives, mishaps>>

(* The candles are stored, and a later write raises.                       *)
WriteFails ==
  /\ worker.pc \in {"answered", "recorded"} /\ mishaps < MaxMishaps
  /\ mishaps' = mishaps + 1
  /\ SetItem(worker.item, "failed") /\ worker' = Settle
  /\ UNCHANGED <<sourceVars, ohlcv, archives>>

Refused == At("refused") /\ fail_remaining

Count(r, statuses) == Cardinality({m \in Members : r.items[m].status \in statuses})
finish_run_if_complete ==
  /\ \/ At("settle") /\ worker' = [worker EXCEPT !.pc = "next", !.item = ""]
     \/ At("next") /\ worker.item = "" /\ Queued = {} /\ worker' = StageDone
  /\ fetchRuns' = IF Count(Run, Open) > 0 THEN fetchRuns
       ELSE [fetchRuns EXCEPT ![worker.run] = [@ EXCEPT
              !.ended = [day |-> day, clock |-> clock],
              !.status = IF Count(Run, Succeeded) = 0 /\ Count(Run, {"failed"}) > 0 THEN "failed"
                         ELSE IF Count(Run, {"failed", "skipped_unmapped"}) > 0
                         THEN "completed_with_errors" ELSE "completed"]]
  /\ UNCHANGED <<sourceVars, ohlcv, archives, mishaps>>

WorkerStep ==
  \/ Starts \/ log_readiness_check \/ prepare_run \/ NotAllowed \/ queued_items \/ mark_item_fetching
  \/ upsert_candles \/ record_fetch_outcome \/ mark_item \/ RetryItem \/ mark_item_failed
  \/ Refused \/ finish_run_if_complete
  \/ \E s \in Fetches : start_or_resume_ohlcv_fetch(s)

------------------------------------------------------------------------------
(* The process dies; time passes; the source publishes; the token changes. *)

Die == /\ ~At("down") /\ mishaps < MaxMishaps
       /\ mishaps' = mishaps + 1 /\ worker' = Down
       /\ UNCHANGED <<sourceVars, storeVars>>

Due == \E s \in Stages : due_schedule_stage(s)
Forget(w) == IF w.pc = "loop" THEN [w EXCEPT !.completed = {}] ELSE w

(* The loop wakes in time for a stage, and a fetch is over by the evening. *)
Tick == /\ ~(At("loop") /\ Due)
        /\ \/ clock < Deadline /\ clock' = clock + 1 /\ UNCHANGED <<day, worker>>
           \/ /\ clock = Deadline /\ (At("loop") \/ At("down")) /\ day < LastDay
              /\ clock' = 0 /\ day' = day + 1 /\ worker' = Forget(worker)
        /\ UNCHANGED <<latest, allowed, storeVars, mishaps>>

Publish == /\ latest < expected_latest_candle_date
           /\ latest' = Min({s \in Sessions : s > latest})
           /\ UNCHANGED <<day, clock, allowed, storeVars, worker, mishaps>>

TokenChanges == /\ allowed' = ~allowed
                /\ IF allowed THEN mishaps < MaxMishaps /\ mishaps' = mishaps + 1
                   ELSE UNCHANGED mishaps
                /\ UNCHANGED <<day, clock, latest, storeVars, worker>>

Init == /\ day = FirstDay /\ clock = 0 /\ allowed = TRUE
        /\ latest = previous_trading_day(expected_latest_candle_date)
        /\ ohlcv = [i \in Instruments |-> {}]
        /\ archives = [i \in Instruments |-> [complete |-> FALSE, retry |-> 0]]
        /\ fetchRuns = <<>> /\ worker = Down /\ mishaps = 0

Next == WorkerStep \/ WriteFails \/ Die \/ Tick \/ Publish \/ TokenChanges
Spec == Init /\ [][Next]_matsyaFetchVars
------------------------------------------------------------------------------
(* Runs, items, archive rows and the worker's state are well formed.       *)
TypeOK ==
  /\ day \in FirstDay .. LastDay /\ clock \in 0 .. Deadline /\ latest \in Sessions \cup {-1}
  /\ ohlcv \in [Instruments -> SUBSET Sessions]
  /\ archives \in [Instruments -> [complete : BOOLEAN, retry : Nat]]
  /\ \A n \in DOMAIN fetchRuns :
       /\ fetchRuns[n].status \in Terminal \cup {"queued", "running"}
       /\ \A m \in Members : fetchRuns[n].items[m].status
                            \in Open \cup Succeeded \cup {"failed", "skipped_unmapped"}
  /\ worker.attempts \in 0 .. MaxRetries + 1 /\ worker.completed \subseteq Stages

(* A run that has ended has nothing left open, there is never a second run *)
(* in progress, although a reused run is put to "running" once more, and   *)
(* once a fetch stage counts as done, by itself or after a restart, none   *)
(* is: what a death interrupted has been worked off first.                 *)
RunsInOrder ==
  /\ TypeOK
  /\ Cardinality(Active) <= 1
  /\ \A n \in DOMAIN fetchRuns : fetchRuns[n].status \in Terminal => Count(fetchRuns[n], Open) = 0
  /\ At("loop") /\ worker.completed # {} => Active = {}

(* prediction_freshness_status looks at the latest candle only.  Where it  *)
(* says fresh, no session of the window before that candle is missing.     *)
fresh(i) == ohlcv[i] # {} /\ Max(ohlcv[i]) >= expected_latest_candle_date
FreshMeansWhole ==
  \A i \in Instruments :
    fresh(i) => \A d \in Served(i) : d <= Max(ohlcv[i]) /\ d >= Min(ohlcv[i]) => d \in ohlcv[i]

Archive == INSTANCE CandleArchive WITH
             published <- latest, floor <- Window.from, candles <- ohlcv,
             complete <- {i \in Instruments : archives[i].complete}

(* The stored candles stay a gapless stretch and an archive is declared    *)
(* complete only when the source has nothing older.                        *)
KeepsArchive == Archive!Spec
==============================================================================
