------------------------- MODULE MatsyaFetchProofs -------------------------
(***************************************************************************)
(* Matsya's daily fetch for every universe, calendar and schedule, and for *)
(* every interleaving of the worker with its deaths, the clock, the source *)
(* and the token.                                                          *)
(***************************************************************************)
EXTENDS MatsyaFetch, DataLemmas

-----------------------------------------------------------------------------
(* The inductive invariant                                                   *)

PCs == {"down", "loop", "created", "prepared", "next", "asked", "answered", "recorded",
        "settle", "refused"}
Processing == PCs \ {"down", "loop"}
InHand == {"asked", "answered", "recorded"}

Kinds == {"none", "initial_capture", "older_history_backfill", "incremental_update"}
ItemStatuses == Open \cup Succeeded \cup {"failed", "skipped_unmapped"}
RunStatuses == Terminal \cup {"queued", "running"}
WindowType == [from : Int, to : Int]
ItemType == [status : ItemStatuses, kind : Kinds, from : Int, to : Int]
RunType == [window : WindowType, status : RunStatuses, ended : [day : Int, clock : Int],
            items : [Members -> ItemType]]
WorkerType == [pc : PCs, run : Nat, item : Members \cup {""}, attempts : Nat, got : SUBSET Int,
               stage : Stages \cup {""}, completed : SUBSET Stages]

TypeInv ==
  /\ day \in FirstDay .. LastDay /\ clock \in 0 .. Deadline /\ latest \in Sessions \cup {-1}
  /\ allowed \in BOOLEAN /\ mishaps \in Nat
  /\ ohlcv \in [Instruments -> SUBSET Sessions]
  /\ archives \in [Instruments -> [complete : BOOLEAN, retry : Nat]]
  /\ fetchRuns \in Seq(RunType)
  /\ worker \in WorkerType

\* Only the last run can be in progress, an ended run has nothing left open,
\* and only members with an instrument are ever asked for.
OrderInv ==
  \A n \in DOMAIN fetchRuns :
    /\ n < Len(fetchRuns) => fetchRuns[n].status \in Terminal
    /\ \A m \in Members : fetchRuns[n].items[m].status \in Open =>
         m \in Instruments /\ fetchRuns[n].status \notin Terminal

\* The worker is on the last run; the item it has in hand is the one that is
\* being fetched; what it counts as done today, nothing in progress contradicts.
WorkerInv ==
  /\ worker.pc \in Processing => /\ Len(fetchRuns) > 0 /\ worker.run = Len(fetchRuns)
                                 /\ worker.stage \in Fetches
  /\ worker.pc = "prepared" => Run.status = "running"
  /\ worker.pc \in Processing \ {"created"} =>
       \A m \in Members : Run.items[m].status = "fetching" =>
         m = worker.item /\ worker.pc \in InHand \cup {"next"}
  /\ worker.pc \in InHand \/ (worker.pc = "next" /\ worker.item # "") =>
       worker.item \in Instruments /\ Cur.status = "fetching"
  /\ worker.pc \in {"down", "loop", "created", "prepared"} => worker.item = ""
  /\ worker.pc \in InHand => worker.attempts <= MaxRetries + 1
  /\ worker.pc = "next" => worker.attempts <= MaxRetries
  /\ worker.pc \notin InHand \cup {"next"} => worker.attempts = 0
  /\ worker.pc = "next" /\ worker.item = "" => worker.attempts = 0
  /\ worker.pc = "loop" /\ worker.completed # {} =>
       \A n \in DOMAIN fetchRuns : fetchRuns[n].status \in Terminal

\* What is stored has been served, and without a gap.
ServedInv == \A i \in Instruments : ohlcv[i] \subseteq Served(i)
GapInv == \A i \in Instruments : Archive!Gapless(i, ohlcv[i])

\* What an open item asks for joins what is stored, whatever of it has been
\* stored already, and all but an update asks back to the start of the window.
Joins(item, stored, floor) ==
  /\ stored # {} => /\ \E e \in stored : item.from <= e + 1
                    /\ \E e \in stored : e <= item.to + 1
  /\ stored = {} => item.kind = "initial_capture"
  /\ item.kind # "incremental_update" => item.from <= floor
RequestsInv ==
  \A n \in DOMAIN fetchRuns : \A i \in Instruments :
    fetchRuns[n].items[i].status \in Open => Joins(fetchRuns[n].items[i], ohlcv[i], Window.from)

\* Once the answer is stored, the source has nothing older that was asked for.
AnswerInv ==
  worker.pc = "answered" /\ ohlcv[worker.item] # {} =>
    \A d \in Served(worker.item) : Cur.from <= d => \E e \in ohlcv[worker.item] : e <= d

-----------------------------------------------------------------------------
(* The calendar and the window                                               *)

LEMMA Constants ==
  /\ Lookback \in Nat /\ Supported \in Nat /\ Overlap \in Nat /\ MaxRetries \in Nat
  /\ Primary \in Nat /\ Repair \in Nat /\ FinalCheck \in Nat /\ Deadline \in Nat
  /\ Primary < FinalCheck /\ Repair < FinalCheck
  /\ RetryDelay \in Nat /\ FirstDay \in Nat /\ LastDay \in Nat /\ FirstDay <= LastDay
  /\ MaxMishaps \in Nat
<1>1. /\ Primary \in Nat /\ Repair \in Nat /\ FinalCheck \in Nat
      /\ Primary < Repair /\ Repair < FinalCheck
  BY MatsyaFetchAssumption
<1>2. Primary < FinalCheck /\ Repair < FinalCheck
  BY <1>1
<1> QED
  BY <1>1, <1>2, MatsyaFetchAssumption

LEMMA Days == Sessions \subseteq Nat /\ \A i \in Instruments : Listing[i] \in Nat
BY MatsyaFetchAssumption

LEMMA Names == IsFiniteSet(Members) /\ "" \notin Members /\ Instruments \subseteq Members
BY MatsyaFetchAssumption DEF Instruments

\* The latest of some days, or -1.
LEMMA LatestOf ==
  ASSUME NEW S \in SUBSET Nat, NEW b \in Int, \A s \in S : s <= b
  PROVE  /\ Max({-1} \cup S) \in {-1} \cup S
         /\ \A s \in {-1} \cup S : s <= Max({-1} \cup S)
<1>1. \E x \in {-1} \cup S : \A y \in {-1} \cup S : x >= y
  <2>1. CASE S = {}
    BY <2>1
  <2>2. CASE S # {}
    <3>1. PICK s \in S : TRUE
      BY <2>2
    <3>2. b \in Nat
      BY <3>1
    <3>3. PICK m \in S : \A y \in S : y <= m
      BY <2>2, <3>2, GreatestNatural
    <3>4. m \in Nat /\ \A y \in {-1} \cup S : m >= y
      BY <3>3
    <3> QED
      BY <3>3, <3>4
  <2> QED
    BY <2>1, <2>2
<1>2. /\ Max({-1} \cup S) \in {-1} \cup S
      /\ \A y \in {-1} \cup S : Max({-1} \cup S) >= y
  BY <1>1 DEF Max
<1>3. \A y \in {-1} \cup S : y \in Int
  OBVIOUS
<1>4. Max({-1} \cup S) \in Int
  BY <1>2, <1>3
<1> QED
  BY <1>2, <1>3, <1>4

LEMMA Previous ==
  ASSUME NEW d \in Int
  PROVE  /\ previous_trading_day(d) \in Sessions \cup {-1} /\ previous_trading_day(d) \in Int
         /\ \A s \in Sessions : s < d => s <= previous_trading_day(d)
         /\ previous_trading_day(d) # -1 => previous_trading_day(d) < d
         /\ previous_trading_day(d) >= -1
<1> DEFINE S == {s \in Sessions : s < d}
<1>1. S \in SUBSET Nat /\ \A s \in S : s <= d
  <2>1. S \in SUBSET Nat
    BY Days
  <2>2. \A s \in Sessions : s \in Int /\ (s < d => s <= d)
    BY Days
  <2>3. \A s \in S : s <= d
    BY <2>2
  <2> QED
    BY <2>1, <2>3
<1>2. /\ Max({-1} \cup S) \in {-1} \cup S
      /\ \A s \in {-1} \cup S : s <= Max({-1} \cup S)
  BY <1>1, LatestOf
<1>3. previous_trading_day(d) = Max({-1} \cup S)
  <2>1. S \cup {-1} = {-1} \cup S
    OBVIOUS
  <2> QED
    BY <2>1 DEF previous_trading_day
<1>4. \A s \in Sessions : s \in Int /\ s >= -1
  BY Days
<1>5. Max({-1} \cup S) = -1 \/ (Max({-1} \cup S) \in Sessions /\ Max({-1} \cup S) < d)
  BY <1>2
<1> HIDE DEF S
<1>6. \A s \in Sessions : s < d => s <= Max({-1} \cup S)
  BY <1>2 DEF S
<1> QED
  BY <1>3, <1>4, <1>5, <1>6

LEMMA PreviousGrows ==
  ASSUME NEW d \in Int, NEW e \in Int, d <= e
  PROVE  previous_trading_day(d) <= previous_trading_day(e)
<1>1. /\ previous_trading_day(d) \in Sessions \cup {-1} /\ previous_trading_day(d) \in Int
      /\ previous_trading_day(d) # -1 => previous_trading_day(d) < d
      /\ previous_trading_day(e) \in Int /\ previous_trading_day(e) >= -1
      /\ \A s \in Sessions : s < e => s <= previous_trading_day(e)
  BY Previous
<1>2. CASE previous_trading_day(d) = -1
  BY <1>1, <1>2
<1>3. CASE previous_trading_day(d) # -1
  BY <1>1, <1>3
<1> QED
  BY <1>2, <1>3

\* The greater of two days.
LEMMA MaxOfTwo ==
  ASSUME NEW m \in Int, NEW n \in Int
  PROVE  Max({m, n}) \in {m, n} /\ Max({m, n}) >= m /\ Max({m, n}) >= n
<1>1. \E x \in {m, n} : \A y \in {m, n} : x >= y
  OBVIOUS
<1> QED
  BY <1>1 DEF Max

\* The first day of the window on day d.
FromOn(d) == Max({previous_trading_day(d) - Lookback + 1, d - Supported})

LEMMA FromGrows ==
  ASSUME NEW d \in Int, NEW e \in Int, d <= e
  PROVE  FromOn(d) \in Int /\ FromOn(e) \in Int /\ FromOn(d) <= FromOn(e)
<1> DEFINE p == previous_trading_day(d) - Lookback + 1
           q == d - Supported
           r == previous_trading_day(e) - Lookback + 1
           t == e - Supported
<1>1. p \in Int /\ q \in Int /\ r \in Int /\ t \in Int /\ p <= r /\ q <= t
  <2>1. /\ previous_trading_day(d) \in Int /\ previous_trading_day(e) \in Int
        /\ previous_trading_day(d) <= previous_trading_day(e)
    BY Previous, PreviousGrows
  <2> QED
    BY <2>1, Constants
<1>2. FromOn(d) = Max({p, q}) /\ FromOn(e) = Max({r, t})
  BY DEF FromOn
<1> HIDE DEF p, q, r, t
<1>3. /\ Max({p, q}) \in {p, q} /\ Max({r, t}) \in {r, t}
      /\ Max({r, t}) >= r /\ Max({r, t}) >= t
  BY <1>1, MaxOfTwo
<1> QED
  BY <1>1, <1>2, <1>3

LEMMA WindowForm ==
  ASSUME TypeInv
  PROVE  /\ Window = [from |-> FromOn(day), to |-> previous_trading_day(day)]
         /\ Window \in WindowType /\ day \in Int /\ day <= LastDay /\ FirstDay <= day
         /\ expected_latest_candle_date = previous_trading_day(day)
<1>1. day \in Int /\ day <= LastDay /\ FirstDay <= day
  BY Constants DEF TypeInv
<1>2. FromOn(day) \in Int /\ previous_trading_day(day) \in Int
  BY <1>1, FromGrows, Previous
<1>3. Window = [from |-> FromOn(day), to |-> previous_trading_day(day)]
  BY DEF Window, expected_latest_candle_date, FromOn
<1> QED
  BY <1>1, <1>2, <1>3 DEF WindowType, expected_latest_candle_date

LEMMA NowTyped ==
  ASSUME TypeInv
  PROVE  Now \in Nat
<1>1. day \in Nat /\ clock \in Nat /\ MorningLength \in Nat
  BY Constants DEF TypeInv, MorningLength
<1>2. day * MorningLength \in Nat
  BY <1>1
<1> QED
  BY <1>1, <1>2 DEF Now

LEMMA BackInPast ==
  ASSUME NEW n, NEW d \in Nat
  PROVE  Back(n, d) \in Int /\ Back(n, d) <= d
<1> DEFINE S == {s \in Sessions : s <= d /\ Cardinality({t \in Sessions : s < t /\ t <= d}) >= n}
<1>1. S \in SUBSET Nat /\ \A s \in S : s <= d
  BY Days
<1>2. Back(n, d) = Max({-1} \cup S)
  BY DEF Back
<1> HIDE DEF S
<1>3. Max({-1} \cup S) \in {-1} \cup S
  BY <1>1, LatestOf
<1>4. \A y \in {-1} \cup S : y \in Int /\ y <= d
  BY <1>1
<1> QED
  BY <1>2, <1>3, <1>4

\* The stored days of an instrument have a first and a latest.
LEMMA Extremes ==
  ASSUME TypeInv, NEW i \in Instruments, NEW S \in SUBSET Sessions, S # {}, \A d \in S : d <= latest
  PROVE  /\ Min(S) \in S /\ \A d \in S : Min(S) <= d
         /\ Max(S) \in S /\ \A d \in S : d <= Max(S)
<1>1. S \in SUBSET Nat /\ latest \in Int
  BY Days DEF TypeInv
<1>2. PICK s \in S : TRUE
  OBVIOUS
<1>3. latest \in Nat
  BY <1>1, <1>2
<1>4. PICK m \in S : \A d \in S : d <= m
  BY <1>1, <1>3, GreatestNatural
<1>5. \A d \in S : m >= d
  BY <1>1, <1>4
<1>6. Max(S) \in S /\ \A d \in S : Max(S) >= d
  BY <1>5 DEF Max
<1>7. Min(S) \in S /\ \A d \in S : Min(S) <= d
  BY <1>1, LeastNatural DEF Min
<1>8. \A d \in S : d <= Max(S)
  BY <1>1, <1>6
<1> QED
  BY <1>6, <1>7, <1>8

-----------------------------------------------------------------------------
(* The worker and its run                                                    *)

OrderedInv == TypeInv /\ OrderInv /\ WorkerInv

LEMMA WorkerFields ==
  ASSUME TypeInv
  PROVE  /\ worker = [pc |-> worker.pc, run |-> worker.run, item |-> worker.item,
                      attempts |-> worker.attempts, got |-> worker.got, stage |-> worker.stage,
                      completed |-> worker.completed]
         /\ worker.pc \in PCs /\ worker.run \in Nat /\ worker.item \in Members \cup {""}
         /\ worker.attempts \in Nat /\ worker.got \in SUBSET Int
         /\ worker.stage \in Stages \cup {""} /\ worker.completed \in SUBSET Stages
BY DEF TypeInv, WorkerType

LEMMA WorkerMade ==
  ASSUME NEW pc \in PCs, NEW run \in Nat, NEW item \in Members \cup {""}, NEW attempts \in Nat,
         NEW got \in SUBSET Int, NEW stage \in Stages \cup {""}, NEW completed \in SUBSET Stages
  PROVE  [pc |-> pc, run |-> run, item |-> item, attempts |-> attempts, got |-> got,
          stage |-> stage, completed |-> completed] \in WorkerType
BY DEF WorkerType

\* The run the worker is on is the last one.
LEMMA RunTyped ==
  ASSUME TypeInv, WorkerInv, worker.pc \in Processing
  PROVE  /\ worker.run = Len(fetchRuns) /\ worker.run \in DOMAIN fetchRuns
         /\ Run = fetchRuns[worker.run] /\ Run \in RunType
         /\ Run.status \in RunStatuses /\ Run.items \in [Members -> ItemType]
         /\ \A m \in Members : /\ Run.items[m] \in ItemType /\ Run.items[m].status \in ItemStatuses
                               /\ Run.items[m].kind \in Kinds
                               /\ Run.items[m].from \in Int /\ Run.items[m].to \in Int
<1>1. fetchRuns \in Seq(RunType) /\ Len(fetchRuns) > 0 /\ worker.run = Len(fetchRuns)
  BY DEF TypeInv, WorkerInv
<1>2. worker.run \in DOMAIN fetchRuns
  BY <1>1
<1>3. Run = fetchRuns[worker.run] /\ Run \in RunType
  BY <1>1, <1>2 DEF Run
<1>4. Run.status \in RunStatuses /\ Run.items \in [Members -> ItemType]
  BY <1>3 DEF RunType
<1>5. \A m \in Members : Run.items[m] \in ItemType
  BY <1>4
<1> QED
  BY <1>1, <1>2, <1>3, <1>4, <1>5 DEF ItemType

\* The worker's run becomes n: the same requests in the same window, with
\* another status or other statuses of its items; the others stay as they are.
Rewritten(n) ==
  /\ fetchRuns' \in Seq(RunType) /\ Len(fetchRuns') = Len(fetchRuns)
  /\ DOMAIN fetchRuns' = DOMAIN fetchRuns
  /\ \A k \in DOMAIN fetchRuns : k # worker.run => fetchRuns'[k] = fetchRuns[k]
  /\ fetchRuns'[worker.run] = n /\ n \in RunType /\ n.window = Run.window
  /\ \A m \in Members : /\ n.items[m].kind = Run.items[m].kind
                        /\ n.items[m].from = Run.items[m].from
                        /\ n.items[m].to = Run.items[m].to

LEMMA RewriteForm ==
  ASSUME TypeInv, WorkerInv, worker.pc \in Processing, NEW n \in RunType, n.window = Run.window,
         \A m \in Members : /\ n.items[m].kind = Run.items[m].kind
                            /\ n.items[m].from = Run.items[m].from
                            /\ n.items[m].to = Run.items[m].to,
         fetchRuns' = [fetchRuns EXCEPT ![worker.run] = n]
  PROVE  Rewritten(n)
<1>1. fetchRuns \in Seq(RunType) /\ worker.run \in DOMAIN fetchRuns
  BY RunTyped DEF TypeInv
<1>2. /\ fetchRuns' \in Seq(RunType) /\ Len(fetchRuns') = Len(fetchRuns)
      /\ DOMAIN fetchRuns' = DOMAIN fetchRuns /\ fetchRuns'[worker.run] = n
      /\ \A k \in DOMAIN fetchRuns : k # worker.run => fetchRuns'[k] = fetchRuns[k]
  BY <1>1
<1> QED
  BY <1>2 DEF Rewritten

\* A step that leaves the runs alone rewrites the worker's run as it is.
LEMMA Unwritten ==
  ASSUME TypeInv, WorkerInv, worker.pc \in Processing, UNCHANGED fetchRuns
  PROVE  Rewritten(Run)
BY RunTyped DEF Rewritten, TypeInv

\* The run after one item has been given another status.
With(i, x) == [Run EXCEPT !.items[i].status = x]

LEMMA SetItemForm ==
  ASSUME TypeInv, WorkerInv, worker.pc \in Processing, NEW i \in Members, NEW x \in ItemStatuses,
         SetItem(i, x)
  PROVE  /\ Rewritten(With(i, x)) /\ With(i, x).status = Run.status
         /\ With(i, x).items[i].status = x
         /\ \A m \in Members : m # i => With(i, x).items[m] = Run.items[m]
<1> DEFINE n == With(i, x)
           items == [Run.items EXCEPT ![i].status = x]
<1>1. /\ Run = fetchRuns[worker.run] /\ Run \in RunType /\ worker.run \in DOMAIN fetchRuns
      /\ Run.items \in [Members -> ItemType] /\ \A m \in Members : Run.items[m] \in ItemType
  BY RunTyped
<1>2. [Run.items[i] EXCEPT !.status = x] \in ItemType
  BY <1>1 DEF ItemType
<1>3. items \in [Members -> ItemType]
  BY <1>1, <1>2
<1>4. \A m \in Members : /\ items[m].kind = Run.items[m].kind /\ items[m].from = Run.items[m].from
                         /\ items[m].to = Run.items[m].to
                         /\ m # i => items[m] = Run.items[m]
  BY <1>1 DEF ItemType
<1>5. items[i].status = x
  BY <1>1 DEF ItemType
<1>6. n = [Run EXCEPT !.items = items]
  BY <1>1 DEF With, RunType
<1> HIDE DEF items
<1>7. n \in RunType /\ n.window = Run.window /\ n.items = items /\ n.status = Run.status
  BY <1>1, <1>3, <1>6 DEF RunType
<1>8. fetchRuns' = [fetchRuns EXCEPT ![worker.run] = n]
  BY <1>1 DEF SetItem, With
<1> HIDE DEF n
<1>9. Rewritten(n)
  BY <1>4, <1>7, <1>8, RewriteForm
<1> QED
  BY <1>4, <1>5, <1>7, <1>9 DEF n

\* The run given another status, and its items other ones.
Restated(st, ended, S) ==
  [Run EXCEPT !.status = st, !.ended = ended,
              !.items = [m \in Members |-> [Run.items[m] EXCEPT !.status = S[m]]]]

LEMMA ItemsForm ==
  ASSUME TypeInv, WorkerInv, worker.pc \in Processing, NEW st \in RunStatuses,
         NEW ended \in [day : Int, clock : Int], NEW S \in [Members -> ItemStatuses]
  PROVE  LET n == Restated(st, ended, S)
         IN  /\ n \in RunType /\ n.window = Run.window /\ n.status = st
             /\ \A m \in Members : /\ n.items[m].kind = Run.items[m].kind
                                   /\ n.items[m].from = Run.items[m].from
                                   /\ n.items[m].to = Run.items[m].to
                                   /\ n.items[m].status = S[m]
<1> DEFINE items == [m \in Members |-> [Run.items[m] EXCEPT !.status = S[m]]]
           n == Restated(st, ended, S)
<1>1. Run \in RunType /\ \A m \in Members : Run.items[m] \in ItemType
  BY RunTyped
<1>2. \A m \in Members : [Run.items[m] EXCEPT !.status = S[m]] \in ItemType
  BY <1>1 DEF ItemType
<1>3. items \in [Members -> ItemType]
  BY <1>2
<1>4. \A m \in Members : /\ items[m].kind = Run.items[m].kind /\ items[m].from = Run.items[m].from
                         /\ items[m].to = Run.items[m].to /\ items[m].status = S[m]
  BY <1>1 DEF ItemType
<1>5. n = [Run EXCEPT !.status = st, !.ended = ended, !.items = items]
  BY DEF Restated
<1> HIDE DEF items, n
<1>6. n \in RunType /\ n.window = Run.window /\ n.status = st /\ n.items = items
  BY <1>1, <1>3, <1>5 DEF RunType
<1>7. /\ n \in RunType /\ n.window = Run.window /\ n.status = st
      /\ \A m \in Members : /\ n.items[m].kind = Run.items[m].kind
                            /\ n.items[m].from = Run.items[m].from
                            /\ n.items[m].to = Run.items[m].to
                            /\ n.items[m].status = S[m]
  BY <1>4, <1>6
<1> QED
  BY <1>7 DEF n

\* Rewriting the last run keeps the order of runs, when only what has an
\* instrument is open in it and nothing is, once it has ended.
LEMMA OrderKept ==
  ASSUME TypeInv, OrderInv, WorkerInv, worker.pc \in Processing, NEW n, Rewritten(n),
         \A m \in Members : n.items[m].status \in Open => m \in Instruments /\ n.status \notin Terminal
  PROVE  OrderInv'
<1>1. worker.run = Len(fetchRuns) /\ fetchRuns \in Seq(RunType)
  BY RunTyped DEF TypeInv
<1> SUFFICES ASSUME NEW k \in DOMAIN fetchRuns
             PROVE  /\ k < Len(fetchRuns) => fetchRuns'[k].status \in Terminal
                    /\ \A m \in Members : fetchRuns'[k].items[m].status \in Open =>
                         m \in Instruments /\ fetchRuns'[k].status \notin Terminal
  BY DEF OrderInv, Rewritten
<1>2. CASE k = worker.run
  BY <1>1, <1>2 DEF Rewritten
<1>3. CASE k # worker.run
  BY <1>1, <1>3 DEF Rewritten, OrderInv
<1> QED
  BY <1>2, <1>3

\* The run after a step of the worker that stays on it.
LEMMA OnRun ==
  ASSUME NEW n, Rewritten(n), worker'.run = worker.run
  PROVE  /\ Run' = n /\ Cur' = n.items[worker'.item]
BY DEF Rewritten, Run, Cur

-----------------------------------------------------------------------------
(* Every step of the worker on its run                                       *)

LEMMA StoreTyped ==
  ASSUME TypeInv, UNCHANGED <<day, clock, latest, allowed, ohlcv, archives>>,
         mishaps' \in Nat, fetchRuns' \in Seq(RunType), worker' \in WorkerType
  PROVE  TypeInv'
BY DEF TypeInv

\* The run is started again, and what was being fetched is queued again.
LEMMA PrepareForm ==
  ASSUME OrderedInv, worker.pc \in Processing, prepare_run
  PROVE  \E n \in RunType :
           /\ Rewritten(n) /\ n.status = "running"
           /\ \A m \in Members :
                /\ n.items[m].status # "fetching"
                /\ n.items[m].status \in Open => Run.items[m].status \in Open
<1> DEFINE S == [m \in Members |-> IF Run.items[m].status = "fetching" THEN "queued"
                                   ELSE Run.items[m].status]
           n == Restated("running", Run.ended, S)
<1>1. TypeInv /\ OrderInv /\ WorkerInv
  BY DEF OrderedInv
<1>2. /\ Run = fetchRuns[worker.run] /\ Run \in RunType /\ worker.run \in DOMAIN fetchRuns
      /\ \A m \in Members : Run.items[m] \in ItemType /\ Run.items[m].status \in ItemStatuses
  BY <1>1, RunTyped
<1>3. /\ S \in [Members -> ItemStatuses]
      /\ \A m \in Members : /\ S[m] # "fetching"
                            /\ S[m] \in Open => Run.items[m].status \in Open
  <2>1. "queued" \in ItemStatuses
    BY DEF ItemStatuses, Open
  <2> QED
    BY <1>2, <2>1 DEF Open
<1>4. Run.ended \in [day : Int, clock : Int] /\ "running" \in RunStatuses
  BY <1>2 DEF RunType, RunStatuses
<1>5. fetchRuns' = [fetchRuns EXCEPT ![worker.run] = n]
  <2>1. \A m \in Members : [Run.items[m] EXCEPT !.status = S[m]] =
          IF Run.items[m].status = "fetching" THEN [Run.items[m] EXCEPT !.status = "queued"]
          ELSE Run.items[m]
    BY <1>2 DEF ItemType
  <2> DEFINE items == [m \in Members |-> [Run.items[m] EXCEPT !.status = S[m]]]
  <2>2. items = [m \in Members |-> IF Run.items[m].status = "fetching"
                   THEN [Run.items[m] EXCEPT !.status = "queued"] ELSE Run.items[m]]
    BY <2>1
  <2>3. n = [Run EXCEPT !.status = "running", !.ended = Run.ended, !.items = items]
    BY DEF Restated
  <2> HIDE DEF items, n
  <2>4. n = [Run EXCEPT !.status = "running", !.items = items]
    BY <1>2, <2>3 DEF RunType
  <2> QED
    BY <1>2, <2>2, <2>4 DEF prepare_run
<1> HIDE DEF S
<1>6. /\ n \in RunType /\ n.window = Run.window /\ n.status = "running"
      /\ \A m \in Members : /\ n.items[m].kind = Run.items[m].kind
                            /\ n.items[m].from = Run.items[m].from
                            /\ n.items[m].to = Run.items[m].to
                            /\ n.items[m].status = S[m]
  BY <1>1, <1>3, <1>4, ItemsForm
<1> HIDE DEF n
<1>7. Rewritten(n)
  BY <1>1, <1>5, <1>6, RewriteForm
<1> QED
  BY <1>3, <1>6, <1>7

LEMMA StepPrepareRun ==
  ASSUME OrderedInv, prepare_run
  PROVE  OrderedInv'
<1>1. /\ TypeInv /\ OrderInv /\ WorkerInv /\ worker.pc = "created" /\ worker.pc \in Processing
      /\ UNCHANGED <<day, clock, latest, allowed, ohlcv, archives, mishaps>>
      /\ worker' = [worker EXCEPT !.pc = "prepared"]
  BY DEF OrderedInv, prepare_run, At, Goto, sourceVars, Processing, PCs
<1>2. PICK n \in RunType :
        /\ Rewritten(n) /\ n.status = "running"
        /\ \A m \in Members :
             /\ n.items[m].status # "fetching"
             /\ n.items[m].status \in Open => Run.items[m].status \in Open
  BY <1>1, PrepareForm
<1>3. Run = fetchRuns[worker.run] /\ worker.run \in DOMAIN fetchRuns /\ worker.run = Len(fetchRuns)
  BY <1>1, RunTyped
<1>4. OrderInv'
  <2>1. \A m \in Members : Run.items[m].status \in Open => m \in Instruments
    BY <1>1, <1>3 DEF OrderInv
  <2>2. "running" \notin Terminal
    BY DEF Terminal
  <2> QED
    BY <1>1, <1>2, <2>1, <2>2, OrderKept
<1>5. /\ worker' \in WorkerType /\ worker'.pc = "prepared" /\ worker'.run = worker.run
      /\ worker'.item = worker.item /\ worker'.attempts = worker.attempts
      /\ worker'.stage = worker.stage
  BY <1>1 DEF TypeInv, WorkerType, PCs
<1>6. fetchRuns' \in Seq(RunType) /\ Len(fetchRuns') = Len(fetchRuns)
  BY <1>2 DEF Rewritten
<1>7. TypeInv'
  BY <1>1, <1>5, <1>6, StoreTyped DEF TypeInv
<1>8. Run' = n
  BY <1>2, <1>5, OnRun
<1>9. WorkerInv'
  BY <1>1, <1>2, <1>3, <1>5, <1>6, <1>8 DEF WorkerInv, InHand, Processing
<1> QED
  BY <1>4, <1>7, <1>9 DEF OrderedInv

\* What is left of the run is given up, and with it the stage.
LEMMA FailForm ==
  ASSUME OrderedInv, worker.pc \in Processing, fail_remaining
  PROVE  \E n \in RunType :
           /\ Rewritten(n) /\ n.status = "failed"
           /\ \A m \in Members : n.items[m].status \notin Open
<1> DEFINE S == [m \in Members |-> IF Run.items[m].status \in Open THEN "failed"
                                   ELSE Run.items[m].status]
           ended == [day |-> day, clock |-> clock]
           n == Restated("failed", ended, S)
<1>1. TypeInv /\ OrderInv /\ WorkerInv
  BY DEF OrderedInv
<1>2. /\ Run = fetchRuns[worker.run] /\ Run \in RunType /\ worker.run \in DOMAIN fetchRuns
      /\ \A m \in Members : Run.items[m] \in ItemType /\ Run.items[m].status \in ItemStatuses
  BY <1>1, RunTyped
<1>3. S \in [Members -> ItemStatuses] /\ \A m \in Members : S[m] \notin Open
  <2>1. "failed" \in ItemStatuses /\ "failed" \notin Open
    BY DEF ItemStatuses, Open
  <2> QED
    BY <1>2, <2>1
<1>4. ended \in [day : Int, clock : Int] /\ "failed" \in RunStatuses
  <2>1. day \in Int /\ clock \in Int
    BY <1>1, Constants DEF TypeInv
  <2> QED
    BY <2>1 DEF RunStatuses, Terminal
<1>5. fetchRuns' = [fetchRuns EXCEPT ![worker.run] = n]
  <2>1. \A m \in Members : [Run.items[m] EXCEPT !.status = S[m]] =
          IF Run.items[m].status \in Open THEN [Run.items[m] EXCEPT !.status = "failed"]
          ELSE Run.items[m]
    BY <1>2 DEF ItemType
  <2>2. n = [Run EXCEPT !.status = "failed", !.ended = ended,
               !.items = [m \in Members |-> IF Run.items[m].status \in Open
                            THEN [Run.items[m] EXCEPT !.status = "failed"] ELSE Run.items[m]]]
    BY <2>1 DEF Restated
  <2> HIDE DEF n
  <2> QED
    BY <1>2, <2>2 DEF fail_remaining
<1> HIDE DEF S, ended
<1>6. /\ n \in RunType /\ n.window = Run.window /\ n.status = "failed"
      /\ \A m \in Members : /\ n.items[m].kind = Run.items[m].kind
                            /\ n.items[m].from = Run.items[m].from
                            /\ n.items[m].to = Run.items[m].to
                            /\ n.items[m].status = S[m]
  BY <1>1, <1>3, <1>4, ItemsForm
<1> HIDE DEF n
<1>7. Rewritten(n)
  BY <1>1, <1>5, <1>6, RewriteForm
<1> QED
  BY <1>3, <1>6, <1>7

\* A worker between two stages, with nothing in progress.
LEMMA LoopInv ==
  ASSUME worker'.pc = "loop", worker'.item = "", worker'.attempts = 0,
         worker'.completed # {} => \A n \in DOMAIN fetchRuns' : fetchRuns'[n].status \in Terminal
  PROVE  WorkerInv'
BY DEF WorkerInv, InHand, Processing

LEMMA AllEnded ==
  ASSUME TypeInv, OrderInv, WorkerInv, worker.pc \in Processing, NEW n, Rewritten(n),
         n.status \in Terminal
  PROVE  \A k \in DOMAIN fetchRuns' : fetchRuns'[k].status \in Terminal
<1>1. worker.run = Len(fetchRuns) /\ fetchRuns \in Seq(RunType)
  BY RunTyped DEF TypeInv
<1> QED
  BY <1>1 DEF Rewritten, OrderInv

LEMMA StepFails ==
  ASSUME OrderedInv, NotAllowed \/ Refused
  PROVE  OrderedInv'
<1>1. /\ TypeInv /\ OrderInv /\ WorkerInv /\ worker.pc \in Processing
      /\ fail_remaining
      /\ UNCHANGED <<day, clock, latest, allowed, ohlcv, archives, mishaps>>
      /\ worker' = [StageDone EXCEPT !.item = "", !.attempts = 0, !.got = {}]
  BY DEF OrderedInv, NotAllowed, Refused, fail_remaining, At, sourceVars, Processing, PCs
<1>2. PICK n \in RunType : /\ Rewritten(n) /\ n.status = "failed"
                           /\ \A m \in Members : n.items[m].status \notin Open
  BY <1>1, FailForm
<1>3. worker.stage \in Stages
  BY <1>1 DEF WorkerInv, Stages
<1>4. /\ worker' \in WorkerType /\ worker'.pc = "loop" /\ worker'.item = ""
      /\ worker'.attempts = 0
  <2>1. worker' = [pc |-> "loop", run |-> 0, item |-> "", attempts |-> 0, got |-> {}, stage |-> "",
                   completed |-> worker.completed \cup {worker.stage}]
    BY <1>1, WorkerFields DEF StageDone
  <2>2. worker.completed \cup {worker.stage} \in SUBSET Stages
    BY <1>1, <1>3, WorkerFields
  <2> QED
    BY <2>1, <2>2 DEF WorkerType, PCs
<1>5. OrderInv'
  BY <1>1, <1>2, OrderKept
<1>6. \A k \in DOMAIN fetchRuns' : fetchRuns'[k].status \in Terminal
  BY <1>1, <1>2, AllEnded DEF Terminal
<1>7. TypeInv'
  BY <1>1, <1>2, <1>4, StoreTyped DEF TypeInv, Rewritten
<1>8. WorkerInv'
  BY <1>4, <1>6, LoopInv
<1> QED
  BY <1>5, <1>7, <1>8 DEF OrderedInv

\* The worker goes on with the item it has, and leaves the runs as they are.
LEMMA GoesOn ==
  ASSUME OrderedInv, NEW pc \in PCs, NEW got \in SUBSET Int, worker.pc \in Processing,
         UNCHANGED fetchRuns, worker' = [worker EXCEPT !.pc = pc, !.got = got]
  PROVE  /\ worker' \in WorkerType /\ OrderInv' /\ Run' = Run /\ Cur' = Cur
         /\ worker'.pc = pc /\ worker'.run = worker.run /\ worker'.item = worker.item
         /\ worker'.attempts = worker.attempts /\ worker'.got = got /\ worker'.stage = worker.stage
<1>1. worker' = [pc |-> pc, run |-> worker.run, item |-> worker.item, attempts |-> worker.attempts,
                 got |-> got, stage |-> worker.stage, completed |-> worker.completed]
  BY WorkerFields DEF OrderedInv
<1>2. worker' \in WorkerType
  BY <1>1, WorkerFields DEF OrderedInv, WorkerType
<1>3. OrderInv'
  BY DEF OrderedInv, OrderInv
<1> QED
  BY <1>1, <1>2, <1>3 DEF Run, Cur

LEMMA StepMoves ==
  ASSUME OrderedInv, queued_items \/ upsert_candles \/ record_fetch_outcome \/ RetryItem
  PROVE  OrderedInv'
<1>1. /\ TypeInv /\ OrderInv /\ WorkerInv
      /\ UNCHANGED <<day, clock, latest, allowed, fetchRuns, mishaps>>
  BY DEF OrderedInv, queued_items, upsert_candles, record_fetch_outcome, RetryItem, sourceVars,
         storeVars
<1>2. worker.got \in SUBSET Int /\ [worker EXCEPT !.got = worker.got] = worker
  BY <1>1, WorkerFields
<1>3. CASE queued_items
  <2>1. /\ worker.pc = "prepared" /\ worker' = [worker EXCEPT !.pc = "next", !.got = worker.got]
        /\ UNCHANGED <<ohlcv, archives>>
    BY <1>1, <1>3, WorkerFields DEF queued_items, At, Goto, storeVars
  <2>2. /\ worker' \in WorkerType /\ OrderInv' /\ Run' = Run /\ Cur' = Cur
        /\ worker'.pc = "next" /\ worker'.run = worker.run /\ worker'.item = worker.item
        /\ worker'.attempts = worker.attempts /\ worker'.stage = worker.stage
    BY <1>1, <1>2, <2>1, GoesOn DEF PCs, Processing
  <2>3. TypeInv'
    BY <1>1, <2>1, <2>2, StoreTyped DEF TypeInv
  <2>4. worker.item = "" /\ worker.attempts = 0
    BY <1>1, <2>1 DEF WorkerInv, InHand
  <2>5. \A m \in Members : Run.items[m].status # "fetching"
    BY <1>1, <2>1 DEF WorkerInv, InHand, Processing, PCs
  <2>6. worker.run = Len(fetchRuns) /\ Len(fetchRuns) > 0 /\ worker.stage \in Fetches
    BY <1>1, <2>1 DEF WorkerInv, Processing, PCs
  <2>7. worker'.attempts = 0 /\ worker'.attempts <= MaxRetries /\ worker'.item = ""
    <3>1. 0 <= MaxRetries
      BY Constants
    <3> QED
      BY <2>2, <2>4, <3>1
  <2>8. WorkerInv'
    BY <1>1, <2>2, <2>5, <2>6, <2>7 DEF WorkerInv, InHand
  <2> QED
    BY <2>2, <2>3, <2>8 DEF OrderedInv
<1>4. CASE upsert_candles
  <2>1. /\ worker.pc = "asked" /\ worker' = [worker EXCEPT !.pc = "answered", !.got = Answer]
        /\ UNCHANGED archives /\ ohlcv' = [ohlcv EXCEPT ![worker.item] = @ \cup Answer]
    BY <1>4 DEF upsert_candles, At
  <2>2. worker.item \in Instruments /\ Cur.status = "fetching"
    BY <1>1, <2>1 DEF WorkerInv, InHand
  <2>3. Answer \in SUBSET Sessions /\ Answer \in SUBSET Int
    BY Days DEF Answer, Served
  <2>4. ohlcv' \in [Instruments -> SUBSET Sessions]
    BY <1>1, <2>1, <2>2, <2>3 DEF TypeInv
  <2>5. /\ worker' \in WorkerType /\ OrderInv' /\ Run' = Run /\ Cur' = Cur
        /\ worker'.pc = "answered" /\ worker'.run = worker.run /\ worker'.item = worker.item
        /\ worker'.attempts = worker.attempts /\ worker'.stage = worker.stage
    BY <1>1, <2>1, <2>3, GoesOn DEF PCs, Processing
  <2>6. TypeInv'
    BY <1>1, <2>1, <2>4, <2>5 DEF TypeInv
  <2>7. WorkerInv'
    BY <1>1, <2>1, <2>5 DEF WorkerInv, InHand, Processing, PCs
  <2> QED
    BY <2>5, <2>6, <2>7 DEF OrderedInv
<1>5. CASE record_fetch_outcome
  <2>1. /\ worker.pc = "answered" /\ worker' = [worker EXCEPT !.pc = "recorded", !.got = worker.got]
        /\ UNCHANGED ohlcv
    BY <1>1, <1>5, WorkerFields DEF record_fetch_outcome, At, Goto
  <2>2. worker.item \in Instruments
    BY <1>1, <2>1 DEF WorkerInv, InHand
  <2>3. archives' \in [Instruments -> [complete : BOOLEAN, retry : Nat]]
    <3> DEFINE known == archives[worker.item].complete
               later == Now + RetryDelay
               row == IF worker.got # {}
                      THEN [complete |-> known \/ Cur.kind # "incremental_update",
                            retry |-> IF returned_candles_are_trailing_stale THEN later ELSE 0]
                      ELSE IF ohlcv[worker.item] # {} /\ Cur.kind # "older_history_backfill"
                      THEN [complete |-> known, retry |-> later]
                      ELSE [complete |-> TRUE, retry |-> 0]
    <3>1. archives' = [archives EXCEPT ![worker.item] = row]
      BY <1>5 DEF record_fetch_outcome
    <3>2. known \in BOOLEAN
      BY <1>1, <2>2 DEF TypeInv
    <3>3. later \in Nat
      BY <1>1, NowTyped, Constants
    <3> HIDE DEF known, later
    <3>4. (known \/ Cur.kind # "incremental_update") \in BOOLEAN
      OBVIOUS
    <3>5. row \in [complete : BOOLEAN, retry : Nat]
      BY <3>2, <3>3, <3>4
    <3> HIDE DEF row
    <3> QED
      BY <1>1, <3>1, <3>5 DEF TypeInv
  <2>4. /\ worker' \in WorkerType /\ OrderInv' /\ Run' = Run /\ Cur' = Cur
        /\ worker'.pc = "recorded" /\ worker'.run = worker.run /\ worker'.item = worker.item
        /\ worker'.attempts = worker.attempts /\ worker'.stage = worker.stage
    BY <1>1, <1>2, <2>1, GoesOn DEF PCs, Processing
  <2>5. TypeInv'
    BY <1>1, <2>1, <2>3, <2>4 DEF TypeInv
  <2>6. WorkerInv'
    BY <1>1, <2>1, <2>4 DEF WorkerInv, InHand, Processing, PCs
  <2> QED
    BY <2>4, <2>5, <2>6 DEF OrderedInv
<1>6. CASE RetryItem
  <2>1. /\ worker.pc = "asked" /\ worker' = [worker EXCEPT !.pc = "next", !.got = worker.got]
        /\ UNCHANGED <<ohlcv, archives>> /\ worker.attempts <= MaxRetries
    BY <1>1, <1>6, WorkerFields DEF RetryItem, At, Goto, storeVars
  <2>2. /\ worker' \in WorkerType /\ OrderInv' /\ Run' = Run /\ Cur' = Cur
        /\ worker'.pc = "next" /\ worker'.run = worker.run /\ worker'.item = worker.item
        /\ worker'.attempts = worker.attempts /\ worker'.stage = worker.stage
    BY <1>1, <1>2, <2>1, GoesOn DEF PCs, Processing
  <2>3. TypeInv'
    BY <1>1, <2>1, <2>2, StoreTyped DEF TypeInv
  <2>4. worker.item \in Members /\ worker.item # ""
    BY <1>1, <2>1, Names DEF WorkerInv, InHand
  <2>5. WorkerInv'
    BY <1>1, <2>1, <2>2, <2>4 DEF WorkerInv, InHand, Processing, PCs
  <2> QED
    BY <2>2, <2>3, <2>5 DEF OrderedInv
<1> QED
  BY <1>3, <1>4, <1>5, <1>6

\* The item asked for next is the one to be tried again, or else a queued one.
LEMMA NextItemForm ==
  ASSUME TypeInv, OrderInv, WorkerInv, worker.pc = "next", worker.item # "" \/ Queued # {}
  PROVE  /\ NextItem \in Instruments /\ Run.items[NextItem].status \in Open
         /\ worker.item # "" => NextItem = worker.item
<1> DEFINE i == NextItem
<1>1. Run = fetchRuns[worker.run] /\ worker.run \in DOMAIN fetchRuns
  BY RunTyped DEF Processing, PCs
<1>2. CASE worker.item # ""
  BY <1>2 DEF NextItem, WorkerInv, Cur, Open
<1>3. CASE worker.item = ""
  <2>1. i \in Queued
    BY <1>3 DEF NextItem
  <2>2. i \in Members /\ Run.items[i].status = "queued"
    BY <2>1 DEF Queued
  <2> HIDE DEF i
  <2>3. i \in Instruments /\ Run.items[i].status \in Open
    BY <1>1, <2>2 DEF OrderInv, Open
  <2> QED
    BY <1>3, <2>3 DEF i
<1> QED
  BY <1>2, <1>3

LEMMA StepMarkItemFetching ==
  ASSUME OrderedInv, mark_item_fetching
  PROVE  OrderedInv'
<1> DEFINE i == NextItem
           n == With(i, "fetching")
<1>1. /\ TypeInv /\ OrderInv /\ WorkerInv /\ worker.pc = "next" /\ worker.pc \in Processing
      /\ UNCHANGED <<day, clock, latest, allowed, ohlcv, archives, mishaps>>
      /\ SetItem(i, "fetching") /\ (worker.item # "" \/ Queued # {})
      /\ worker' = [worker EXCEPT !.pc = "asked", !.item = i, !.attempts = @ + 1]
  BY DEF OrderedInv, mark_item_fetching, At, sourceVars, Processing, PCs
<1>2. /\ Run = fetchRuns[worker.run] /\ worker.run \in DOMAIN fetchRuns /\ worker.run = Len(fetchRuns)
  BY <1>1, RunTyped
<1>3. /\ i \in Instruments /\ Run.items[i].status \in Open
      /\ worker.item # "" => i = worker.item
  BY <1>1, NextItemForm
<1> HIDE DEF i
<1>4. i \in Members /\ "" \notin Members
  BY <1>3, Names
<1>5. Run.status \notin Terminal /\ \A m \in Members : Run.items[m].status \in Open => m \in Instruments
  BY <1>1, <1>2, <1>3, <1>4 DEF OrderInv
<1>6. /\ Rewritten(n) /\ n.status = Run.status /\ n.items[i].status = "fetching"
      /\ \A m \in Members : m # i => n.items[m] = Run.items[m]
  <2>1. "fetching" \in ItemStatuses
    BY DEF ItemStatuses, Open
  <2> QED
    BY <1>1, <1>4, <2>1, SetItemForm
<1> HIDE DEF n
<1>7. OrderInv'
  BY <1>1, <1>3, <1>5, <1>6, OrderKept
<1>8. /\ worker' \in WorkerType /\ worker'.pc = "asked" /\ worker'.run = worker.run
      /\ worker'.item = i /\ worker'.attempts = worker.attempts + 1 /\ worker'.stage = worker.stage
  <2>1. worker' = [pc |-> "asked", run |-> worker.run, item |-> i, attempts |-> worker.attempts + 1,
                   got |-> worker.got, stage |-> worker.stage, completed |-> worker.completed]
    BY <1>1, WorkerFields
  <2>2. worker.attempts + 1 \in Nat
    <3>1. worker.attempts \in Nat
      BY <1>1, WorkerFields
    <3> QED
      BY <3>1
  <2> QED
    BY <1>1, <1>4, <2>1, <2>2, WorkerFields DEF WorkerType, PCs
<1>9. TypeInv'
  BY <1>1, <1>6, <1>8, StoreTyped DEF TypeInv, Rewritten
<1>10. Run' = n /\ Cur' = n.items[i]
  BY <1>6, <1>8, OnRun
<1>11. \A m \in Members : n.items[m].status = "fetching" => m = i
  <2>1. \A m \in Members : Run.items[m].status = "fetching" => m = worker.item
    BY <1>1 DEF WorkerInv, Processing
  <2> QED
    BY <1>3, <1>4, <1>6, <2>1
<1>12. worker'.attempts <= MaxRetries + 1
  <2>1. worker.attempts <= MaxRetries /\ worker.attempts \in Nat
    BY <1>1, WorkerFields DEF WorkerInv
  <2> QED
    BY <1>8, <2>1, Constants
<1>13. Len(fetchRuns') = Len(fetchRuns) /\ Len(fetchRuns) > 0 /\ worker.stage \in Fetches
  BY <1>1, <1>6 DEF Rewritten, WorkerInv
<1>14. WorkerInv'
  BY <1>2, <1>3, <1>6, <1>8, <1>10, <1>11, <1>12, <1>13 DEF WorkerInv, InHand, Processing
<1> QED
  BY <1>7, <1>9, <1>14 DEF OrderedInv

\* The item in hand is settled with x, or the source has refused it.
LEMMA StepItemDone ==
  ASSUME OrderedInv, worker.pc \in InHand, NEW x \in ItemStatuses \ Open, NEW pc \in {"settle", "refused"},
         SetItem(worker.item, x), worker' = [Settle EXCEPT !.pc = pc],
         UNCHANGED <<day, clock, latest, allowed, ohlcv, archives>>, mishaps' \in Nat
  PROVE  OrderedInv'
<1> DEFINE i == worker.item
           n == With(i, x)
<1>1. TypeInv /\ OrderInv /\ WorkerInv /\ worker.pc \in Processing
  BY DEF OrderedInv, InHand, Processing, PCs
<1>2. /\ Run = fetchRuns[worker.run] /\ worker.run \in DOMAIN fetchRuns /\ worker.run = Len(fetchRuns)
  BY <1>1, RunTyped
<1>3. i \in Instruments /\ Run.items[i].status = "fetching" /\ i \in Members
  BY <1>1, Names DEF WorkerInv, Cur
<1>4. Run.status \notin Terminal /\ \A m \in Members : Run.items[m].status \in Open => m \in Instruments
  BY <1>1, <1>2, <1>3 DEF OrderInv, Open
<1>5. /\ Rewritten(n) /\ n.status = Run.status /\ n.items[i].status = x
      /\ \A m \in Members : m # i => n.items[m] = Run.items[m]
  BY <1>1, <1>3, SetItemForm
<1>6. \A m \in Members : Run.items[m].status = "fetching" => m = i
  BY <1>1 DEF WorkerInv, Processing, InHand
<1> HIDE DEF n, i
<1>7. OrderInv'
  BY <1>1, <1>4, <1>5, OrderKept
<1>8. /\ worker' \in WorkerType /\ worker'.pc = pc /\ worker'.run = worker.run
      /\ worker'.attempts = 0 /\ worker'.stage = worker.stage
  <2>1. worker' = [pc |-> pc, run |-> worker.run, item |-> worker.item, attempts |-> 0,
                   got |-> {}, stage |-> worker.stage, completed |-> worker.completed]
    BY <1>1, WorkerFields DEF Settle
  <2>2. pc \in PCs
    BY DEF PCs
  <2>3. 0 \in Nat /\ {} \in SUBSET Int
    OBVIOUS
  <2>4. /\ worker.run \in Nat /\ worker.item \in Members \cup {""}
        /\ worker.stage \in Stages \cup {""} /\ worker.completed \in SUBSET Stages
    BY <1>1, WorkerFields
  <2>5. worker' \in WorkerType
    <3>1. [pc |-> pc, run |-> worker.run, item |-> worker.item, attempts |-> 0, got |-> {},
           stage |-> worker.stage, completed |-> worker.completed] \in WorkerType
      BY <2>2, <2>3, <2>4, WorkerMade
    <3> QED
      BY <2>1, <3>1
  <2> QED
    BY <2>1, <2>5
<1>9. TypeInv'
  BY <1>1, <1>5, <1>8, StoreTyped DEF Rewritten
<1>10. Run' = n
  BY <1>5, <1>8, OnRun
<1>11. \A m \in Members : n.items[m].status # "fetching"
  BY <1>5, <1>6 DEF Open
<1>12. Len(fetchRuns') = Len(fetchRuns) /\ Len(fetchRuns) > 0 /\ worker.stage \in Fetches
  BY <1>1, <1>5 DEF Rewritten, WorkerInv
<1>13. WorkerInv'
  BY <1>2, <1>8, <1>10, <1>11, <1>12 DEF WorkerInv, InHand, Processing
<1> QED
  BY <1>7, <1>9, <1>13 DEF OrderedInv

LEMMA StepSettles ==
  ASSUME OrderedInv, mark_item \/ mark_item_failed \/ WriteFails
  PROVE  OrderedInv'
<1>1. TypeInv /\ mishaps \in Nat /\ [Settle EXCEPT !.pc = "settle"] = Settle
  BY WorkerFields DEF OrderedInv, TypeInv, Settle
<1>2. {"done", "skipped_no_new_data", "failed"} \subseteq ItemStatuses \ Open
  BY DEF ItemStatuses, Open, Succeeded
<1>3. CASE mark_item
  <2> DEFINE x == IF worker.got = {} \/ returned_candles_are_trailing_stale
                  THEN "skipped_no_new_data" ELSE "done"
  <2>1. /\ worker.pc \in InHand /\ SetItem(worker.item, x) /\ worker' = [Settle EXCEPT !.pc = "settle"]
        /\ UNCHANGED <<day, clock, latest, allowed, ohlcv, archives>> /\ mishaps' \in Nat
    BY <1>1, <1>3 DEF mark_item, At, InHand, sourceVars
  <2>2. x \in ItemStatuses \ Open
    BY <1>2
  <2> HIDE DEF x
  <2> QED
    BY <2>1, <2>2, StepItemDone
<1>4. CASE mark_item_failed
  <2>1. /\ worker.pc \in InHand /\ SetItem(worker.item, "failed")
        /\ UNCHANGED <<day, clock, latest, allowed, ohlcv, archives>> /\ mishaps' \in Nat
    BY <1>1, <1>4 DEF mark_item_failed, At, InHand, sourceVars
  <2>2. \/ worker' = [Settle EXCEPT !.pc = "settle"]
        \/ worker' = [Settle EXCEPT !.pc = "refused"]
    BY <1>1, <1>4 DEF mark_item_failed
  <2> QED
    BY <1>2, <2>1, <2>2, StepItemDone
<1>5. CASE WriteFails
  <2>1. /\ worker.pc \in InHand /\ SetItem(worker.item, "failed")
        /\ UNCHANGED <<day, clock, latest, allowed, ohlcv, archives>>
        /\ worker' = [Settle EXCEPT !.pc = "settle"] /\ mishaps' = mishaps + 1
    BY <1>1, <1>5 DEF WriteFails, InHand, sourceVars
  <2>2. mishaps' \in Nat
    BY <1>1, <2>1
  <2> QED
    BY <1>2, <2>1, <2>2, StepItemDone
<1> QED
  BY <1>3, <1>4, <1>5

\* How many items of a run have one of the statuses.
LEMMA CountForm ==
  ASSUME NEW r, NEW X
  PROVE  /\ Count(r, X) \in Nat
         /\ Count(r, X) = 0 <=> \A m \in Members : r.items[m].status \notin X
<1> DEFINE D == {m \in Members : r.items[m].status \in X}
<1>1. IsFiniteSet(D)
  BY Names, FS_Subset
<1>2. Cardinality(D) \in Nat /\ (Cardinality(D) = 0 <=> D = {})
  BY <1>1, FS_CardinalityType, FS_EmptySet
<1> QED
  BY <1>2 DEF Count

\* The run is ended when nothing of it is open, and is left alone otherwise.
LEMMA FinishForm ==
  ASSUME OrderedInv, worker.pc \in Processing, finish_run_if_complete
  PROVE  \E n \in RunType :
           /\ Rewritten(n) /\ n.items = Run.items
           /\ (\A m \in Members : Run.items[m].status \notin Open) => n.status \in Terminal
           /\ n.status = Run.status \/ \A m \in Members : Run.items[m].status \notin Open
<1>1. TypeInv /\ OrderInv /\ WorkerInv
  BY DEF OrderedInv
<1>2. /\ Run = fetchRuns[worker.run] /\ Run \in RunType /\ worker.run \in DOMAIN fetchRuns
  BY <1>1, RunTyped
<1>3. CASE Count(Run, Open) > 0
  <2>1. UNCHANGED fetchRuns
    BY <1>3 DEF finish_run_if_complete
  <2>2. Rewritten(Run)
    BY <1>1, <2>1, Unwritten
  <2>3. ~ \A m \in Members : Run.items[m].status \notin Open
    <3>1. Count(Run, Open) # 0
      BY <1>3
    <3> QED
      BY <3>1, CountForm
  <2> QED
    BY <1>2, <2>2, <2>3
<1>4. CASE ~(Count(Run, Open) > 0)
  <2> DEFINE st == IF Count(Run, Succeeded) = 0 /\ Count(Run, {"failed"}) > 0 THEN "failed"
                   ELSE IF Count(Run, {"failed", "skipped_unmapped"}) > 0
                   THEN "completed_with_errors" ELSE "completed"
             ended == [day |-> day, clock |-> clock]
             n == [Run EXCEPT !.ended = ended, !.status = st]
  <2>1. st \in Terminal
    BY DEF Terminal
  <2>2. fetchRuns' = [fetchRuns EXCEPT ![worker.run] = n]
    BY <1>2, <1>4 DEF finish_run_if_complete
  <2>3. \A m \in Members : Run.items[m].status \notin Open
    <3>1. Count(Run, Open) = 0
      BY <1>4, CountForm
    <3> QED
      BY <3>1, CountForm
  <2>4. ended \in [day : Int, clock : Int]
    <3>1. day \in Int /\ clock \in Int
      BY <1>1, Constants DEF TypeInv
    <3> QED
      BY <3>1
  <2> HIDE DEF st, ended
  <2>5. n \in RunType /\ n.items = Run.items /\ n.window = Run.window /\ n.status = st
    BY <1>2, <2>1, <2>4 DEF RunType, RunStatuses
  <2> HIDE DEF n
  <2>6. Rewritten(n)
    BY <1>1, <2>2, <2>5, RewriteForm
  <2> QED
    BY <2>1, <2>3, <2>5, <2>6
<1> QED
  BY <1>3, <1>4

LEMMA StepFinishes ==
  ASSUME OrderedInv, finish_run_if_complete
  PROVE  OrderedInv'
<1>1. /\ TypeInv /\ OrderInv /\ WorkerInv /\ worker.pc \in Processing
      /\ UNCHANGED <<day, clock, latest, allowed, ohlcv, archives, mishaps>>
  BY DEF OrderedInv, finish_run_if_complete, At, sourceVars, Processing, PCs
<1>2. PICK n \in RunType : 
           /\ Rewritten(n) /\ n.items = Run.items
           /\ (\A m \in Members : Run.items[m].status \notin Open) => n.status \in Terminal
           /\ n.status = Run.status \/ \A m \in Members : Run.items[m].status \notin Open
  BY <1>1, FinishForm
<1>3. worker.run = Len(fetchRuns) /\ worker.run \in DOMAIN fetchRuns /\ Run = fetchRuns[worker.run]
  BY <1>1, RunTyped
<1>4. OrderInv'
  <2>1. \A m \in Members : Run.items[m].status \in Open => m \in Instruments /\ Run.status \notin Terminal
    BY <1>1, <1>3 DEF OrderInv
  <2>2. \A m \in Members : n.items[m].status \in Open => m \in Instruments /\ n.status \notin Terminal
    BY <1>2, <2>1
  <2> QED
    BY <1>1, <1>2, <2>2, OrderKept
<1>5. CASE worker.pc = "settle"
  <2>1. worker' = [worker EXCEPT !.pc = "next", !.item = ""]
    BY <1>5 DEF finish_run_if_complete, At
  <2>2. worker' = [pc |-> "next", run |-> worker.run, item |-> "", attempts |-> worker.attempts,
                   got |-> worker.got, stage |-> worker.stage, completed |-> worker.completed]
    BY <1>1, <2>1, WorkerFields
  <2>3. worker' \in WorkerType
    BY <1>1, <2>2, WorkerFields, WorkerMade DEF PCs
  <2>4. TypeInv'
    BY <1>1, <1>2, <2>3, StoreTyped DEF Rewritten, TypeInv
  <2>5. Run' = n
    BY <1>2, <2>2, OnRun
  <2>6. \A m \in Members : n.items[m].status # "fetching"
    BY <1>1, <1>2, <1>5 DEF WorkerInv, Processing, PCs, InHand
  <2>7. worker.attempts = 0 /\ 0 <= MaxRetries
    <3>1. worker.attempts = 0
      BY <1>1, <1>5 DEF WorkerInv, InHand
    <3> QED
      BY <3>1, Constants
  <2>8. Len(fetchRuns') = Len(fetchRuns) /\ Len(fetchRuns) > 0 /\ worker.stage \in Fetches
    BY <1>1, <1>2 DEF Rewritten, WorkerInv
  <2>9. WorkerInv'
    BY <1>3, <2>2, <2>5, <2>6, <2>7, <2>8 DEF WorkerInv, InHand, Processing
  <2> QED
    BY <1>4, <2>4, <2>9 DEF OrderedInv
<1>6. CASE worker.pc # "settle"
  <2>1. worker.pc = "next" /\ worker.item = "" /\ Queued = {} /\ worker' = StageDone
    BY <1>6 DEF finish_run_if_complete, At
  <2>2. worker' = [pc |-> "loop", run |-> 0, item |-> "", attempts |-> worker.attempts,
                   got |-> worker.got, stage |-> "", completed |-> worker.completed \cup {worker.stage}]
    BY <1>1, <2>1, WorkerFields DEF StageDone
  <2>3. worker.stage \in Stages /\ worker.attempts = 0
    BY <1>1, <2>1 DEF WorkerInv, Stages
  <2>4. worker.completed \cup {worker.stage} \in SUBSET Stages
    BY <1>1, <2>3, WorkerFields
  <2>5. worker' \in WorkerType
    <3>1. 0 \in Nat /\ "loop" \in PCs
      BY DEF PCs
    <3> QED
      BY <1>1, <2>2, <2>4, <3>1, WorkerFields, WorkerMade
  <2>6. TypeInv'
    BY <1>1, <1>2, <2>5, StoreTyped DEF Rewritten, TypeInv
  <2>7. \A m \in Members : Run.items[m].status \notin Open
    <3>1. \A m \in Members : Run.items[m].status # "queued"
      BY <2>1 DEF Queued
    <3>2. \A m \in Members : Run.items[m].status = "fetching" => m = ""
      BY <1>1, <2>1 DEF WorkerInv, Processing, PCs
    <3> QED
      BY <3>1, <3>2, Names DEF Open
  <2>8. \A k \in DOMAIN fetchRuns' : fetchRuns'[k].status \in Terminal
    BY <1>1, <1>2, <2>7, AllEnded
  <2>9. WorkerInv'
    BY <2>2, <2>3, <2>8, LoopInv
  <2> QED
    BY <1>4, <2>6, <2>9 DEF OrderedInv
<1> QED
  BY <1>5, <1>6

-----------------------------------------------------------------------------
(* The loop between two stages                                               *)

LEMMA StoredDays ==
  ASSUME TypeInv, ServedInv, NEW i \in Instruments
  PROVE  /\ ohlcv[i] \in SUBSET Sessions /\ ohlcv[i] \in SUBSET Nat /\ latest \in Int
         /\ \A d \in ohlcv[i] : Listing[i] <= d /\ d <= latest
         /\ ohlcv[i] # {} => /\ Min(ohlcv[i]) \in ohlcv[i] /\ Max(ohlcv[i]) \in ohlcv[i]
                             /\ Min(ohlcv[i]) \in Nat /\ Max(ohlcv[i]) \in Nat
                             /\ \A d \in ohlcv[i] : Min(ohlcv[i]) <= d /\ d <= Max(ohlcv[i])
<1>1. ohlcv[i] \in SUBSET Sessions /\ latest \in Int
  BY Days DEF TypeInv
<1>2. \A d \in ohlcv[i] : Listing[i] <= d /\ d <= latest
  BY DEF ServedInv, Served
<1>3. ohlcv[i] \in SUBSET Nat
  BY <1>1, Days
<1>4. CASE ohlcv[i] # {}
  <2>1. /\ Min(ohlcv[i]) \in ohlcv[i] /\ \A d \in ohlcv[i] : Min(ohlcv[i]) <= d
        /\ Max(ohlcv[i]) \in ohlcv[i] /\ \A d \in ohlcv[i] : d <= Max(ohlcv[i])
    BY <1>1, <1>2, <1>4, Extremes
  <2> QED
    BY <1>1, <1>2, <1>3, <2>1
<1> QED
  BY <1>1, <1>2, <1>3, <1>4

\* What an item of a new run may be.
Planned(i, p) ==
  \/ p.status \notin Open
  \/ ohlcv[i] = {} /\ p = Item("queued", "initial_capture", Window.from, Window.to)
  \/ ohlcv[i] # {} /\ p = Item("queued", "older_history_backfill", Window.from, Min(ohlcv[i]) - 1)
  \/ /\ ohlcv[i] # {} /\ Max(ohlcv[i]) < Window.to
     /\ p = Item("queued", "incremental_update", incremental_request_from_date(i), Window.to)

LEMMA ItemMade ==
  ASSUME NEW s \in ItemStatuses, NEW k \in Kinds, NEW from \in Int, NEW to \in Int
  PROVE  Item(s, k, from, to) \in ItemType
BY DEF Item, ItemType

LEMMA SkippedMade ==
  ASSUME NEW s \in ItemStatuses
  PROVE  Skipped(s) \in ItemType /\ Skipped(s).status = s
<1>1. "none" \in Kinds /\ 0 \in Int
  BY DEF Kinds
<1>2. Item(s, "none", 0, 0) \in ItemType
  BY <1>1, ItemMade
<1> QED
  BY <1>2 DEF Skipped, Item

LEMMA IncrementalFrom ==
  ASSUME TypeInv, ServedInv, NEW i \in Instruments, ohlcv[i] # {}
  PROVE  /\ incremental_request_from_date(i) \in Int
         /\ incremental_request_from_date(i) <= Max(ohlcv[i])
              \/ incremental_request_from_date(i) = Window.from
<1> DEFINE m == Max(ohlcv[i])
<1>1. m \in Nat
  BY StoredDays
<1>2. Back(Overlap, m) \in Int /\ Back(Overlap, m) <= m
  BY <1>1, BackInPast
<1>3. Window.from \in Int
  BY WindowForm DEF WindowType
<1>4. Max({Window.from, Back(Overlap, m)}) \in {Window.from, Back(Overlap, m)}
  BY <1>2, <1>3, MaxOfTwo
<1>5. incremental_request_from_date(i) = Max({Window.from, Back(Overlap, m)})
  BY DEF incremental_request_from_date
<1> HIDE DEF m
<1> QED
  BY <1>1, <1>2, <1>3, <1>4, <1>5 DEF m

LEMMA PlanForm ==
  ASSUME TypeInv, ServedInv, NEW i \in Instruments
  PROVE  /\ fetch_plan_for_instrument(i) \in ItemType
         /\ Planned(i, fetch_plan_for_instrument(i))
<1>1. /\ Window.from \in Int /\ Window.to \in Int
      /\ {"queued", "skipped_retry_later", "skipped_up_to_date"} \subseteq ItemStatuses
      /\ {"initial_capture", "older_history_backfill", "incremental_update"} \subseteq Kinds
      /\ {"skipped_retry_later", "skipped_up_to_date"} \cap Open = {}
  BY WindowForm DEF WindowType, ItemStatuses, Open, Succeeded, Kinds
<1>2. CASE archives[i].retry > Now
  <2>1. fetch_plan_for_instrument(i) = Skipped("skipped_retry_later")
    <3>1. ~(archives[i].retry <= Now)
      <4>1. archives[i].retry \in Nat /\ Now \in Nat
        BY NowTyped DEF TypeInv
      <4> QED
        BY <1>2, <4>1
    <3> QED
      BY <1>2, <3>1 DEF fetch_plan_for_instrument
  <2> QED
    BY <1>1, <2>1, SkippedMade DEF Planned
<1>3. CASE /\ ~(archives[i].retry > Now)
           /\ archives[i].retry <= Now /\ ohlcv[i] # {}
           /\ Min(ohlcv[i]) > Window.from /\ ~archives[i].complete
  <2>1. fetch_plan_for_instrument(i) =
          Item("queued", "older_history_backfill", Window.from, Min(ohlcv[i]) - 1)
    BY <1>3 DEF fetch_plan_for_instrument
  <2>2. Min(ohlcv[i]) - 1 \in Int
    <3>1. Min(ohlcv[i]) \in Nat
      BY <1>3, StoredDays
    <3> QED
      BY <3>1
  <2> QED
    BY <1>1, <1>3, <2>1, <2>2, ItemMade DEF Planned
<1>4. CASE /\ ~(archives[i].retry > Now)
           /\ ~(/\ archives[i].retry <= Now /\ ohlcv[i] # {}
                /\ Min(ohlcv[i]) > Window.from /\ ~archives[i].complete)
  <2>1. fetch_plan_for_instrument(i) =
         IF ohlcv[i] = {} THEN Item("queued", "initial_capture", Window.from, Window.to)
         ELSE IF Max(ohlcv[i]) >= Window.to THEN Skipped("skipped_up_to_date")
         ELSE Item("queued", "incremental_update", incremental_request_from_date(i), Window.to)
    BY <1>4 DEF fetch_plan_for_instrument
  <2>2. CASE ohlcv[i] = {}
    BY <1>1, <2>1, <2>2, ItemMade DEF Planned
  <2>3. CASE ohlcv[i] # {} /\ Max(ohlcv[i]) >= Window.to
    BY <1>1, <2>1, <2>3, SkippedMade DEF Planned
  <2>4. CASE ohlcv[i] # {} /\ ~(Max(ohlcv[i]) >= Window.to)
    <3>1. Max(ohlcv[i]) < Window.to
      <4>1. Max(ohlcv[i]) \in Nat
        BY <2>4, StoredDays
      <4> QED
        BY <1>1, <2>4, <4>1
    <3>2. incremental_request_from_date(i) \in Int
      BY <2>4, IncrementalFrom
    <3> QED
      BY <1>1, <2>1, <2>4, <3>1, <3>2, ItemMade DEF Planned
  <2> QED
    BY <2>2, <2>3, <2>4
<1> QED
  BY <1>2, <1>3, <1>4

LEMMA CreateForm ==
  ASSUME TypeInv, ServedInv
  PROVE  /\ create_run \in RunType /\ create_run.status = "queued" /\ create_run.window = Window
         /\ \A m \in Members : create_run.items[m].status \in Open => m \in Instruments
         /\ \A i \in Instruments : create_run.items[i] = fetch_plan_for_instrument(i)
<1> DEFINE items == [m \in Members |-> IF m \in Unmapped THEN Skipped("skipped_unmapped")
                                       ELSE fetch_plan_for_instrument(m)]
<1>1. \A m \in Members : m \in Unmapped => items[m] \in ItemType /\ items[m].status \notin Open
  <2>1. "skipped_unmapped" \in ItemStatuses /\ "skipped_unmapped" \notin Open
    BY DEF ItemStatuses, Open
  <2>2. Skipped("skipped_unmapped") \in ItemType /\ Skipped("skipped_unmapped").status \notin Open
    BY <2>1, SkippedMade
  <2> QED
    BY <2>2
<1>2. \A m \in Members : m \notin Unmapped => /\ m \in Instruments /\ items[m] \in ItemType
                                              /\ items[m] = fetch_plan_for_instrument(m)
  BY PlanForm DEF Instruments
<1>3. items \in [Members -> ItemType]
  BY <1>1, <1>2
<1>4. \A i \in Instruments : i \in Members /\ i \notin Unmapped
  BY DEF Instruments
<1>5. Window \in WindowType /\ Never \in [day : Int, clock : Int] /\ "queued" \in RunStatuses
  BY WindowForm DEF Never, RunStatuses
<1>6. create_run = [window |-> Window, status |-> "queued", ended |-> Never, items |-> items]
  BY DEF create_run
<1> HIDE DEF items
<1> QED
  BY <1>1, <1>2, <1>3, <1>4, <1>5, <1>6 DEF RunType

\* Only the last run can be active.
LEMMA ActiveForm ==
  ASSUME TypeInv, OrderInv
  PROVE  /\ Active \subseteq {Len(fetchRuns)}
         /\ Active # {} => Max(Active) = Len(fetchRuns) /\ Len(fetchRuns) > 0
         /\ Active = {} => \A n \in DOMAIN fetchRuns : fetchRuns[n].status \in Terminal
         /\ (\A n \in DOMAIN fetchRuns : fetchRuns[n].status \in Terminal) => Active = {}
<1>1. fetchRuns \in Seq(RunType) /\ Len(fetchRuns) \in Nat /\ DOMAIN fetchRuns = 1 .. Len(fetchRuns)
  BY DEF TypeInv
<1>2. \A n \in DOMAIN fetchRuns : fetchRuns[n].status \in RunStatuses
  <2>1. \A n \in DOMAIN fetchRuns : fetchRuns[n] \in RunType
    BY <1>1
  <2> QED
    BY <2>1 DEF RunType
<1>3. Terminal \cap {"queued", "running"} = {} /\ RunStatuses = Terminal \cup {"queued", "running"}
  BY DEF Terminal, RunStatuses
<1>4. Active = {n \in DOMAIN fetchRuns : fetchRuns[n].status \notin Terminal}
  BY <1>2, <1>3 DEF Active
<1>5. \A n \in Active : n = Len(fetchRuns) /\ Len(fetchRuns) > 0
  BY <1>1, <1>4 DEF OrderInv
<1>6. ASSUME Active # {} PROVE Max(Active) = Len(fetchRuns) /\ Len(fetchRuns) > 0
  <2> DEFINE l == Len(fetchRuns)
  <2>1. Active = {l, l} /\ l > 0
    BY <1>5, <1>6
  <2> HIDE DEF l
  <2>2. l \in Int
    BY <1>1 DEF l
  <2>3. Max({l, l}) = l
    BY <2>2, MaxOfTwo
  <2> QED
    BY <2>1, <2>3 DEF l
<1> QED
  BY <1>4, <1>5, <1>6

LEMMA StepLoops ==
  ASSUME OrderedInv, Starts \/ log_readiness_check
  PROVE  OrderedInv'
<1>1. /\ TypeInv /\ OrderInv /\ WorkerInv
      /\ UNCHANGED <<day, clock, latest, allowed, ohlcv, archives, fetchRuns, mishaps>>
  BY DEF OrderedInv, Starts, log_readiness_check, sourceVars, storeVars
<1>2. OrderInv'
  BY <1>1 DEF OrderInv
<1>3. CASE Starts
  <2> DEFINE done == initial_completed_schedule_stages
  <2>1. worker' = [pc |-> "loop", run |-> 0, item |-> "", attempts |-> 0, got |-> {},
                   stage |-> "", completed |-> done]
    BY <1>3 DEF Starts, Down
  <2>2. done \in SUBSET Stages
    BY DEF initial_completed_schedule_stages, Stages
  <2>3. done # {} => fetchRuns # <<>> /\ fetchRuns[Len(fetchRuns)].status \in Terminal
    BY DEF initial_completed_schedule_stages
  <2> HIDE DEF done
  <2>4. done # {} => \A n \in DOMAIN fetchRuns : fetchRuns[n].status \in Terminal
    <3>1. fetchRuns \in Seq(RunType)
      BY <1>1 DEF TypeInv
    <3>2. \A n \in DOMAIN fetchRuns : n < Len(fetchRuns) \/ n = Len(fetchRuns)
      BY <3>1
    <3> QED
      BY <1>1, <2>3, <3>2 DEF OrderInv
  <2>5. worker' \in WorkerType
    <3>1. "loop" \in PCs /\ 0 \in Nat
      BY DEF PCs
    <3> QED
      BY <2>1, <2>2, <3>1, WorkerMade
  <2>6. TypeInv'
    BY <1>1, <2>5, StoreTyped DEF TypeInv
  <2>7. WorkerInv'
    BY <1>1, <2>1, <2>4, LoopInv
  <2> QED
    BY <1>2, <2>6, <2>7 DEF OrderedInv
<1>4. CASE log_readiness_check
  <2>1. /\ worker.pc = "loop" /\ due_schedule_stage("final_check")
        /\ worker' = [worker EXCEPT !.completed = @ \cup {"final_check"}]
    BY <1>4 DEF log_readiness_check, At
  <2>2. worker' = [pc |-> worker.pc, run |-> worker.run, item |-> worker.item,
                   attempts |-> worker.attempts, got |-> worker.got, stage |-> worker.stage,
                   completed |-> worker.completed \cup {"final_check"}]
    BY <1>1, <2>1, WorkerFields
  <2>3. worker.completed # {}
    <3>1. "primary" \in Stages /\ RunAt("primary") = Primary /\ RunAt("final_check") = FinalCheck
      BY DEF Stages, Fetches, RunAt
    <3>2. ~(FinalCheck <= Primary)
      BY Constants
    <3>3. ASSUME "primary" \notin worker.completed PROVE RunAt("final_check") <= RunAt("primary")
      BY <2>1, <3>1, <3>3 DEF due_schedule_stage
    <3> QED
      BY <3>1, <3>2, <3>3
  <2>4. worker.completed \cup {"final_check"} \in SUBSET Stages
    BY <1>1, WorkerFields DEF Stages
  <2>5. worker' \in WorkerType
    BY <1>1, <2>2, <2>4, WorkerFields, WorkerMade
  <2>6. TypeInv'
    BY <1>1, <2>5, StoreTyped DEF TypeInv
  <2>7. /\ worker.item = "" /\ worker.attempts = 0
        /\ \A n \in DOMAIN fetchRuns : fetchRuns[n].status \in Terminal
    BY <1>1, <2>1, <2>3 DEF WorkerInv, InHand
  <2>8. WorkerInv'
    BY <1>1, <2>1, <2>2, <2>7, LoopInv
  <2> QED
    BY <1>2, <2>6, <2>8 DEF OrderedInv
<1> QED
  BY <1>3, <1>4

LEMMA NotEmpty ==
  ASSUME NEW T, NEW q \in Seq(T), q # <<>>
  PROVE  Len(q) > 0
OBVIOUS

\* A worker that takes up the last run.
LEMMA TakesUp ==
  ASSUME OrderedInv, worker.pc = "loop", NEW s \in Fetches, Process(s, Len(fetchRuns')),
         fetchRuns' \in Seq(RunType), Len(fetchRuns') > 0, OrderInv',
         UNCHANGED <<day, clock, latest, allowed, ohlcv, archives, mishaps>>
  PROVE  OrderedInv'
<1>1. TypeInv /\ WorkerInv /\ worker.item = "" /\ worker.attempts = 0
  BY DEF OrderedInv, WorkerInv, InHand
<1>2. worker' = [pc |-> "created", run |-> Len(fetchRuns'), item |-> "", attempts |-> 0,
                 got |-> worker.got, stage |-> s, completed |-> worker.completed]
  BY <1>1, WorkerFields DEF Process
<1>3. worker' \in WorkerType
  <2>1. "created" \in PCs /\ 0 \in Nat /\ Len(fetchRuns') \in Nat /\ s \in Stages
    BY DEF PCs, Stages
  <2> QED
    BY <1>1, <1>2, <2>1, WorkerFields, WorkerMade
<1>4. TypeInv'
  BY <1>1, <1>3, StoreTyped DEF TypeInv
<1>5. WorkerInv'
  BY <1>2 DEF WorkerInv, InHand, Processing
<1> QED
  BY <1>4, <1>5 DEF OrderedInv

LEMMA StepStartsRun ==
  ASSUME OrderedInv, ServedInv, NEW s \in Fetches, start_or_resume_ohlcv_fetch(s)
  PROVE  OrderedInv'
<1>1. /\ TypeInv /\ OrderInv /\ WorkerInv /\ worker.pc = "loop"
      /\ UNCHANGED <<day, clock, latest, allowed, ohlcv, archives, mishaps>>
  BY DEF OrderedInv, start_or_resume_ohlcv_fetch, At, sourceVars
<1>2. fetchRuns \in Seq(RunType) /\ worker.item = "" /\ worker.attempts = 0
  BY <1>1 DEF TypeInv, WorkerInv, InHand
<1>3. CASE Active # {} /\ Process(s, Max(Active)) /\ UNCHANGED fetchRuns
  <2>1. Max(Active) = Len(fetchRuns) /\ Len(fetchRuns) > 0
    BY <1>1, <1>3, ActiveForm
  <2>2. OrderInv'
    BY <1>1, <1>3 DEF OrderInv
  <2> QED
    BY <1>1, <1>2, <1>3, <2>1, <2>2, TakesUp
<1>4. CASE Active = {} /\ worker' = Down /\ UNCHANGED fetchRuns
  <2>1. worker' \in WorkerType
    <3>1. "down" \in PCs /\ 0 \in Nat
      BY DEF PCs
    <3> QED
      BY <1>4, <3>1, WorkerMade DEF Down
  <2>2. TypeInv'
    BY <1>1, <1>4, <2>1, StoreTyped DEF TypeInv
  <2>3. WorkerInv'
    BY <1>4 DEF WorkerInv, Down, InHand, Processing
  <2> QED
    BY <1>1, <1>4, <2>2, <2>3 DEF OrderedInv, OrderInv
<1>5. CASE reusable_current_window_run /\ Process(s, Len(fetchRuns)) /\ UNCHANGED fetchRuns
  <2>1. Len(fetchRuns) > 0
    <3>1. fetchRuns # <<>>
      BY <1>5 DEF reusable_current_window_run
    <3> QED
      BY <1>2, <3>1, NotEmpty
  <2>2. OrderInv'
    BY <1>1, <1>5 DEF OrderInv
  <2> QED
    BY <1>1, <1>2, <1>5, <2>1, <2>2, TakesUp
<1>6. CASE Active = {} /\ worker' = [worker EXCEPT !.completed = @ \cup {s}] /\ UNCHANGED fetchRuns
  <2>1. worker' = [pc |-> "loop", run |-> worker.run, item |-> "", attempts |-> 0,
                   got |-> worker.got, stage |-> worker.stage, completed |-> worker.completed \cup {s}]
    BY <1>1, <1>2, <1>6, WorkerFields
  <2>2. worker' \in WorkerType
    <3>1. worker.completed \cup {s} \in SUBSET Stages /\ "loop" \in PCs /\ 0 \in Nat
      BY <1>1, WorkerFields DEF Stages, PCs
    <3> QED
      BY <1>1, <2>1, <3>1, WorkerFields, WorkerMade
  <2>3. TypeInv'
    BY <1>1, <1>6, <2>2, StoreTyped DEF TypeInv
  <2>4. \A n \in DOMAIN fetchRuns' : fetchRuns'[n].status \in Terminal
    BY <1>1, <1>6, ActiveForm
  <2>5. WorkerInv'
    BY <2>1, <2>4, LoopInv
  <2> QED
    BY <1>1, <1>6, <2>3, <2>5 DEF OrderedInv, OrderInv
<1>7. CASE /\ Active = {} /\ fetchRuns' = Append(fetchRuns, create_run)
           /\ Process(s, Len(fetchRuns) + 1)
  <2> DEFINE r == create_run
             l == Len(fetchRuns) + 1
  <2>1. r \in RunType /\ r.status = "queued"
        /\ \A m \in Members : r.items[m].status \in Open => m \in Instruments
    BY <1>1, CreateForm
  <2> HIDE DEF r
  <2>2. /\ fetchRuns' \in Seq(RunType) /\ Len(fetchRuns') = l /\ l > 0
        /\ DOMAIN fetchRuns' = (DOMAIN fetchRuns) \cup {l}
        /\ fetchRuns'[l] = r /\ \A n \in DOMAIN fetchRuns : fetchRuns'[n] = fetchRuns[n]
    <3>1. fetchRuns' = Append(fetchRuns, r) /\ fetchRuns \in Seq(RunType) /\ r \in RunType
      BY <1>2, <1>7, <2>1 DEF r
    <3>2. Len(fetchRuns) \in Nat /\ DOMAIN fetchRuns = 1 .. Len(fetchRuns) /\ l > 0
      BY <3>1
    <3>3. fetchRuns' \in Seq(RunType) /\ Len(fetchRuns') = l /\ fetchRuns'[l] = r
      BY <3>1
    <3>4. DOMAIN fetchRuns' = 1 .. l
      BY <3>3
    <3>5. (1 .. l) = (1 .. Len(fetchRuns)) \cup {l}
      BY <3>2
    <3>6. \A n \in DOMAIN fetchRuns : fetchRuns'[n] = fetchRuns[n]
      BY <3>1
    <3> QED
      BY <3>2, <3>3, <3>4, <3>5, <3>6
  <2> HIDE DEF l
  <2>3. \A n \in DOMAIN fetchRuns : fetchRuns[n].status \in Terminal
    BY <1>1, <1>7, ActiveForm
  <2>4. "queued" \notin Terminal
    BY DEF Terminal
  <2>5. OrderInv'
    <3> SUFFICES ASSUME NEW n \in DOMAIN fetchRuns'
                 PROVE  /\ n < Len(fetchRuns') => fetchRuns'[n].status \in Terminal
                        /\ \A m \in Members : fetchRuns'[n].items[m].status \in Open =>
                             m \in Instruments /\ fetchRuns'[n].status \notin Terminal
      BY DEF OrderInv
    <3>1. CASE n \in DOMAIN fetchRuns
      BY <1>1, <2>2, <2>3, <3>1 DEF OrderInv
    <3>2. CASE n \notin DOMAIN fetchRuns
      <4>1. n = Len(fetchRuns') /\ fetchRuns'[n] = r /\ ~(n < Len(fetchRuns'))
        BY <2>2, <3>2
      <4> QED
        BY <2>1, <2>4, <4>1
    <3> QED
      BY <3>1, <3>2
  <2> QED
    BY <1>1, <1>7, <2>2, <2>5, TakesUp DEF l
<1> QED
  BY <1>3, <1>4, <1>5, <1>6, <1>7 DEF start_or_resume_ohlcv_fetch

-----------------------------------------------------------------------------
(* The process dies; time passes; the source publishes; the token changes    *)

\* What the source publishes next is the first session after its latest.
LEMMA PublishForm ==
  ASSUME TypeInv, Publish
  PROVE  /\ latest' \in Sessions /\ latest' \in Int /\ latest \in Int /\ latest < latest'
         /\ \A s \in Sessions : s <= latest \/ latest' <= s
         /\ latest' <= expected_latest_candle_date
<1> DEFINE S == {s \in Sessions : s > latest}
           e == expected_latest_candle_date
<1>1. latest \in Sessions \cup {-1} /\ latest < e
  BY DEF TypeInv, Publish
<1>2. latest \in Int /\ latest >= -1 /\ S \in SUBSET Nat
  <2>1. S \in SUBSET Nat
    BY Days
  <2>2. \A s \in Sessions : s \in Int /\ s >= -1
    BY Days
  <2>3. latest \in Sessions \/ latest = -1
    BY <1>1
  <2> HIDE DEF S
  <2> QED
    BY <2>1, <2>2, <2>3
<1>3. e \in Sessions \cup {-1} /\ e \in Int
  BY WindowForm, Previous
<1>4. e \in S
  BY <1>1, <1>2, <1>3
<1>5. PICK m \in S : \A s \in S : m <= s
  BY <1>2, <1>4, LeastNatural
<1>6. latest' = Min(S)
  BY DEF Publish
<1>7. latest' \in S /\ \A s \in S : latest' <= s
  BY <1>5, <1>6 DEF Min
<1>8. \A s \in Sessions : s \in Int /\ (s > latest <=> s \in S)
  BY Days
<1>9. \A s \in Sessions : s <= latest \/ latest' <= s
  BY <1>2, <1>7, <1>8
<1>10. latest' \in Int /\ latest' > latest
  BY <1>7, <1>8
<1> QED
  BY <1>2, <1>4, <1>7, <1>9, <1>10

LEMMA StepDies ==
  ASSUME OrderedInv, Die
  PROVE  OrderedInv'
<1>1. /\ TypeInv /\ OrderInv /\ worker' = Down /\ mishaps' = mishaps + 1
      /\ UNCHANGED <<day, clock, latest, allowed, ohlcv, archives, fetchRuns>>
  BY DEF OrderedInv, Die, sourceVars, storeVars
<1>2. worker' \in WorkerType
  <2>1. "down" \in PCs /\ 0 \in Nat
    BY DEF PCs
  <2> QED
    BY <1>1, <2>1, WorkerMade DEF Down
<1>3. mishaps' \in Nat
  <2>1. mishaps \in Nat
    BY <1>1 DEF TypeInv
  <2> QED
    BY <1>1, <2>1
<1>4. TypeInv'
  BY <1>1, <1>2, <1>3, StoreTyped DEF TypeInv
<1>5. WorkerInv'
  BY <1>1 DEF WorkerInv, Down, InHand, Processing
<1> QED
  BY <1>1, <1>4, <1>5 DEF OrderedInv, OrderInv

LEMMA StepOutside ==
  ASSUME OrderedInv, Tick \/ Publish \/ TokenChanges
  PROVE  OrderedInv'
<1>1. TypeInv /\ OrderInv /\ WorkerInv /\ UNCHANGED <<ohlcv, archives, fetchRuns>>
  BY DEF OrderedInv, Tick, Publish, TokenChanges, storeVars
<1>2. OrderInv'
  BY <1>1 DEF OrderInv
<1>3. CASE Tick
  <2>1. UNCHANGED <<latest, allowed, mishaps>>
    BY <1>3 DEF Tick
  <2>2. CASE clock < Deadline /\ clock' = clock + 1 /\ UNCHANGED <<day, worker>>
    <3>1. clock' \in 0 .. Deadline
      <4>1. clock \in 0 .. Deadline
        BY <1>1 DEF TypeInv
      <4> QED
        BY <2>2, <4>1, Constants
    <3>2. TypeInv'
      BY <1>1, <2>1, <2>2, <3>1 DEF TypeInv
    <3>3. WorkerInv'
      BY <1>1, <2>2 DEF WorkerInv, Run, Cur
    <3> QED
      BY <1>2, <3>2, <3>3 DEF OrderedInv
  <2>3. CASE /\ worker.pc \in {"loop", "down"} /\ day < LastDay
             /\ clock' = 0 /\ day' = day + 1 /\ worker' = Forget(worker)
    <3>1. clock' \in 0 .. Deadline /\ day' \in FirstDay .. LastDay
      <4>1. day \in FirstDay .. LastDay
        BY <1>1 DEF TypeInv
      <4> QED
        BY <2>3, <4>1, Constants
    <3>2. worker' = [pc |-> worker.pc, run |-> worker.run, item |-> worker.item,
                     attempts |-> worker.attempts, got |-> worker.got, stage |-> worker.stage,
                     completed |-> IF worker.pc = "loop" THEN {} ELSE worker.completed]
      BY <1>1, <2>3, WorkerFields DEF Forget
    <3>3. worker' \in WorkerType
      <4>1. (IF worker.pc = "loop" THEN {} ELSE worker.completed) \in SUBSET Stages
        BY <1>1, WorkerFields
      <4> QED
        BY <1>1, <3>2, <4>1, WorkerFields, WorkerMade
    <3>4. TypeInv'
      BY <1>1, <2>1, <3>1, <3>3 DEF TypeInv
    <3>5. worker.item = "" /\ worker.attempts = 0
      BY <1>1, <2>3 DEF WorkerInv, InHand
    <3>6. WorkerInv'
      <4>1. worker'.pc \in {"loop", "down"} /\ worker'.item = "" /\ worker'.attempts = 0
            /\ (worker'.pc = "loop" => worker'.completed = {})
        <5>1. worker'.pc = worker.pc /\ worker'.item = worker.item /\ worker'.attempts = worker.attempts
          BY <3>2
        <5>2. worker.pc = "loop" => worker'.completed = {}
          BY <3>2
        <5> QED
          BY <2>3, <3>5, <5>1, <5>2
      <4> QED
        BY <4>1 DEF WorkerInv, InHand, Processing
    <3> QED
      BY <1>2, <3>4, <3>6 DEF OrderedInv
  <2> QED
    BY <1>3, <2>2, <2>3 DEF Tick, At
<1>4. CASE Publish
  <2>1. latest' \in Sessions \cup {-1}
    BY <1>1, <1>4, PublishForm
  <2>2. UNCHANGED <<day, clock, allowed, worker, mishaps>>
    BY <1>4 DEF Publish
  <2>3. TypeInv'
    BY <1>1, <2>1, <2>2 DEF TypeInv
  <2>4. WorkerInv'
    BY <1>1, <2>2 DEF WorkerInv, Run, Cur
  <2> QED
    BY <1>2, <2>3, <2>4 DEF OrderedInv
<1>5. CASE TokenChanges
  <2>1. UNCHANGED <<day, clock, latest, worker>> /\ allowed' = ~allowed
        /\ mishaps' \in {mishaps, mishaps + 1}
    BY <1>5 DEF TokenChanges
  <2>2. mishaps' \in Nat
    <3>1. mishaps \in Nat
      BY <1>1 DEF TypeInv
    <3> QED
      BY <2>1, <3>1
  <2>3. TypeInv'
    BY <1>1, <2>1, <2>2 DEF TypeInv
  <2>4. WorkerInv'
    BY <1>1, <2>1 DEF WorkerInv, Run, Cur
  <2> QED
    BY <1>2, <2>3, <2>4 DEF OrderedInv
<1> QED
  BY <1>3, <1>4, <1>5

LEMMA StepOrdered ==
  ASSUME OrderedInv, ServedInv, [Next]_matsyaFetchVars
  PROVE  OrderedInv'
<1>1. CASE UNCHANGED matsyaFetchVars
  BY <1>1 DEF matsyaFetchVars, OrderedInv, TypeInv, OrderInv, WorkerInv, Run, Cur
<1>2. CASE Next
  BY <1>2, StepLoops, StepPrepareRun, StepFails, StepMoves, StepMarkItemFetching, StepSettles,
     StepFinishes, StepStartsRun, StepDies, StepOutside DEF Next, WorkerStep
<1> QED
  BY <1>1, <1>2

\* Only the source and the storing of an answer touch what is stored or served.
LEMMA StoreKept ==
  ASSUME OrderedInv, [Next]_matsyaFetchVars
  PROVE  upsert_candles \/ Publish \/ UNCHANGED <<ohlcv, latest>>
BY DEF Next, WorkerStep, matsyaFetchVars, Starts, log_readiness_check, prepare_run, NotAllowed,
       queued_items, mark_item_fetching, record_fetch_outcome, mark_item, RetryItem, mark_item_failed,
       WriteFails, Refused, fail_remaining, finish_run_if_complete, start_or_resume_ohlcv_fetch,
       Die, Tick, TokenChanges, sourceVars, storeVars

LEMMA UpsertForm ==
  ASSUME OrderedInv, upsert_candles
  PROVE  /\ worker.pc = "asked" /\ worker.item \in Instruments
         /\ ohlcv'[worker.item] = ohlcv[worker.item] \cup Answer
         /\ \A i \in Instruments : i # worker.item => ohlcv'[i] = ohlcv[i]
         /\ UNCHANGED <<day, clock, latest, allowed, archives, fetchRuns, mishaps>>
         /\ Run' = Run /\ Cur' = Cur /\ worker'.pc = "answered" /\ worker'.item = worker.item
<1>1. worker.pc = "asked" /\ worker.item \in Instruments /\ ohlcv \in [Instruments -> SUBSET Sessions]
  BY DEF OrderedInv, WorkerInv, TypeInv, InHand, upsert_candles, At
<1>2. worker' = [worker EXCEPT !.pc = "answered", !.got = Answer]
      /\ UNCHANGED <<day, clock, latest, allowed, archives, fetchRuns, mishaps>>
  BY DEF upsert_candles, sourceVars
<1>3. worker'.pc = "answered" /\ worker'.item = worker.item /\ worker'.run = worker.run
  BY <1>2, WorkerFields DEF OrderedInv
<1> QED
  BY <1>1, <1>2, <1>3 DEF upsert_candles, Run, Cur

LEMMA StepServed ==
  ASSUME OrderedInv, ServedInv, [Next]_matsyaFetchVars
  PROVE  ServedInv'
<1>1. CASE upsert_candles
  <2>1. \A i \in Instruments : Served(i)' = Served(i)
    BY <1>1, UpsertForm DEF Served
  <2>2. Answer \subseteq Served(worker.item)
    BY DEF Answer
  <2> QED
    BY <1>1, <2>1, <2>2, UpsertForm DEF ServedInv
<1>2. CASE Publish
  <2>1. UNCHANGED ohlcv /\ TypeInv
    BY <1>2 DEF Publish, storeVars, OrderedInv
  <2>2. latest \in Int /\ latest' \in Int /\ latest < latest'
    BY <1>2, <2>1, PublishForm
  <2>3. \A d \in Sessions : d <= latest => d <= latest'
    BY <2>2, Days
  <2>4. \A i \in Instruments : Served(i) \subseteq Served(i)'
    BY <2>3 DEF Served
  <2> QED
    BY <2>1, <2>4 DEF ServedInv
<1>3. CASE UNCHANGED <<ohlcv, latest>>
  BY <1>3 DEF ServedInv, Served
<1> QED
  BY <1>1, <1>2, <1>3, StoreKept

LEMMA InitOrdered == Init => OrderedInv /\ ServedInv
<1> SUFFICES ASSUME Init PROVE OrderedInv /\ ServedInv
  OBVIOUS
<1>1. latest \in Sessions \cup {-1}
  <2>1. FirstDay \in Int
    BY Constants
  <2>2. previous_trading_day(day) \in Int
    BY <2>1, Previous DEF Init
  <2> QED
    BY <2>2, Previous DEF Init, expected_latest_candle_date
<1>2. day \in FirstDay .. LastDay /\ clock \in 0 .. Deadline /\ mishaps \in Nat /\ allowed \in BOOLEAN
  BY Constants DEF Init
<1>3. worker = Down /\ worker \in WorkerType
  <2>1. "down" \in PCs /\ 0 \in Nat
    BY DEF PCs
  <2> QED
    BY <2>1, WorkerMade DEF Init, Down
<1>4. fetchRuns = <<>> /\ fetchRuns \in Seq(RunType) /\ DOMAIN fetchRuns = {}
  BY DEF Init
<1>5. /\ ohlcv \in [Instruments -> SUBSET Sessions] /\ \A i \in Instruments : ohlcv[i] = {}
      /\ archives \in [Instruments -> [complete : BOOLEAN, retry : Nat]]
  <2>1. [complete |-> FALSE, retry |-> 0] \in [complete : BOOLEAN, retry : Nat]
    OBVIOUS
  <2> QED
    BY <2>1 DEF Init
<1>6. TypeInv
  BY <1>1, <1>2, <1>3, <1>4, <1>5 DEF TypeInv
<1>7. OrderInv
  BY <1>4 DEF OrderInv
<1>8. WorkerInv
  BY <1>3 DEF WorkerInv, Down, InHand, Processing
<1> QED
  BY <1>5, <1>6, <1>7, <1>8 DEF OrderedInv, ServedInv

LEMMA OrderedImplies ==
  ASSUME OrderedInv
  PROVE  RunsInOrder
<1>1. TypeInv /\ OrderInv /\ WorkerInv
  BY DEF OrderedInv
<1>2. \A n \in DOMAIN fetchRuns : /\ fetchRuns[n].status \in RunStatuses
                                  /\ \A m \in Members : fetchRuns[n].items[m].status \in ItemStatuses
  <2>1. \A n \in DOMAIN fetchRuns : fetchRuns[n] \in RunType
    BY <1>1 DEF TypeInv
  <2>2. \A r \in RunType : r.status \in RunStatuses /\ \A m \in Members : r.items[m].status \in ItemStatuses
    BY DEF RunType, ItemType
  <2> QED
    BY <2>1, <2>2
<1>3. worker.attempts \in 0 .. MaxRetries + 1
  <2>1. worker.attempts \in Nat /\ worker.pc \in PCs
    BY <1>1, WorkerFields
  <2>2. CASE worker.pc \in InHand
    <3>1. worker.attempts <= MaxRetries + 1
      BY <1>1, <2>2 DEF WorkerInv
    <3> QED
      BY <2>1, <3>1, Constants
  <2>3. CASE worker.pc = "next"
    <3>1. worker.attempts <= MaxRetries
      BY <1>1, <2>3 DEF WorkerInv
    <3> QED
      BY <2>1, <3>1, Constants
  <2>4. CASE worker.pc \notin InHand \cup {"next"}
    <3>1. worker.attempts = 0
      BY <1>1, <2>4 DEF WorkerInv
    <3> QED
      BY <3>1, Constants
  <2> QED
    BY <2>2, <2>3, <2>4
<1>4. TypeOK
  BY <1>1, <1>2, <1>3, WorkerFields DEF TypeOK, TypeInv, RunStatuses, ItemStatuses
<1>5. Cardinality(Active) <= 1
  <2>1. Active \subseteq {Len(fetchRuns)}
    BY <1>1, ActiveForm
  <2>2. IsFiniteSet({Len(fetchRuns)}) /\ Cardinality({Len(fetchRuns)}) = 1
    BY FS_Singleton
  <2> QED
    BY <2>1, <2>2, FS_Subset
<1>6. \A n \in DOMAIN fetchRuns : fetchRuns[n].status \in Terminal => Count(fetchRuns[n], Open) = 0
  BY <1>1, CountForm DEF OrderInv
<1>7. At("loop") /\ worker.completed # {} => Active = {}
  BY <1>1, ActiveForm DEF At, WorkerInv
<1> QED
  BY <1>4, <1>5, <1>6, <1>7 DEF RunsInOrder

LEMMA AlwaysOrdered == Spec => [](OrderedInv /\ ServedInv)
<1>1. Init => OrderedInv /\ ServedInv
  BY InitOrdered
<1>2. OrderedInv /\ ServedInv /\ [Next]_matsyaFetchVars => (OrderedInv /\ ServedInv)'
  BY StepOrdered, StepServed
<1> QED
  BY <1>1, <1>2, PTL DEF Spec

\* Whatever interrupts the worker, a run that has ended has nothing left open,
\* at most one run is in progress, and once a fetch stage counts as done, by
\* the worker itself or after a restart, none is (prepare_run, fail_remaining,
\* finish_run_if_complete and the worker's loop).
THEOREM Ordered == Spec => []RunsInOrder
<1>1. OrderedInv => RunsInOrder
  BY OrderedImplies
<1> QED
  BY <1>1, AlwaysOrdered, PTL

-----------------------------------------------------------------------------
(* What is asked for                                                         *)

\* No item is opened: what is open was open before, and asks for the same.
Quiet ==
  \A n \in DOMAIN fetchRuns' : \A m \in Members :
    fetchRuns'[n].items[m].status \in Open =>
      /\ n \in DOMAIN fetchRuns /\ fetchRuns[n].items[m].status \in Open
      /\ fetchRuns'[n].items[m].kind = fetchRuns[n].items[m].kind
      /\ fetchRuns'[n].items[m].from = fetchRuns[n].items[m].from
      /\ fetchRuns'[n].items[m].to = fetchRuns[n].items[m].to

LEMMA QuietRewrite ==
  ASSUME TypeInv, WorkerInv, worker.pc \in Processing, NEW n, Rewritten(n),
         \A m \in Members : n.items[m].status \in Open => Run.items[m].status \in Open
  PROVE  Quiet
<1>1. Run = fetchRuns[worker.run]
  BY RunTyped
<1> QED
  BY <1>1 DEF Quiet, Rewritten

LEMMA QuietItem ==
  ASSUME TypeInv, WorkerInv, worker.pc \in Processing, NEW i \in Members, NEW x \in ItemStatuses,
         SetItem(i, x), x \in Open => Run.items[i].status \in Open
  PROVE  Quiet
<1> DEFINE n == With(i, x)
<1>1. /\ Rewritten(n) /\ n.items[i].status = x
      /\ \A m \in Members : m # i => n.items[m] = Run.items[m]
  BY SetItemForm
<1> HIDE DEF n
<1>2. \A m \in Members : n.items[m].status \in Open => Run.items[m].status \in Open
  BY <1>1
<1> QED
  BY <1>1, <1>2, QuietRewrite

\* Only a new run opens items.
Creates == fetchRuns' = Append(fetchRuns, create_run) /\ UNCHANGED <<day, ohlcv, latest, archives>>

LEMMA StepQuiet ==
  ASSUME OrderedInv, [Next]_matsyaFetchVars
  PROVE  Quiet \/ Creates
<1>1. TypeInv /\ OrderInv /\ WorkerInv
  BY DEF OrderedInv
<1>2. "failed" \in ItemStatuses /\ "failed" \notin Open
  BY DEF ItemStatuses, Open
<1>3. CASE UNCHANGED fetchRuns
  BY <1>3 DEF Quiet
<1>4. CASE prepare_run
  BY <1>1, <1>4, PrepareForm, QuietRewrite DEF prepare_run, At, Processing, PCs
<1>5. CASE NotAllowed \/ Refused
  BY <1>1, <1>5, FailForm, QuietRewrite DEF NotAllowed, Refused, At, Processing, PCs
<1>6. CASE mark_item_fetching
  <2>1. /\ worker.pc = "next" /\ worker.pc \in Processing /\ (worker.item # "" \/ Queued # {})
        /\ SetItem(NextItem, "fetching")
    BY <1>6 DEF mark_item_fetching, At, Processing, PCs
  <2>2. NextItem \in Members /\ Run.items[NextItem].status \in Open
    BY <1>1, <2>1, NextItemForm, Names
  <2>3. "fetching" \in ItemStatuses
    BY DEF ItemStatuses, Open
  <2> QED
    BY <1>1, <2>1, <2>2, <2>3, QuietItem
<1>7. CASE mark_item \/ mark_item_failed \/ WriteFails
  <2> DEFINE x == IF mark_item THEN IF worker.got = {} \/ returned_candles_are_trailing_stale
                                    THEN "skipped_no_new_data" ELSE "done"
                  ELSE "failed"
  <2>1. worker.pc \in InHand /\ worker.pc \in Processing
    BY <1>7 DEF mark_item, mark_item_failed, WriteFails, At, InHand, Processing, PCs
  <2>2. SetItem(worker.item, x)
    BY <1>7 DEF mark_item, mark_item_failed, WriteFails
  <2>3. worker.item \in Members
    BY <1>1, <2>1, Names DEF WorkerInv
  <2>4. x \in ItemStatuses /\ x \notin Open
    BY <1>2 DEF ItemStatuses, Open, Succeeded
  <2> HIDE DEF x
  <2> QED
    BY <1>1, <2>1, <2>2, <2>3, <2>4, QuietItem
<1>8. CASE finish_run_if_complete
  <2>1. worker.pc \in Processing
    BY <1>8 DEF finish_run_if_complete, At, Processing, PCs
  <2>2. PICK n \in RunType : Rewritten(n) /\ n.items = Run.items
    BY <1>8, <2>1, FinishForm
  <2> QED
    BY <1>1, <2>1, <2>2, QuietRewrite
<1>9. CASE \E s \in Fetches : start_or_resume_ohlcv_fetch(s)
  BY <1>3, <1>9 DEF start_or_resume_ohlcv_fetch, Creates, sourceVars
<1>10. CASE \/ Starts \/ log_readiness_check \/ queued_items \/ upsert_candles \/ record_fetch_outcome
            \/ RetryItem \/ Die \/ Tick \/ Publish \/ TokenChanges
  BY <1>3, <1>10 DEF Starts, log_readiness_check, queued_items, upsert_candles, record_fetch_outcome,
     RetryItem, Die, Tick, Publish, TokenChanges, storeVars
<1>11. CASE UNCHANGED matsyaFetchVars
  BY <1>3, <1>11 DEF matsyaFetchVars
<1> QED
  BY <1>4, <1>5, <1>6, <1>7, <1>8, <1>9, <1>10, <1>11 DEF Next, WorkerStep

\* Neither an outage nor a run left open has lasted longer than the window.
NoLongOutage == \A i \in Instruments : ohlcv[i] # {} => Window.from <= Max(ohlcv[i]) + 1

LEMMA PlanJoins ==
  ASSUME TypeInv, ServedInv, NoLongOutage, NEW i \in Instruments,
         fetch_plan_for_instrument(i).status \in Open
  PROVE  Joins(fetch_plan_for_instrument(i), ohlcv[i], Window.from)
<1> DEFINE p == fetch_plan_for_instrument(i)
           S == ohlcv[i]
           f == Window.from
           t == Window.to
<1>1. f \in Int /\ t \in Int
  BY WindowForm DEF WindowType
<1>2. S # {} => /\ Min(S) \in S /\ Max(S) \in S /\ Min(S) \in Nat /\ Max(S) \in Nat
                /\ f <= Max(S) + 1
  BY StoredDays DEF NoLongOutage
<1>3. Planned(i, p)
  BY PlanForm
<1>4. CASE S = {} /\ p = Item("queued", "initial_capture", f, t)
  <2>1. p.kind = "initial_capture" /\ p.from = f
    BY <1>4 DEF Item
  <2> HIDE DEF p, S, f, t
  <2>2. f <= f
    BY <1>1
  <2> QED
    BY <1>4, <2>1, <2>2 DEF Joins, p, S, f
<1>5. CASE S # {} /\ p = Item("queued", "older_history_backfill", f, Min(S) - 1)
  <2>1. p.kind = "older_history_backfill" /\ p.from = f /\ p.to = Min(S) - 1
    BY <1>5 DEF Item
  <2> HIDE DEF p, S, f, t
  <2>2. f <= f /\ f <= Max(S) + 1 /\ Min(S) <= (Min(S) - 1) + 1
    BY <1>1, <1>2, <1>5
  <2>3. Joins(p, S, f)
    BY <1>2, <1>5, <2>1, <2>2 DEF Joins
  <2> QED
    BY <2>3 DEF p, S, f
<1>6. CASE /\ S # {} /\ Max(S) < t
           /\ p = Item("queued", "incremental_update", incremental_request_from_date(i), t)
  <2>1. p.kind = "incremental_update" /\ p.from = incremental_request_from_date(i) /\ p.to = t
    BY <1>6 DEF Item
  <2>2. p.from \in Int /\ (p.from <= Max(S) \/ p.from = f)
    BY <1>6, <2>1, IncrementalFrom
  <2> HIDE DEF p, S, f, t
  <2>3. p.from <= Max(S) + 1
    BY <1>1, <1>2, <1>6, <2>2
  <2>4. Max(S) <= p.to + 1
    BY <1>1, <1>2, <1>6, <2>1
  <2>5. Joins(p, S, f)
    BY <1>2, <1>6, <2>1, <2>3, <2>4 DEF Joins
  <2> QED
    BY <2>5 DEF p, S, f
<1> QED
  BY <1>3, <1>4, <1>5, <1>6 DEF Planned

-----------------------------------------------------------------------------
(* What is stored                                                            *)

\* The window only moves forward.
LEMMA FloorGrows ==
  ASSUME OrderedInv, OrderedInv', [Next]_matsyaFetchVars
  PROVE  Window.from \in Int /\ Window'.from \in Int /\ Window.from <= Window'.from
<1>1. TypeInv /\ TypeInv'
  BY DEF OrderedInv
<1>2. day' \in {day, day + 1}
  BY DEF Next, WorkerStep, matsyaFetchVars, Starts, log_readiness_check, prepare_run, NotAllowed,
     queued_items, mark_item_fetching, upsert_candles, record_fetch_outcome, mark_item, RetryItem,
     mark_item_failed, WriteFails, Refused, fail_remaining, finish_run_if_complete,
     start_or_resume_ohlcv_fetch, Die, Tick, Publish, TokenChanges, sourceVars
<1>3. day \in Int /\ day' \in Int /\ day <= day'
  <2>1. day \in Int
    BY <1>1, WindowForm
  <2> QED
    BY <1>2, <2>1
<1>4. Window.from = FromOn(day)
  BY <1>1, WindowForm
<1>5. Window'.from = FromOn(day')
  BY DEF Window, FromOn, expected_latest_candle_date
<1> QED
  BY <1>3, <1>4, <1>5, FromGrows

LEMMA StepRequests ==
  ASSUME OrderedInv, ServedInv, RequestsInv, NoLongOutage, OrderedInv', [Next]_matsyaFetchVars
  PROVE  RequestsInv'
<1>1. TypeInv /\ OrderInv /\ WorkerInv /\ TypeInv'
  BY DEF OrderedInv
<1>2. CASE Creates
  <2> DEFINE r == create_run
  <2>1. r \in RunType /\ \A i \in Instruments : r.items[i] = fetch_plan_for_instrument(i)
    BY <1>1, CreateForm
  <2>2. \A i \in Instruments : r.items[i].status \in Open => Joins(r.items[i], ohlcv[i], Window.from)
    BY <1>1, <2>1, PlanJoins
  <2>3. fetchRuns' = Append(fetchRuns, r) /\ fetchRuns \in Seq(RunType)
    BY <1>1, <1>2 DEF Creates, TypeInv
  <2> HIDE DEF r
  <2>4. \A n \in DOMAIN fetchRuns' :
          (n \in DOMAIN fetchRuns /\ fetchRuns'[n] = fetchRuns[n]) \/ fetchRuns'[n] = r
    BY <2>1, <2>3
  <2>5. Window' = Window /\ ohlcv' = ohlcv
    BY <1>2 DEF Creates, Window, expected_latest_candle_date
  <2> QED
    BY <2>2, <2>4, <2>5 DEF RequestsInv
<1>3. CASE Quiet
  <2> SUFFICES ASSUME NEW n \in DOMAIN fetchRuns', NEW i \in Instruments,
                      fetchRuns'[n].items[i].status \in Open
               PROVE  Joins(fetchRuns'[n].items[i], ohlcv'[i], Window'.from)
    BY DEF RequestsInv
  <2> DEFINE p == fetchRuns[n].items[i]
             q == fetchRuns'[n].items[i]
             S == ohlcv[i]
  <2>1. /\ n \in DOMAIN fetchRuns /\ p.status \in Open
        /\ q.kind = p.kind /\ q.from = p.from /\ q.to = p.to
    BY <1>3, Names DEF Quiet
  <2>2. Joins(p, S, Window.from)
    BY <2>1 DEF RequestsInv
  <2>3. p.from \in Int /\ p.to \in Int
    <3>1. fetchRuns[n] \in RunType /\ i \in Members
      <4>1. fetchRuns \in Seq(RunType) /\ n \in DOMAIN fetchRuns
        BY <1>1, <2>1 DEF TypeInv
      <4>2. fetchRuns[n] \in RunType
        BY <4>1
      <4> QED
        BY <4>2, Names
    <3>2. fetchRuns[n].items[i] \in ItemType
      BY <3>1 DEF RunType
    <3> QED
      BY <3>2 DEF ItemType
  <2>4. Window.from \in Int /\ Window'.from \in Int /\ Window.from <= Window'.from
    BY FloorGrows
  <2>5. q.kind # "incremental_update" => q.from <= Window'.from
    <3> HIDE DEF p, q, S
    <3>1. p.kind # "incremental_update" => p.from <= Window.from
      BY <2>2 DEF Joins
    <3> QED
      BY <2>1, <2>3, <2>4, <3>1
  <2>6. CASE ohlcv'[i] = ohlcv[i]
    <3> HIDE DEF p, q, S
    <3>1. Joins(q, S, Window'.from)
      BY <2>1, <2>2, <2>5 DEF Joins
    <3> QED
      BY <2>6, <3>1 DEF q, S
  <2>7. CASE ohlcv'[i] # ohlcv[i]
    <3>1. upsert_candles
      BY <2>7, StoreKept DEF Publish, storeVars
    <3>2. i = worker.item /\ ohlcv'[i] = S \cup Answer /\ fetchRuns' = fetchRuns /\ worker.pc = "asked"
      BY <2>7, <3>1, UpsertForm
    <3>3. Run = fetchRuns[worker.run] /\ worker.run = Len(fetchRuns)
      BY <1>1, <3>2, RunTyped DEF Processing, PCs
    <3>4. n = worker.run
      <4>1. fetchRuns \in Seq(RunType) /\ n \in 1 .. Len(fetchRuns) /\ Len(fetchRuns) \in Nat
        BY <1>1, <2>1 DEF TypeInv
      <4>2. fetchRuns[n].status \notin Terminal
        BY <1>1, <2>1, Names DEF OrderInv
      <4>3. ~(n < Len(fetchRuns))
        BY <1>1, <2>1, <4>2 DEF OrderInv
      <4> QED
        BY <3>3, <4>1, <4>3
    <3>5. p = Cur /\ q = p
      BY <3>2, <3>3, <3>4 DEF Cur
    <3>6. \A d \in Answer : d \in Int /\ p.from <= d /\ d <= p.to
      BY <2>3, <3>5 DEF Answer
    <3>7. S \in SUBSET Nat
      BY <1>1, StoredDays
    <3> HIDE DEF p, q, S
    <3>8. \A d \in Answer : p.from <= d + 1 /\ d <= p.to + 1
      BY <2>3, <3>6
    <3>9. S \cup Answer # {} => /\ \E e \in S \cup Answer : p.from <= e + 1
                                /\ \E e \in S \cup Answer : e <= p.to + 1
      <4>1. CASE S = {}
        BY <3>8, <4>1
      <4>2. CASE S # {}
        BY <2>2, <4>2 DEF Joins
      <4> QED
        BY <4>1, <4>2
    <3>10. S \cup Answer = {} => p.kind = "initial_capture"
      BY <2>2 DEF Joins
    <3>11. Joins(q, S \cup Answer, Window'.from)
      BY <2>5, <3>5, <3>9, <3>10 DEF Joins
    <3> QED
      BY <3>2, <3>11 DEF q
  <2> QED
    BY <2>6, <2>7
<1> QED
  BY <1>2, <1>3, StepQuiet

\* Storing an answer that joins the stretch leaves no gap in it.
LEMMA Joined ==
  ASSUME NEW S \in SUBSET Nat, NEW V \in SUBSET Nat, NEW f \in Int, NEW t \in Int,
         S # {} => (\E e \in S : f <= e + 1) /\ (\E e \in S : e <= t + 1),
         \A d \in V : (\E e \in S : e <= d) /\ (\E e \in S : d <= e) => d \in S
  PROVE  \A d \in V : /\ \E e \in S \cup (V \cap (f .. t)) : e <= d
                      /\ \E e \in S \cup (V \cap (f .. t)) : d <= e
                      => d \in S \cup (V \cap (f .. t))
<1> SUFFICES ASSUME NEW d \in V,
                    NEW x \in S \cup (V \cap (f .. t)), x <= d,
                    NEW y \in S \cup (V \cap (f .. t)), d <= y
             PROVE  d \in S \cup (V \cap (f .. t))
  OBVIOUS
<1>1. d \in Int /\ x \in Int /\ y \in Int
  OBVIOUS
<1>2. CASE d \in f .. t
  BY <1>2
<1>3. CASE d < f
  <2>1. x \in S
    BY <1>1, <1>3
  <2>2. PICK e \in S : f <= e + 1
    BY <2>1
  <2>3. d <= e
    BY <1>1, <1>3, <2>2
  <2> QED
    BY <2>1, <2>3
<1>4. CASE d > t
  <2>1. y \in S
    BY <1>1, <1>4
  <2>2. PICK e \in S : e <= t + 1
    BY <2>1
  <2>3. e <= d
    BY <1>1, <1>4, <2>2
  <2> QED
    BY <2>1, <2>3
<1> QED
  BY <1>1, <1>2, <1>3, <1>4

LEMMA GapForm ==
  ASSUME NEW i, NEW S
  PROVE  Archive!Gapless(i, S) <=>
           \A d \in Served(i) : (\E e \in S : e <= d) /\ (\E e \in S : d <= e) => d \in S
BY DEF Archive!Gapless, Archive!Available, Served

\* What the worker is asked to fetch joins what is stored.
LEMMA CurJoins ==
  ASSUME OrderedInv, RequestsInv, worker.pc \in InHand
  PROVE  /\ worker.item \in Instruments /\ Cur.from \in Int /\ Cur.to \in Int
         /\ Joins(Cur, ohlcv[worker.item], Window.from)
<1>1. /\ TypeInv /\ WorkerInv /\ worker.pc \in Processing /\ worker.item \in Instruments
      /\ Cur.status = "fetching" /\ worker.item \in Members
  BY Names DEF OrderedInv, WorkerInv, InHand, Processing, PCs
<1>2. Run = fetchRuns[worker.run] /\ worker.run \in DOMAIN fetchRuns
  BY <1>1, RunTyped
<1>3. Cur.from \in Int /\ Cur.to \in Int
  BY <1>1, RunTyped DEF Cur
<1>4. Cur = fetchRuns[worker.run].items[worker.item] /\ Cur.status \in Open
  BY <1>1, <1>2 DEF Cur, Open
<1>5. Joins(Cur, ohlcv[worker.item], Window.from)
  BY <1>1, <1>2, <1>4 DEF RequestsInv
<1> QED
  BY <1>1, <1>3, <1>5

LEMMA UpsertGapless ==
  ASSUME OrderedInv, ServedInv, RequestsInv, GapInv, upsert_candles
  PROVE  \A i \in Instruments : Archive!Gapless(i, ohlcv'[i])
<1> SUFFICES ASSUME NEW i \in Instruments PROVE Archive!Gapless(i, ohlcv'[i])
  OBVIOUS
<1>1. TypeInv
  BY DEF OrderedInv
<1>2. CASE i # worker.item
  BY <1>2, UpsertForm DEF GapInv
<1>3. CASE i = worker.item
  <2> DEFINE S == ohlcv[i]
             V == Served(i)
             f == Cur.from
             t == Cur.to
  <2>1. worker.pc \in InHand /\ ohlcv'[i] = S \cup (V \cap (f .. t))
    BY <1>3, UpsertForm DEF Answer, InHand
  <2>2. f \in Int /\ t \in Int /\ Joins(Cur, S, Window.from)
    BY <1>3, <2>1, CurJoins
  <2>3. S # {} => (\E e \in S : f <= e + 1) /\ (\E e \in S : e <= t + 1)
    BY <2>2 DEF Joins
  <2>4. S \in SUBSET Nat
    BY <1>1, StoredDays
  <2>5. V \in SUBSET Nat
    BY Days DEF Served
  <2>6. \A d \in V : (\E e \in S : e <= d) /\ (\E e \in S : d <= e) => d \in S
    BY GapForm DEF GapInv
  <2> HIDE DEF S, V, f, t
  <2>7. \A d \in V : /\ \E e \in S \cup (V \cap (f .. t)) : e <= d
                     /\ \E e \in S \cup (V \cap (f .. t)) : d <= e
                     => d \in S \cup (V \cap (f .. t))
    BY <2>2, <2>3, <2>4, <2>5, <2>6, Joined
  <2> QED
    BY <2>1, <2>7, GapForm DEF V
<1> QED
  BY <1>2, <1>3

LEMMA StepGap ==
  ASSUME OrderedInv, ServedInv, RequestsInv, GapInv, [Next]_matsyaFetchVars
  PROVE  GapInv'
<1>1. TypeInv
  BY DEF OrderedInv
<1>2. CASE upsert_candles
  <2>1. \A i \in Instruments : Served(i)' = Served(i)
    BY <1>2, UpsertForm DEF Served
  <2>2. \A i \in Instruments : Archive!Gapless(i, ohlcv'[i])
    BY <1>2, UpsertGapless
  <2> QED
    BY <2>1, <2>2 DEF GapInv, Archive!Gapless, Archive!Available, Served
<1>3. CASE Publish
  <2> SUFFICES ASSUME NEW i \in Instruments, NEW d \in Sessions, Listing[i] <= d, d <= latest',
                      NEW x \in ohlcv[i], x <= d, NEW y \in ohlcv[i], d <= y
               PROVE  d \in ohlcv[i]
    BY <1>3 DEF GapInv, Archive!Gapless, Archive!Available, Publish, storeVars
  <2>1. d \in Int /\ y \in Int /\ y <= latest /\ latest \in Int
    BY <1>1, StoredDays, Days
  <2>2. d <= latest
    BY <2>1
  <2>3. d \in Served(i)
    BY <2>2 DEF Served
  <2> QED
    BY <2>3, GapForm DEF GapInv
<1>4. CASE UNCHANGED <<ohlcv, latest>>
  BY <1>4 DEF GapInv, Archive!Gapless, Archive!Available
<1> QED
  BY <1>2, <1>3, <1>4, StoreKept

\* Once the answer is stored, the source has nothing older that was asked for.
LEMMA UpsertAnswers ==
  ASSUME OrderedInv, ServedInv, RequestsInv, upsert_candles, ohlcv'[worker.item] # {}
  PROVE  \A d \in Served(worker.item) : Cur.from <= d => \E e \in ohlcv'[worker.item] : e <= d
<1> DEFINE i == worker.item
           S == ohlcv[i]
           V == Served(i)
           f == Cur.from
           t == Cur.to
<1>1. /\ worker.pc \in InHand /\ i \in Instruments /\ ohlcv'[i] = S \cup (V \cap (f .. t))
  BY UpsertForm DEF Answer, InHand
<1>2. f \in Int /\ t \in Int /\ Joins(Cur, S, Window.from)
  BY <1>1, CurJoins
<1>3. S # {} => \E e \in S : e <= t + 1
  BY <1>2 DEF Joins
<1>4. S \in SUBSET Nat /\ V \in SUBSET Nat
  BY <1>1, StoredDays, Days DEF OrderedInv, Served
<1> HIDE DEF i, S, V, f, t
<1>5. \A d \in V : d < f \/ d \in f .. t \/ d > t
  BY <1>2, <1>4
<1>6. ASSUME NEW d \in V, f <= d, S \cup (V \cap (f .. t)) # {}
      PROVE  \E e \in S \cup (V \cap (f .. t)) : e <= d
  <2>1. d \in Int
    BY <1>4
  <2>2. CASE d \in f .. t
    BY <2>1, <2>2
  <2>3. CASE d > t /\ S # {}
    <3>1. PICK e \in S : e <= t + 1
      BY <1>3, <2>3
    <3>2. e \in Int
      BY <1>4
    <3>3. e <= d
      BY <1>2, <2>1, <2>3, <3>1, <3>2
    <3> QED
      BY <3>3
  <2>4. CASE d > t /\ S = {}
    <3>1. PICK e \in V \cap (f .. t) : TRUE
      BY <1>6, <2>4
    <3>2. e <= d
      BY <1>2, <2>1, <2>4, <3>1
    <3> QED
      BY <3>2
  <2> QED
    BY <1>2, <1>6, <2>1, <2>2, <2>3, <2>4
<1>7. ohlcv'[i] # {}
  BY DEF i
<1>8. \A d \in V : f <= d => \E e \in ohlcv'[i] : e <= d
  BY <1>1, <1>6, <1>7
<1> QED
  BY <1>8 DEF i, V, f

\* Only the storing of an answer leads to "answered".
LEMMA AnsweredForm ==
  ASSUME OrderedInv, [Next]_matsyaFetchVars, worker'.pc = "answered"
  PROVE  upsert_candles \/ UNCHANGED <<worker, fetchRuns, ohlcv>>
<1>1. TypeInv
  BY DEF OrderedInv
<1>2. /\ \A pc \in PCs : [worker EXCEPT !.pc = pc].pc = pc
      /\ Settle.pc = "settle" /\ [Settle EXCEPT !.pc = "refused"].pc = "refused"
      /\ StageDone.pc = "loop" /\ Down.pc = "down"
      /\ [StageDone EXCEPT !.item = "", !.attempts = 0, !.got = {}].pc = "loop"
  BY <1>1, WorkerFields DEF Settle, StageDone, Down
<1>3. CASE prepare_run \/ queued_items \/ record_fetch_outcome \/ RetryItem
  <2>1. worker' \in {[worker EXCEPT !.pc = pc] : pc \in {"prepared", "next", "recorded"}}
    BY <1>3 DEF prepare_run, queued_items, record_fetch_outcome, RetryItem, Goto
  <2> QED
    BY <1>2, <2>1 DEF PCs
<1>4. CASE NotAllowed \/ Refused
  BY <1>2, <1>4 DEF NotAllowed, Refused, fail_remaining
<1>5. CASE mark_item_fetching
  <2>1. worker' = [worker EXCEPT !.pc = "asked", !.item = NextItem, !.attempts = @ + 1]
    BY <1>5 DEF mark_item_fetching
  <2>2. worker'.pc = "asked"
    BY <1>1, <2>1, WorkerFields
  <2> QED
    BY <2>2
<1>6. CASE mark_item \/ mark_item_failed \/ WriteFails
  BY <1>2, <1>6 DEF mark_item, mark_item_failed, WriteFails
<1>7. CASE finish_run_if_complete
  <2>1. worker' = [worker EXCEPT !.pc = "next", !.item = ""] \/ worker' = StageDone
    BY <1>7 DEF finish_run_if_complete
  <2>2. [worker EXCEPT !.pc = "next", !.item = ""].pc = "next"
    BY <1>1, WorkerFields
  <2> QED
    BY <1>2, <2>1, <2>2
<1>8. CASE Starts
  <2>1. worker'.pc = "loop"
    BY <1>8 DEF Starts, Down
  <2> QED
    BY <2>1
<1>9. CASE log_readiness_check
  <2>1. worker.pc = "loop" /\ worker' = [worker EXCEPT !.completed = @ \cup {"final_check"}]
    BY <1>9 DEF log_readiness_check, At
  <2>2. worker'.pc = "loop"
    BY <1>1, <2>1, WorkerFields
  <2> QED
    BY <2>2
<1>10. CASE \E s \in Fetches : start_or_resume_ohlcv_fetch(s)
  <2>1. PICK s \in Fetches : start_or_resume_ohlcv_fetch(s)
    BY <1>10
  <2>2. \/ \E n \in {Max(Active), Len(fetchRuns), Len(fetchRuns) + 1} : Process(s, n)
        \/ worker' = Down
        \/ worker.pc = "loop" /\ worker' = [worker EXCEPT !.completed = @ \cup {s}]
    BY <2>1 DEF start_or_resume_ohlcv_fetch, At
  <2>3. \A n : [worker EXCEPT !.pc = "created", !.stage = s, !.run = n].pc = "created"
    BY <1>1, WorkerFields
  <2>4. worker.pc = "loop" => [worker EXCEPT !.completed = @ \cup {s}].pc = "loop"
    BY <1>1, WorkerFields
  <2> QED
    BY <1>2, <2>2, <2>3, <2>4 DEF Process
<1>11. CASE Die
  BY <1>2, <1>11 DEF Die
<1>12. CASE Tick
  <2>1. CASE UNCHANGED worker
    BY <1>12, <2>1 DEF Tick, storeVars
  <2>2. CASE worker.pc \in {"loop", "down"} /\ worker' = Forget(worker)
    <3>1. worker'.pc = worker.pc
      BY <1>1, <2>2, WorkerFields DEF Forget
    <3> QED
      BY <2>2, <3>1
  <2> QED
    BY <1>12, <2>1, <2>2 DEF Tick, At
<1>13. CASE Publish \/ TokenChanges \/ UNCHANGED matsyaFetchVars
  BY <1>13 DEF Publish, TokenChanges, storeVars, matsyaFetchVars
<1> QED
  BY <1>3, <1>4, <1>5, <1>6, <1>7, <1>8, <1>9, <1>10, <1>11, <1>12, <1>13 DEF Next, WorkerStep

LEMMA StepAnswer ==
  ASSUME OrderedInv, ServedInv, RequestsInv, AnswerInv, [Next]_matsyaFetchVars
  PROVE  AnswerInv'
<1>1. TypeInv
  BY DEF OrderedInv
<1>2. CASE upsert_candles
  <2>1. worker'.item = worker.item /\ Cur' = Cur /\ Served(worker.item)' = Served(worker.item)
    BY <1>2, UpsertForm DEF Served
  <2> QED
    BY <1>2, <2>1, UpsertAnswers DEF AnswerInv
<1>3. CASE Publish
  <2>1. UNCHANGED <<ohlcv, fetchRuns, worker>>
    BY <1>3 DEF Publish, storeVars
  <2>2. Cur' = Cur
    BY <2>1 DEF Cur, Run
  <2> SUFFICES ASSUME worker.pc = "answered", ohlcv[worker.item] # {}, Cur.from \in Int,
                      NEW d \in Sessions, Listing[worker.item] <= d, d <= latest', Cur.from <= d
               PROVE  \E e \in ohlcv[worker.item] : e <= d
    <3>1. worker.pc = "answered" => Cur.from \in Int
      BY <1>1, RunTyped DEF OrderedInv, WorkerInv, InHand, Processing, PCs, Cur, Instruments
    <3> QED
      BY <2>1, <2>2, <3>1 DEF AnswerInv, Served
  <2>3. worker.item \in Instruments
    BY DEF OrderedInv, WorkerInv, InHand
  <2>4. CASE d <= latest
    BY <2>4 DEF AnswerInv, Served
  <2>5. CASE ~(d <= latest)
    <3>1. PICK e \in ohlcv[worker.item] : TRUE
      OBVIOUS
    <3>2. e \in Int /\ e <= latest /\ latest \in Int /\ d \in Int
      BY <1>1, <2>3, <3>1, StoredDays, Days
    <3>3. e <= d
      BY <2>5, <3>2
    <3> QED
      BY <3>3
  <2> QED
    BY <2>4, <2>5
<1>4. CASE ~upsert_candles /\ ~Publish
  <2> SUFFICES ASSUME worker'.pc = "answered" PROVE AnswerInv'
    BY DEF AnswerInv
  <2>1. UNCHANGED <<worker, fetchRuns, ohlcv>>
    BY <1>4, AnsweredForm
  <2>2. latest' = latest
    BY <1>4, StoreKept
  <2> QED
    BY <2>1, <2>2 DEF AnswerInv, Cur, Run, Served
<1> QED
  BY <1>2, <1>3, <1>4

-----------------------------------------------------------------------------
(* The archive                                                               *)

StoreInv == OrderedInv /\ ServedInv /\ GapInv /\ RequestsInv /\ AnswerInv

LEMMA InitStore == Init => StoreInv
<1> SUFFICES ASSUME Init PROVE StoreInv
  OBVIOUS
<1>1. \A i \in Instruments : ohlcv[i] = {}
  BY DEF Init
<1>2. GapInv
  BY <1>1 DEF GapInv, Archive!Gapless
<1>3. RequestsInv
  BY DEF RequestsInv, Init
<1>4. AnswerInv
  BY DEF AnswerInv, Init, Down
<1> QED
  BY <1>2, <1>3, <1>4, InitOrdered DEF StoreInv

LEMMA StepStore ==
  ASSUME StoreInv, NoLongOutage, [Next]_matsyaFetchVars
  PROVE  StoreInv'
<1>1. OrderedInv'
  BY StepOrdered DEF StoreInv
<1>2. ServedInv'
  BY StepServed DEF StoreInv
<1> QED
  BY <1>1, <1>2, StepGap, StepRequests, StepAnswer DEF StoreInv

LEMMA AlwaysStore == Spec /\ []NoLongOutage => []StoreInv
<1>1. StoreInv /\ NoLongOutage /\ [Next]_matsyaFetchVars => StoreInv'
  BY StepStore
<1> QED
  BY <1>1, InitStore, PTL DEF Spec

LEMMA ServedDays == \A i \in Instruments : \A d \in Served(i) : d \in Int
<1> SUFFICES ASSUME NEW i \in Instruments PROVE Served(i) \subseteq Nat
  OBVIOUS
<1> QED
  BY Days DEF Served

LEMMA StoreWhole ==
  ASSUME StoreInv
  PROVE  FreshMeansWhole
<1> SUFFICES ASSUME NEW i \in Instruments, fresh(i), NEW d \in Served(i),
                    d <= Max(ohlcv[i]), d >= Min(ohlcv[i])
             PROVE  d \in ohlcv[i]
  BY DEF FreshMeansWhole
<1>1. /\ Min(ohlcv[i]) \in ohlcv[i] /\ Max(ohlcv[i]) \in ohlcv[i]
      /\ Min(ohlcv[i]) \in Nat /\ Max(ohlcv[i]) \in Nat
  BY StoredDays DEF StoreInv, OrderedInv, fresh
<1>2. d \in Int
  BY ServedDays
<1>3. Min(ohlcv[i]) <= d
  BY <1>1, <1>2
<1> QED
  BY <1>1, <1>3, GapForm DEF StoreInv, GapInv

Declared == {i \in Instruments : archives[i].complete}

LEMMA ArchiveCaptures ==
  ASSUME StoreInv, upsert_candles
  PROVE  \E i \in Instruments : Archive!Capture(i)
<1> DEFINE i == worker.item
           new == ohlcv[i] \cup (ohlcv'[i] \cap Archive!Available(i))
<1>1. /\ i \in Instruments /\ ohlcv'[i] = ohlcv[i] \cup Answer
      /\ UNCHANGED <<day, clock, latest, allowed, archives, fetchRuns, mishaps>>
  BY UpsertForm DEF StoreInv
<1>2. ohlcv' = [ohlcv EXCEPT ![i] = ohlcv[i] \cup Answer]
  BY DEF upsert_candles
<1>3. Answer \subseteq Archive!Available(i)
  BY DEF Answer, Served, Archive!Available
<1>4. new = ohlcv[i] \cup Answer
  <2>1. ohlcv[i] \subseteq Archive!Available(i)
    BY <1>1 DEF StoreInv, ServedInv, Served, Archive!Available
  <2> QED
    BY <1>1, <1>3, <2>1
<1>5. ohlcv' = [ohlcv EXCEPT ![i] = new]
  BY <1>2, <1>4
<1>6. Archive!Gapless(i, ohlcv'[i])
  BY <1>1, UpsertGapless DEF StoreInv
<1>7. Window'.from = Window.from /\ Declared' = Declared
  BY <1>1 DEF Window, expected_latest_candle_date, Declared
<1> QED
  BY <1>1, <1>5, <1>6, <1>7 DEF Archive!Capture, Declared

LEMMA ArchiveDeclares ==
  ASSUME StoreInv, record_fetch_outcome
  PROVE  (\E i \in Instruments : Archive!Declare(i)) \/ UNCHANGED Archive!archiveVars
<1> DEFINE i == worker.item
<1>1. /\ worker.pc = "answered" /\ worker.pc \in InHand /\ i \in Instruments
      /\ UNCHANGED <<day, clock, latest, allowed, ohlcv, fetchRuns, mishaps>>
  BY DEF record_fetch_outcome, At, InHand, StoreInv, OrderedInv, WorkerInv, sourceVars
<1>2. Window'.from = Window.from
  BY <1>1 DEF Window, expected_latest_candle_date
<1>3. archives \in [Instruments -> [complete : BOOLEAN, retry : Nat]]
  BY DEF StoreInv, OrderedInv, TypeInv
<1>4. /\ \A j \in Instruments : j # i => archives'[j] = archives[j]
      /\ archives[i].complete => archives'[i].complete
      /\ archives'[i].complete => \/ archives[i].complete
                                  \/ Cur.kind # "incremental_update"
                                  \/ ohlcv[i] = {}
  <2> DEFINE row == IF worker.got # {}
                    THEN [complete |-> archives[i].complete \/ Cur.kind # "incremental_update",
                          retry |-> IF returned_candles_are_trailing_stale THEN Now + RetryDelay ELSE 0]
                    ELSE IF ohlcv[i] # {} /\ Cur.kind # "older_history_backfill"
                    THEN [complete |-> archives[i].complete, retry |-> Now + RetryDelay]
                    ELSE [complete |-> TRUE, retry |-> 0]
  <2>1. archives' = [archives EXCEPT ![i] = row]
    BY DEF record_fetch_outcome
  <2>2. row.complete = IF worker.got # {} THEN archives[i].complete \/ Cur.kind # "incremental_update"
                       ELSE IF ohlcv[i] # {} /\ Cur.kind # "older_history_backfill"
                       THEN archives[i].complete ELSE TRUE
    OBVIOUS
  <2> HIDE DEF row
  <2>3. archives'[i] = row /\ \A j \in Instruments : j # i => archives'[j] = archives[j]
    BY <1>1, <1>3, <2>1
  <2> QED
    BY <2>2, <2>3
<1>5. CASE archives'[i].complete => archives[i].complete
  <2>1. \A j \in Instruments : archives'[j].complete <=> archives[j].complete
    BY <1>4, <1>5
  <2>2. Declared' = Declared
    BY <2>1 DEF Declared
  <2> QED
    BY <1>1, <1>2, <2>2 DEF Archive!archiveVars, Declared
<1>6. CASE archives'[i].complete /\ ~archives[i].complete
  <2>1. Archive!NothingOlder(i)
    <3>1. CASE ohlcv[i] = {}
      BY <3>1 DEF Archive!NothingOlder
    <3>2. CASE ohlcv[i] # {}
      <4>1. Cur.kind # "incremental_update"
        BY <1>4, <1>6, <3>2
      <4>2. Cur.from \in Int /\ Cur.from <= Window.from
        BY <1>1, <4>1, CurJoins DEF StoreInv, Joins
      <4>3. \A d \in Served(i) : Cur.from <= d => \E e \in ohlcv[i] : e <= d
        BY <1>1, <3>2 DEF StoreInv, AnswerInv
      <4>4. Window.from \in Int
        BY WindowForm DEF StoreInv, OrderedInv, WindowType
      <4>5. \A d \in Served(i) : d \in Int
        BY <1>1, ServedDays
      <4>6. \A d \in Served(i) : Window.from <= d => Cur.from <= d
        BY <4>2, <4>4, <4>5
      <4>7. \A d \in Served(i) : Window.from <= d => \E e \in ohlcv[i] : e <= d
        BY <4>3, <4>6
      <4> QED
        BY <4>7 DEF Archive!NothingOlder, Archive!Available, Served
    <3> QED
      BY <3>1, <3>2
  <2>2. Declared' = Declared \cup {i}
    BY <1>1, <1>4, <1>6 DEF Declared
  <2>3. PICK j \in Instruments : j = i
    BY <1>1
  <2>4. Archive!NothingOlder(j)
    BY <2>1, <2>3
  <2>5. Archive!Declare(j)
    BY <1>1, <1>2, <2>2, <2>3, <2>4 DEF Archive!Declare, Declared
  <2> QED
    BY <2>5
<1> QED
  BY <1>5, <1>6

\* No other step touches the archive.
LEMMA ArchiveAdvances ==
  ASSUME StoreInv, StoreInv', [Next]_matsyaFetchVars, ~upsert_candles, ~record_fetch_outcome
  PROVE  Archive!Advance
<1>1. TypeInv /\ Window.from \in Int /\ Window'.from \in Int /\ Window.from <= Window'.from
  BY FloorGrows DEF StoreInv, OrderedInv
<1>2. UNCHANGED <<ohlcv, archives>>
  BY DEF Next, WorkerStep, matsyaFetchVars, Starts, log_readiness_check, prepare_run, NotAllowed,
     queued_items, mark_item_fetching, mark_item, RetryItem, mark_item_failed, WriteFails, Refused,
     fail_remaining, finish_run_if_complete, start_or_resume_ohlcv_fetch, Die, Tick, Publish,
     TokenChanges, sourceVars, storeVars
<1>3. latest \in Int /\ latest' \in Int /\ latest <= latest'
  <2>1. latest \in Int
    BY <1>1, Days DEF TypeInv
  <2>2. CASE Publish
    BY <1>1, <2>2, PublishForm
  <2>3. CASE ~Publish
    <3>1. latest' = latest
      BY <2>3, StoreKept DEF StoreInv
    <3> QED
      BY <2>1, <3>1
  <2> QED
    BY <2>2, <2>3
<1>4. latest' >= latest /\ Window'.from >= Window.from
  BY <1>1, <1>3
<1> QED
  BY <1>2, <1>4 DEF Archive!Advance

LEMMA StepArchive ==
  ASSUME StoreInv, StoreInv', [Next]_matsyaFetchVars
  PROVE  [Archive!Next]_(Archive!archiveVars)
BY ArchiveCaptures, ArchiveDeclares, ArchiveAdvances DEF Archive!Next

LEMMA InitArchive == Init => Archive!Init
<1> SUFFICES ASSUME Init PROVE Archive!Init
  OBVIOUS
<1>1. {i \in Instruments : archives[i].complete} = {}
  BY DEF Init
<1> QED
  BY <1>1 DEF Init, Archive!Init

\* As long as no outage is longer than the window: where the freshness check
\* says fresh, no session served between the first and the latest candle is
\* missing (fetch_plan_for_instrument, incremental_request_from_date).
THEOREM Fresh == Spec /\ []NoLongOutage => []FreshMeansWhole
<1>1. StoreInv => FreshMeansWhole
  BY StoreWhole
<1> QED
  BY <1>1, AlwaysStore, PTL

\* As long as no outage is longer than the window, the fetch implements the
\* archive: the candles of an instrument stay one gapless stretch, and it is
\* declared complete only when the source has nothing older in the window
\* (upsert_candles, record_fetch_outcome).
THEOREM ImplementsArchive == Spec /\ []NoLongOutage => KeepsArchive
<1>1. StoreInv /\ StoreInv' /\ [Next]_matsyaFetchVars => [Archive!Next]_(Archive!archiveVars)
  BY StepArchive
<1> QED
  BY <1>1, AlwaysStore, InitArchive, PTL DEF Spec, KeepsArchive, Archive!Spec

-----------------------------------------------------------------------------
(* Over a time shorter than the window no outage is longer than it           *)

\* What the source had served at the start.
FirstLatest == previous_trading_day(previous_trading_day(FirstDay))

\* Stored candles reach it, and what is asked for an empty archive does too.
ReachInv ==
  /\ latest >= FirstLatest
  /\ \A i \in Instruments : ohlcv[i] # {} => \E e \in ohlcv[i] : e >= FirstLatest
  /\ \A n \in DOMAIN fetchRuns : \A i \in Instruments :
       fetchRuns[n].items[i].status \in Open /\ ohlcv[i] = {} =>
         fetchRuns[n].items[i].to >= FirstLatest

LEMMA FirstServed ==
  /\ FirstLatest \in Sessions \cup {-1} /\ FirstLatest \in Int
  /\ \A d \in Int : FirstDay <= d => FirstLatest <= previous_trading_day(d)
<1> DEFINE p == previous_trading_day(FirstDay)
<1>1. FirstDay \in Int
  BY Constants
<1>2. p \in Int /\ (p # -1 => p < FirstDay) /\ p >= -1
  BY <1>1, Previous
<1>3. p <= FirstDay
  BY <1>1, <1>2, Constants
<1>4. FirstLatest \in Sessions \cup {-1} /\ FirstLatest \in Int /\ FirstLatest <= p
  BY <1>1, <1>2, <1>3, Previous, PreviousGrows DEF FirstLatest
<1>5. \A d \in Int : FirstDay <= d => p <= previous_trading_day(d) /\ previous_trading_day(d) \in Int
  BY <1>1, Previous, PreviousGrows
<1> HIDE DEF p
<1> QED
  BY <1>2, <1>4, <1>5

LEMMA StepReach ==
  ASSUME OrderedInv, ServedInv, ReachInv, [Next]_matsyaFetchVars
  PROVE  ReachInv'
<1>1. TypeInv /\ OrderInv /\ WorkerInv
  BY DEF OrderedInv
<1>2. FirstLatest' = FirstLatest
  BY DEF FirstLatest, previous_trading_day
<1>3. latest' >= FirstLatest
  <2>1. latest >= FirstLatest /\ FirstLatest \in Int
    BY FirstServed DEF ReachInv
  <2>2. CASE Publish
    <3>1. latest \in Int /\ latest' \in Int /\ latest < latest'
      BY <1>1, <2>2, PublishForm
    <3> QED
      BY <2>1, <3>1
  <2>3. CASE ~Publish
    BY <2>1, <2>3, StoreKept, UpsertForm
  <2> QED
    BY <2>2, <2>3
<1>4. ASSUME NEW i \in Instruments, ohlcv'[i] # {}
      PROVE  \E e \in ohlcv'[i] : e >= FirstLatest
  <2>1. CASE ohlcv[i] # {} /\ ohlcv[i] \subseteq ohlcv'[i]
    BY <2>1 DEF ReachInv
  <2>2. CASE ~upsert_candles
    <3>1. ohlcv' = ohlcv
      BY <2>2, StoreKept DEF Publish, storeVars
    <3> QED
      BY <1>4, <3>1 DEF ReachInv
  <2>3. CASE upsert_candles /\ i # worker.item
    <3>1. ohlcv'[i] = ohlcv[i]
      BY <2>3, UpsertForm
    <3> QED
      BY <1>4, <3>1 DEF ReachInv
  <2>4. CASE upsert_candles /\ i = worker.item /\ ohlcv[i] = {}
    <3>1. worker.pc = "asked" /\ ohlcv'[i] = Answer
      BY <2>4, UpsertForm
    <3>2. /\ Run = fetchRuns[worker.run] /\ worker.run \in DOMAIN fetchRuns
          /\ Cur = fetchRuns[worker.run].items[i] /\ Cur.status \in Open
          /\ Cur.from \in Int /\ Cur.to \in Int
      BY <1>1, <2>4, <3>1, RunTyped, Names DEF Cur, WorkerInv, InHand, Processing, PCs, Open
    <3>3. Cur.to >= FirstLatest
      BY <2>4, <3>2 DEF ReachInv
    <3>4. PICK d \in Answer : TRUE
      BY <1>4, <3>1
    <3>5. d \in Served(i) /\ d \in Int /\ Cur.from <= d /\ d <= Cur.to /\ Listing[i] <= d
      BY <2>4, <3>4, ServedDays DEF Answer, Served
    <3>6. CASE d >= FirstLatest
      BY <3>1, <3>4, <3>6
    <3>7. CASE ~(d >= FirstLatest)
      <4> DEFINE f == FirstLatest
      <4>1. f \in Sessions \cup {-1} /\ f \in Int /\ Listing[i] \in Nat /\ d \in Nat
        <5>1. d \in Sessions
          BY <3>5 DEF Served
        <5> QED
          BY <5>1, FirstServed, Days
      <4>2. Cur.from <= f /\ f <= Cur.to /\ Listing[i] <= f /\ f # -1
        <5> HIDE DEF f
        <5> QED
          BY <3>2, <3>3, <3>5, <3>7, <4>1 DEF f
      <4>3. f <= latest
        <5>1. latest >= f /\ latest \in Int
          BY <1>1, StoredDays DEF ReachInv
        <5> HIDE DEF f
        <5> QED
          BY <4>1, <5>1
      <4>4. f \in Answer
        BY <2>4, <3>2, <4>1, <4>2, <4>3 DEF Answer, Served
      <4>5. f >= f
        BY <4>1
      <4> QED
        BY <3>1, <4>4, <4>5
    <3> QED
      BY <3>6, <3>7
  <2> QED
    BY <2>1, <2>2, <2>3, <2>4, UpsertForm
<1>5. ASSUME NEW n \in DOMAIN fetchRuns', NEW i \in Instruments,
             fetchRuns'[n].items[i].status \in Open, ohlcv'[i] = {}
      PROVE  fetchRuns'[n].items[i].to >= FirstLatest
  <2>1. ohlcv[i] = {}
    BY <1>5, StoreKept, UpsertForm DEF Publish, storeVars
  <2>2. CASE Quiet
    <3>1. /\ n \in DOMAIN fetchRuns /\ fetchRuns[n].items[i].status \in Open
          /\ fetchRuns'[n].items[i].to = fetchRuns[n].items[i].to
      BY <1>5, <2>2, Names DEF Quiet
    <3> QED
      BY <2>1, <3>1 DEF ReachInv
  <2>3. CASE Creates
    <3> DEFINE r == create_run
    <3>1. r \in RunType /\ r.items[i] = fetch_plan_for_instrument(i)
      BY <1>1, CreateForm
    <3>2. fetchRuns' = Append(fetchRuns, r) /\ fetchRuns \in Seq(RunType)
      BY <1>1, <2>3 DEF Creates, TypeInv
    <3>3. r.items[i].status \in Open => r.items[i].to >= FirstLatest
      <4>1. Planned(i, r.items[i])
        BY <1>1, <3>1, PlanForm
      <4>2. ASSUME r.items[i].status \in Open PROVE r.items[i].to = Window.to
        BY <2>1, <4>1, <4>2 DEF Planned, Item
      <4>3. Window.to = previous_trading_day(day) /\ day \in Int /\ FirstDay <= day
        BY <1>1, WindowForm
      <4>4. FirstLatest <= previous_trading_day(day) /\ previous_trading_day(day) \in Int
        BY <4>3, FirstServed, Previous
      <4>5. previous_trading_day(day) >= FirstLatest
        BY <4>4, FirstServed
      <4> QED
        BY <4>2, <4>3, <4>5
    <3> HIDE DEF r
    <3>4. (n \in DOMAIN fetchRuns /\ fetchRuns'[n] = fetchRuns[n]) \/ fetchRuns'[n] = r
      BY <3>1, <3>2
    <3> QED
      BY <1>5, <2>1, <3>3, <3>4 DEF ReachInv
  <2> QED
    BY <2>2, <2>3, StepQuiet
<1> QED
  BY <1>2, <1>3, <1>4, <1>5 DEF ReachInv

LEMMA ReachedInTime ==
  ASSUME FromOn(LastDay) <= FirstLatest + 1, OrderedInv, ServedInv, ReachInv
  PROVE  NoLongOutage
<1> SUFFICES ASSUME NEW i \in Instruments, ohlcv[i] # {}
             PROVE  Window.from <= Max(ohlcv[i]) + 1
  BY DEF NoLongOutage
<1>1. TypeInv
  BY DEF OrderedInv
<1>2. PICK e \in ohlcv[i] : e >= FirstLatest
  BY DEF ReachInv
<1>3. e \in Nat /\ e <= Max(ohlcv[i]) /\ Max(ohlcv[i]) \in Nat
  BY <1>1, StoredDays
<1>4. /\ Window.from = FromOn(day) /\ FromOn(day) \in Int /\ FromOn(LastDay) \in Int
      /\ FromOn(day) <= FromOn(LastDay)
  <2>1. Window.from = FromOn(day) /\ day \in Int /\ day <= LastDay
    BY <1>1, WindowForm
  <2>2. LastDay \in Int
    BY Constants
  <2> QED
    BY <2>1, <2>2, FromGrows
<1> QED
  BY <1>2, <1>3, <1>4, FirstServed

\* In particular, over a time in which the window does not pass what the source
\* had served at the start, no outage is longer than the window: the two
\* theorems above hold then whatever fails (the window is five years long,
\* historical_lookback_calendar_days).
THEOREM ShortHorizon ==
  ASSUME FromOn(LastDay) <= FirstLatest + 1
  PROVE  Spec => []NoLongOutage
<1>1. Init => ReachInv
  <2> SUFFICES ASSUME Init PROVE ReachInv
    OBVIOUS
  <2>1. latest = FirstLatest
    BY DEF Init, FirstLatest, expected_latest_candle_date
  <2>2. FirstLatest >= FirstLatest
    BY FirstServed
  <2> QED
    BY <2>1, <2>2 DEF Init, ReachInv
<1>2. OrderedInv /\ ServedInv /\ ReachInv /\ [Next]_matsyaFetchVars => ReachInv'
  BY StepReach
<1>3. OrderedInv /\ ServedInv /\ ReachInv => NoLongOutage
  BY ReachedInTime
<1> QED
  BY <1>1, <1>2, <1>3, AlwaysOrdered, PTL DEF Spec
=============================================================================
