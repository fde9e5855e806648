------------------------- MODULE CandleFetchProofs -------------------------
(***************************************************************************)
(* The daily candle fetch for every set of instruments, sessions and       *)
(* constituents, every window and every interleaving of requests, deaths,  *)
(* the purge and the background thread.                                    *)
(***************************************************************************)
EXTENDS CandleFetch, DataLemmas

-----------------------------------------------------------------------------
(* Types                                                                     *)

PCs == {"none", "created", "prepared", "next", "asked", "answered", "recorded", "settle", "refused"}
WindowType == [from : Int, to : Int]
ItemType == [status : ItemStatuses, kind : Kinds, from : Int, to : Int]
RunStatuses == Active \cup {"failed", "completed", "completed_with_errors"}
RunType == [universe : Universes, window : WindowType, status : RunStatuses, items : Seq(ItemType)]
TaskType == [pc : PCs, run : Nat, queue : SUBSET Nat, attempts : Nat, got : SUBSET Int]

\* A run has one item for each constituent; an item that is still open has a
\* request, and only constituents with an instrument have one.
RunShape ==
  \A r \in DOMAIN runs :
    /\ DOMAIN runs[r].items = DOMAIN Members[runs[r].universe]
    /\ \A k \in DOMAIN runs[r].items :
         /\ runs[r].items[k].status \in Open => runs[r].items[k].kind # "none"
         /\ runs[r].items[k].kind # "none" => Members[runs[r].universe][k] \in Instruments

TypeInv ==
  /\ now \in Nat /\ published \in Int /\ token \in BOOLEAN /\ deaths \in 0 .. MaxDeaths
  /\ candles \in [Instruments -> SUBSET Nat]
  /\ \A i \in Instruments : candles[i] \subseteq Available(i)
  /\ archive \in [Instruments -> [complete : BOOLEAN, retry : Nat]]
  /\ runs \in Seq(RunType) /\ RunShape
  /\ task \in TaskType /\ task.run \in 0 .. Len(runs)

LEMMA IntAssumptions ==
  /\ Supported \in Nat /\ Retention \in Nat /\ MaxRetries \in Nat /\ FirstDay \in Nat
  /\ LastDay \in Nat /\ MaxRuns \in Nat /\ MaxDeaths \in Nat
  /\ \A u \in Universes : Lookback[u] \in Nat
BY FetchAssumption

LEMMA TodayTyped == now \in Nat => Today \in Int
BY DEF Today

\* The greater of two days.
LEMMA MaxOfTwo ==
  ASSUME NEW m \in Int, NEW n \in Int
  PROVE  /\ Max({m, n}) \in {m, n} /\ Max({m, n}) >= m /\ Max({m, n}) >= n
<1>1. \E x \in {m, n} : \A y \in {m, n} : x >= y
  OBVIOUS
<1> QED
  BY <1>1 DEF Max

LEMMA WindowTyped ==
  ASSUME now \in Nat, NEW u \in Universes
  PROVE  /\ Window(u) \in WindowType
         /\ Window(u).from = Max({Today - Lookback[u], Today - Supported})
         /\ Window(u).to = Today - 1
<1>1. Today \in Int /\ Lookback[u] \in Nat /\ Supported \in Nat
  BY TodayTyped, IntAssumptions
<1>2. \A m, n \in Int : Max({m, n}) \in Int
  BY MaxOfTwo
<1>3. Today - Lookback[u] \in Int /\ Today - Supported \in Int
  BY <1>1
<1>4. Max({Today - Lookback[u], Today - Supported}) \in Int
  BY <1>2, <1>3
<1>5. Window(u) = [from |-> Max({Today - Lookback[u], Today - Supported}), to |-> Today - 1]
  BY DEF Window, HistoricalWindow
<1> QED
  BY <1>1, <1>4, <1>5 DEF WindowType

\* The stored days of an instrument have a first and a latest.
LEMMA Extremes ==
  ASSUME TypeInv, NEW i \in Instruments, Stored(i)
  PROVE  /\ First(i) \in candles[i] /\ \A d \in candles[i] : First(i) <= d
         /\ Latest(i) \in candles[i] /\ \A d \in candles[i] : d <= Latest(i)
<1>1. candles[i] \in SUBSET Nat /\ candles[i] # {}
  BY DEF TypeInv, Stored
<1>2. \A d \in candles[i] : d \in Nat /\ d <= published /\ published \in Int
  BY DEF TypeInv, Available
<1>3. published \in Nat
  BY <1>1, <1>2
<1>4. PICK m \in candles[i] : \A d \in candles[i] : d <= m
  BY <1>1, <1>2, <1>3, GreatestNatural
<1>5. \A d \in candles[i] : m >= d
  BY <1>1, <1>4
<1>6. Max(candles[i]) \in candles[i] /\ \A d \in candles[i] : Max(candles[i]) >= d
  BY <1>5 DEF Max
<1>7. Min(candles[i]) \in candles[i] /\ \A d \in candles[i] : Min(candles[i]) <= d
  BY <1>1, LeastNatural DEF Min
<1>8. \A d \in candles[i] : d <= Max(candles[i])
  BY <1>1, <1>6
<1> QED
  BY <1>6, <1>7, <1>8 DEF First, Latest

LEMMA ItemForTyped ==
  ASSUME TypeInv, NEW u \in Universes, NEW c \in Instruments \cup Unmapped
  PROVE  /\ ItemFor(c, Window(u)) \in ItemType
         /\ ItemFor(c, Window(u)).kind # "none" => c \in Instruments
         /\ ItemFor(c, Window(u)).status # "done"
         /\ ItemFor(c, Window(u)).status \in Open => ItemFor(c, Window(u)).kind # "none"
<1> DEFINE w == Window(u)
<1>1. w.from \in Int /\ w.to \in Int
  BY WindowTyped DEF TypeInv, WindowType
<1>2. \A st \in ItemStatuses : Skipped(st) \in ItemType /\ Skipped(st).kind = "none" /\ Skipped(st).status = st
  BY DEF Skipped, Item, ItemType, Kinds
<1>3. \A kind \in Kinds : \A f, t \in Int :
         /\ Item("queued", kind, f, t) \in ItemType
         /\ Item("queued", kind, f, t).status = "queued"
         /\ Item("queued", kind, f, t).kind = kind
  BY DEF Item, ItemType, ItemStatuses, Open
<1>4. /\ {"skipped_up_to_date", "skipped_retry_later", "skipped_unmapped"} \subseteq ItemStatuses
      /\ {"skipped_up_to_date", "skipped_retry_later", "skipped_unmapped"} \cap Open = {}
  BY DEF ItemStatuses, Succeeded, Open
<1>5. CASE c \in Unmapped
  BY <1>2, <1>4, <1>5 DEF ItemFor
<1>6. CASE c \notin Unmapped
  <2>1. c \in Instruments /\ ItemFor(c, w) = FetchPlan(c, w)
    BY <1>6 DEF ItemFor
  <2>2. Stored(c) => /\ First(c) - 1 \in Int
                     /\ Max({w.from, Latest(c) + 1}) \in Int
    <3> SUFFICES ASSUME Stored(c) PROVE First(c) - 1 \in Int /\ Max({w.from, Latest(c) + 1}) \in Int
      OBVIOUS
    <3>1. First(c) \in Int /\ Latest(c) + 1 \in Int
      BY <2>1, Extremes DEF TypeInv
    <3>2. Max({w.from, Latest(c) + 1}) \in {w.from, Latest(c) + 1}
      BY <1>1, <3>1, MaxOfTwo
    <3> HIDE DEF w
    <3> QED
      BY <1>1, <3>1, <3>2
  <2> HIDE DEF w
  <2>3. \/ \E st \in {"skipped_up_to_date", "skipped_retry_later"} : FetchPlan(c, w) = Skipped(st)
        \/ \E kind \in Kinds \ {"none"} : \E f, t \in Int : FetchPlan(c, w) = Item("queued", kind, f, t)
    <3>1. {"older_history_backfill", "initial_capture", "incremental_update"} \subseteq Kinds \ {"none"}
      BY DEF Kinds
    <3>2. archive[c].retry \in Nat /\ now \in Nat
      BY <2>1 DEF TypeInv
    <3> DEFINE older == Stored(c) /\ First(c) > w.from /\ ~archive[c].complete
    <3>3. CASE archive[c].retry > now
      <4>1. ~(archive[c].retry <= now)
        BY <3>2, <3>3
      <4>2. FetchPlan(c, w) = Skipped("skipped_retry_later")
        BY <3>3, <4>1 DEF FetchPlan
      <4> QED
        BY <4>2
    <3>4. CASE archive[c].retry <= now /\ older
      <4>1. FetchPlan(c, w) = Item("queued", "older_history_backfill", w.from, First(c) - 1)
        BY <3>2, <3>4 DEF FetchPlan
      <4> QED
        BY <1>1, <2>2, <3>1, <3>4, <4>1
    <3>5. CASE archive[c].retry <= now /\ ~older
      <4>1. FetchPlan(c, w) =
              IF ~Stored(c) THEN Item("queued", "initial_capture", w.from, w.to)
              ELSE IF Latest(c) >= w.to THEN Skipped("skipped_up_to_date")
              ELSE Item("queued", "incremental_update", Max({w.from, Latest(c) + 1}), w.to)
        BY <3>2, <3>5 DEF FetchPlan
      <4> QED
        BY <1>1, <2>2, <3>1, <4>1
    <3> HIDE DEF older
    <3> QED
      BY <3>2, <3>3, <3>4, <3>5
  <2> QED
    BY <1>2, <1>3, <1>4, <2>1, <2>3 DEF w
<1> QED
  BY <1>5, <1>6

LEMMA CreateRunTyped ==
  ASSUME TypeInv, NEW u \in Universes
  PROVE  LET n == CreateRun(u)
         IN  /\ n \in RunType /\ n.universe = u /\ n.status = "queued" /\ n.window = Window(u)
             /\ DOMAIN n.items = DOMAIN Members[u]
             /\ \A k \in DOMAIN n.items : /\ n.items[k] = ItemFor(Members[u][k], Window(u))
                                          /\ n.items[k].status # "done"
                                          /\ n.items[k].status \in Open => n.items[k].kind # "none"
                                          /\ n.items[k].kind # "none" => Members[u][k] \in Instruments
<1> DEFINE f == [k \in DOMAIN Members[u] |-> ItemFor(Members[u][k], Window(u))]
<1>1. Members[u] \in Seq(Instruments \cup Unmapped)
  BY FetchAssumption
<1>2. \A k \in DOMAIN Members[u] :
         /\ ItemFor(Members[u][k], Window(u)) \in ItemType
         /\ ItemFor(Members[u][k], Window(u)).kind # "none" => Members[u][k] \in Instruments
         /\ ItemFor(Members[u][k], Window(u)).status # "done"
         /\ ItemFor(Members[u][k], Window(u)).status \in Open => ItemFor(Members[u][k], Window(u)).kind # "none"
  BY <1>1, ItemForTyped
<1>3. f \in Seq(ItemType) /\ DOMAIN f = DOMAIN Members[u]
  <2>1. DOMAIN Members[u] = 1 .. Len(Members[u]) /\ Len(Members[u]) \in Nat
    BY <1>1
  <2> QED
    BY <1>2, <2>1
<1>4. \A k \in DOMAIN f : /\ f[k] = ItemFor(Members[u][k], Window(u)) /\ f[k].status # "done"
                          /\ f[k].kind # "none" => Members[u][k] \in Instruments
                          /\ f[k].status \in Open => f[k].kind # "none"
  BY <1>2
<1>5. CreateRun(u) = [universe |-> u, window |-> Window(u), status |-> "queued", items |-> f]
  BY DEF CreateRun
<1>6. Window(u) \in WindowType /\ "queued" \in RunStatuses
  BY WindowTyped DEF TypeInv, RunStatuses, Active
<1> HIDE DEF f
<1> QED
  BY <1>3, <1>4, <1>5, <1>6 DEF RunType

-----------------------------------------------------------------------------
(* The thread and its run                                                    *)

Working == {"asked", "answered", "recorded", "settle", "refused"}

\* The thread has a run in progress as long as it has items to work off; the
\* one in hand is open until it is settled, the others are still queued.
TaskInv ==
  /\ task.pc # "none" => task.run \in DOMAIN runs
  /\ task.pc \in {"created", "prepared"} => Run.status \in Active
  /\ task.pc \in {"none", "created", "prepared"} => task.attempts = 0
  /\ task.pc = "next" => task.attempts <= MaxRetries
  /\ task.attempts <= MaxRetries + 1
  /\ task.pc \in Working => task.queue # {}
  /\ task.pc \in Working \cup {"next"} =>
       /\ task.queue \subseteq DOMAIN Run.items
       /\ task.queue # {} => Run.status \in Active
       /\ \A k \in task.queue :
            /\ Run.items[k].kind # "none"
            /\ k # Current => Run.items[k].status = "queued"
            /\ k = Current /\ task.pc = "next" => Run.items[k].status \in Open
            /\ k = Current /\ task.pc \in {"asked", "answered", "recorded"} =>
                 Run.items[k].status = "fetching"
  /\ task.pc = "recorded" /\ task.got # {}
     /\ Run.items[Current].kind \in {"initial_capture", "older_history_backfill"} =>
       archive[Symbol].complete

LEMMA CurrentIn ==
  ASSUME TypeInv, task.queue # {}
  PROVE  Current \in task.queue
<1>1. task.queue \in SUBSET Nat
  BY DEF TypeInv, TaskType
<1> QED
  BY <1>1, LeastNatural DEF Current, Min

LEMMA SymbolIn ==
  ASSUME TypeInv, TaskInv, task.pc \in Working \cup {"next"}, task.queue # {}
  PROVE  /\ task.run \in DOMAIN runs /\ Run \in RunType /\ Current \in DOMAIN Run.items
         /\ Run.items[Current] \in ItemType /\ Run.status \in Active
         /\ Symbol \in Instruments /\ Run.universe \in Universes
<1>1. task.run \in DOMAIN runs /\ runs \in Seq(RunType) /\ Current \in task.queue
  BY CurrentIn DEF TypeInv, TaskInv, Working
<1>2. Run \in RunType /\ Current \in DOMAIN Run.items /\ Run.items[Current].kind # "none"
  BY <1>1 DEF TaskInv, Run
<1>3. Run.items[Current] \in ItemType /\ Run.status \in Active /\ Run.universe \in Universes
  BY <1>1, <1>2 DEF RunType, TaskInv
<1>4. Symbol \in Instruments
  BY <1>1, <1>2 DEF TypeInv, RunShape, Symbol, Run
<1> QED
  BY <1>1, <1>2, <1>3, <1>4

\* A function on 1 .. n with values in T is a sequence over T.
LEMMA MadeSequence ==
  ASSUME NEW T, NEW n \in Nat, NEW f, f = [k \in 1 .. n |-> f[k]], \A k \in 1 .. n : f[k] \in T
  PROVE  f \in Seq(T)
<1>1. [k \in 1 .. n |-> f[k]] \in Seq(T)
  OBVIOUS
<1> QED
  BY <1>1

\* The thread's run is rewritten: its status becomes st, the status of item k
\* becomes S[k], and the rest of it and all other runs stay as they are.
Rewritten(st, S) ==
  /\ runs' \in Seq(RunType) /\ DOMAIN runs' = DOMAIN runs /\ Len(runs') = Len(runs)
  /\ \A q \in DOMAIN runs : q # task.run => runs'[q] = runs[q]
  /\ runs'[task.run].universe = Run.universe /\ runs'[task.run].window = Run.window
  /\ runs'[task.run].status = st
  /\ DOMAIN runs'[task.run].items = DOMAIN Run.items
  /\ \A k \in DOMAIN Run.items :
       /\ runs'[task.run].items[k].status = S[k]
       /\ runs'[task.run].items[k].kind = Run.items[k].kind
       /\ runs'[task.run].items[k].from = Run.items[k].from
       /\ runs'[task.run].items[k].to = Run.items[k].to

LEMMA RewriteForm ==
  ASSUME TypeInv, task.run \in DOMAIN runs, NEW st \in RunStatuses,
         NEW S \in [DOMAIN Run.items -> ItemStatuses],
         NEW items, items = [k \in DOMAIN Run.items |-> [Run.items[k] EXCEPT !.status = S[k]]],
         runs' = [runs EXCEPT ![task.run] = [@ EXCEPT !.status = st, !.items = items]]
  PROVE  Rewritten(st, S)
<1>1. runs \in Seq(RunType) /\ Run \in RunType /\ Run = runs[task.run]
  BY DEF TypeInv, Run
<1>2. Run.items \in Seq(ItemType)
  BY <1>1 DEF RunType
<1>3. DOMAIN Run.items = 1 .. Len(Run.items) /\ Len(Run.items) \in Nat
  BY <1>2
<1>4. \A k \in DOMAIN Run.items : Run.items[k] \in ItemType
  BY <1>2
<1>5. \A k \in DOMAIN Run.items :
         /\ items[k] \in ItemType /\ items[k].status = S[k] /\ items[k].kind = Run.items[k].kind
         /\ items[k].from = Run.items[k].from /\ items[k].to = Run.items[k].to
  BY <1>4 DEF ItemType
<1>6. items \in Seq(ItemType) /\ DOMAIN items = DOMAIN Run.items
  <2>1. DOMAIN items = 1 .. Len(Run.items) /\ items = [k \in 1 .. Len(Run.items) |-> items[k]]
    BY <1>3
  <2>2. \A k \in 1 .. Len(Run.items) : items[k] \in ItemType
    BY <1>3, <1>5
  <2> QED
    BY <1>3, <2>1, <2>2, MadeSequence
<1> DEFINE n == [Run EXCEPT !.status = st, !.items = items]
<1>7. /\ n \in RunType /\ n.status = st /\ n.items = items
      /\ n.universe = Run.universe /\ n.window = Run.window
  BY <1>1, <1>6 DEF RunType
<1>8. runs' = [runs EXCEPT ![task.run] = n]
  BY <1>1
<1> HIDE DEF n
<1>9. /\ runs' \in Seq(RunType) /\ DOMAIN runs' = DOMAIN runs /\ Len(runs') = Len(runs)
      /\ runs'[task.run] = n /\ \A q \in DOMAIN runs : q # task.run => runs'[q] = runs[q]
  BY <1>1, <1>7, <1>8
<1>10. runs'[task.run].items = items /\ runs'[task.run].status = st
  BY <1>7, <1>9
<1>11. runs'[task.run].universe = Run.universe /\ runs'[task.run].window = Run.window
  BY <1>7, <1>9
<1>12. \A k \in DOMAIN Run.items :
         /\ runs'[task.run].items[k].status = S[k]
         /\ runs'[task.run].items[k].kind = Run.items[k].kind
         /\ runs'[task.run].items[k].from = Run.items[k].from
         /\ runs'[task.run].items[k].to = Run.items[k].to
  BY <1>5, <1>10
<1> QED
  BY <1>6, <1>9, <1>10, <1>11, <1>12 DEF Rewritten

StatusesOf(r) == [k \in DOMAIN runs[r].items |-> runs[r].items[k].status]

LEMMA StatusesTyped ==
  ASSUME TypeInv, NEW r \in DOMAIN runs
  PROVE  /\ StatusesOf(r) \in [DOMAIN runs[r].items -> ItemStatuses]
         /\ runs[r] \in RunType /\ runs[r].status \in RunStatuses
         /\ \A k \in DOMAIN runs[r].items : runs[r].items[k] \in ItemType
<1>1. runs[r] \in RunType
  BY DEF TypeInv
<1>2. runs[r].items \in Seq(ItemType)
  BY <1>1 DEF RunType
<1>3. \A k \in DOMAIN runs[r].items : runs[r].items[k] \in ItemType
  BY <1>2
<1> QED
  BY <1>1, <1>3 DEF StatusesOf, RunType, ItemType

LEMMA SetItemForm ==
  ASSUME TypeInv, task.run \in DOMAIN runs, NEW k \in DOMAIN Run.items, NEW x \in ItemStatuses,
         SetItem(k, x)
  PROVE  Rewritten(Run.status, [StatusesOf(task.run) EXCEPT ![k] = x])
<1> DEFINE S == [StatusesOf(task.run) EXCEPT ![k] = x]
           items == [j \in DOMAIN Run.items |-> [Run.items[j] EXCEPT !.status = S[j]]]
<1>1. /\ runs \in Seq(RunType) /\ Run = runs[task.run] /\ Run \in RunType
      /\ StatusesOf(task.run) \in [DOMAIN Run.items -> ItemStatuses]
      /\ Run.status \in RunStatuses
      /\ \A j \in DOMAIN Run.items : Run.items[j] \in ItemType
  BY StatusesTyped DEF TypeInv, Run
<1>2. S \in [DOMAIN Run.items -> ItemStatuses]
  BY <1>1
<1>3. [Run.items EXCEPT ![k].status = x] = items
  <2>1. \A j \in DOMAIN Run.items : j # k => [Run.items[j] EXCEPT !.status = S[j]] = Run.items[j]
    BY <1>1 DEF StatusesOf, ItemType, Run
  <2>2. Run.items = [j \in DOMAIN Run.items |-> Run.items[j]]
    BY <1>1 DEF RunType
  <2>3. S[k] = x
    BY <1>1
  <2> QED
    BY <2>1, <2>2, <2>3
<1>4. [Run EXCEPT !.items = items] = [Run EXCEPT !.status = Run.status, !.items = items]
  BY <1>1 DEF RunType
<1>5. runs' = [runs EXCEPT ![task.run] = [@ EXCEPT !.status = Run.status, !.items = items]]
  <2>1. runs' = [runs EXCEPT ![task.run] = [Run EXCEPT !.items = [Run.items EXCEPT ![k].status = x]]]
    BY <1>1 DEF SetItem, RunType
  <2> HIDE DEF items, S
  <2> QED
    BY <1>1, <1>3, <1>4, <2>1
<1> HIDE DEF S
<1>6. Rewritten(Run.status, S)
  BY <1>1, <1>2, <1>5, RewriteForm
<1> QED
  BY <1>6 DEF S

-----------------------------------------------------------------------------
(* What the steps do to the runs                                             *)

\* A run in state st whose items stand at S has told what happened.
Settles(st, S) ==
  /\ st \notin Active => \A k \in DOMAIN S : S[k] \notin Open
  /\ st = "completed" => \A k \in DOMAIN S : S[k] \in Succeeded
  /\ st = "completed_with_errors" /\ (\A k \in DOMAIN S : S[k] \notin Succeeded)
       => \A k \in DOMAIN S : S[k] # "failed"

RunsInv ==
  /\ OneActiveRun
  /\ \A r \in DOMAIN runs : Settles(runs[r].status, StatusesOf(r))
  /\ DoneIsRecorded

Captures == {"initial_capture", "older_history_backfill"}

\* The run and the item in hand after a step that rewrites the run.
LEMMA OnRun ==
  ASSUME NEW st, NEW S, Rewritten(st, S), task'.run = task.run
  PROVE  /\ Run'.status = st /\ DOMAIN Run'.items = DOMAIN Run.items
         /\ Run'.universe = Run.universe
         /\ \A k \in DOMAIN Run.items : /\ Run'.items[k].status = S[k]
                                        /\ Run'.items[k].kind = Run.items[k].kind
         /\ task'.queue = task.queue => Current' = Current /\ Symbol' = Symbol
BY DEF Rewritten, Run, Current, Symbol

\* A step that leaves the runs alone rewrites the thread's run as it is.
LEMMA Unwritten ==
  ASSUME TypeInv, task.run \in DOMAIN runs, UNCHANGED runs
  PROVE  /\ Rewritten(Run.status, StatusesOf(task.run))
         /\ Run.status \in RunStatuses
         /\ StatusesOf(task.run) \in [DOMAIN Run.items -> ItemStatuses]
<1>1. Run.status \in RunStatuses /\ StatusesOf(task.run) \in [DOMAIN Run.items -> ItemStatuses]
  BY StatusesTyped DEF Run
<1>2. runs' \in Seq(RunType)
  BY DEF TypeInv
<1> QED
  BY <1>1, <1>2 DEF Rewritten, StatusesOf, Run

LEMMA PrepareForm ==
  ASSUME TypeInv, task.run \in DOMAIN runs, PrepareRun
  PROVE  Rewritten("running", [k \in DOMAIN Run.items |->
           IF Run.items[k].status = "fetching" THEN "queued" ELSE Run.items[k].status])
<1> DEFINE S == [k \in DOMAIN Run.items |->
                   IF Run.items[k].status = "fetching" THEN "queued" ELSE Run.items[k].status]
           items == [k \in DOMAIN Run.items |-> [Run.items[k] EXCEPT !.status = S[k]]]
<1>1. /\ Run = runs[task.run] /\ Run \in RunType
      /\ \A k \in DOMAIN Run.items : Run.items[k] \in ItemType
  BY StatusesTyped DEF Run
<1>2. S \in [DOMAIN Run.items -> ItemStatuses] /\ "running" \in RunStatuses
  BY <1>1 DEF ItemType, ItemStatuses, Open, RunStatuses, Active
<1>3. items = [k \in DOMAIN Run.items |-> IF Run.items[k].status = "fetching"
                 THEN [Run.items[k] EXCEPT !.status = "queued"] ELSE Run.items[k]]
  BY <1>1 DEF ItemType
<1>4. runs' = [runs EXCEPT ![task.run] = [@ EXCEPT !.status = "running", !.items = items]]
  <2>1. runs' = [runs EXCEPT ![task.run] = [@ EXCEPT !.status = "running",
                   !.items = [k \in DOMAIN Run.items |-> IF Run.items[k].status = "fetching"
                 THEN [Run.items[k] EXCEPT !.status = "queued"] ELSE Run.items[k]]]]
    BY <1>1 DEF PrepareRun, RunType
  <2> QED
    BY <2>1, <1>3
<1> HIDE DEF S
<1>5. Rewritten("running", S)
  BY <1>2, <1>4, RewriteForm
<1> QED
  BY <1>5 DEF S

LEMMA FailForm ==
  ASSUME TypeInv, task.run \in DOMAIN runs, FailRemaining
  PROVE  Rewritten("failed", [k \in DOMAIN Run.items |->
           IF Run.items[k].status \in Open THEN "failed" ELSE Run.items[k].status])
<1> DEFINE S == [k \in DOMAIN Run.items |->
                   IF Run.items[k].status \in Open THEN "failed" ELSE Run.items[k].status]
           items == [k \in DOMAIN Run.items |-> [Run.items[k] EXCEPT !.status = S[k]]]
<1>1. /\ Run = runs[task.run] /\ Run \in RunType
      /\ \A k \in DOMAIN Run.items : Run.items[k] \in ItemType
  BY StatusesTyped DEF Run
<1>2. S \in [DOMAIN Run.items -> ItemStatuses] /\ "failed" \in RunStatuses
  BY <1>1 DEF ItemType, ItemStatuses, RunStatuses
<1>3. items = [k \in DOMAIN Run.items |-> IF Run.items[k].status \in Open
                 THEN [Run.items[k] EXCEPT !.status = "failed"] ELSE Run.items[k]]
  BY <1>1 DEF ItemType
<1>4. runs' = [runs EXCEPT ![task.run] = [@ EXCEPT !.status = "failed", !.items = items]]
  <2>1. runs' = [runs EXCEPT ![task.run] = [@ EXCEPT !.status = "failed",
                   !.items = [k \in DOMAIN Run.items |-> IF Run.items[k].status \in Open
                 THEN [Run.items[k] EXCEPT !.status = "failed"] ELSE Run.items[k]]]]
    BY <1>1 DEF FailRemaining, RunType
  <2> QED
    BY <2>1, <1>3
<1> HIDE DEF S
<1>5. Rewritten("failed", S)
  BY <1>2, <1>4, RewriteForm
<1> QED
  BY <1>5 DEF S

LEMMA StatusForm ==
  ASSUME TypeInv, task.run \in DOMAIN runs, NEW st \in RunStatuses,
         runs' = [runs EXCEPT ![task.run].status = st]
  PROVE  Rewritten(st, StatusesOf(task.run))
<1> DEFINE S == StatusesOf(task.run)
           items == [k \in DOMAIN Run.items |-> [Run.items[k] EXCEPT !.status = S[k]]]
<1>1. /\ Run = runs[task.run] /\ Run \in RunType
      /\ \A k \in DOMAIN Run.items : Run.items[k] \in ItemType
      /\ S \in [DOMAIN Run.items -> ItemStatuses]
  BY StatusesTyped DEF Run
<1>2. items = Run.items
  <2>1. \A k \in DOMAIN Run.items : [Run.items[k] EXCEPT !.status = S[k]] = Run.items[k]
    BY <1>1 DEF StatusesOf, ItemType, Run
  <2>2. Run.items = [k \in DOMAIN Run.items |-> Run.items[k]]
    BY <1>1 DEF RunType
  <2> QED
    BY <2>1, <2>2
<1>3. runs' = [runs EXCEPT ![task.run] = [@ EXCEPT !.status = st, !.items = items]]
  <2>1. [Run EXCEPT !.status = st] = [Run EXCEPT !.status = st, !.items = items]
    <3> HIDE DEF items
    <3> QED
      BY <1>1, <1>2 DEF RunType
  <2> HIDE DEF items
  <2> QED
    BY <2>1, <1>1
<1> HIDE DEF S
<1>4. Rewritten(st, S)
  BY <1>1, <1>3, RewriteForm
<1> QED
  BY <1>4 DEF S

-----------------------------------------------------------------------------
(* The runs tell what happened                                               *)

\* A step that rewrites the thread's run keeps the shape of the runs and what
\* they tell, when it revives no run, ends none too early, reports no capture
\* done that is not on record, and takes no record back.
LEMMA RunsChanged ==
  ASSUME TypeInv, RunsInv, task.run \in DOMAIN runs,
         NEW st \in RunStatuses, NEW S \in [DOMAIN Run.items -> ItemStatuses], Rewritten(st, S),
         st \in Active => Run.status \in Active,
         Settles(st, S),
         \A k \in DOMAIN Run.items :
           /\ S[k] \in Open => Run.items[k].kind # "none"
           /\ S[k] = "done" /\ Run.items[k].kind \in Captures
                => archive'[Members[Run.universe][k]].complete,
         \A i \in Instruments : archive[i].complete => archive'[i].complete
  PROVE  RunShape' /\ RunsInv'
<1> USE DEF Captures
<1>1. /\ DOMAIN runs' = DOMAIN runs
      /\ \A q \in DOMAIN runs : q # task.run => runs'[q] = runs[q]
      /\ runs'[task.run].universe = Run.universe /\ runs'[task.run].status = st
      /\ DOMAIN runs'[task.run].items = DOMAIN Run.items
      /\ \A k \in DOMAIN Run.items :
           runs'[task.run].items[k].status = S[k] /\ runs'[task.run].items[k].kind = Run.items[k].kind
  BY DEF Rewritten
<1>2. RunShape'
  <2> SUFFICES ASSUME NEW r \in DOMAIN runs
               PROVE  /\ DOMAIN runs'[r].items = DOMAIN Members[runs'[r].universe]
                      /\ \A k \in DOMAIN runs'[r].items :
                           /\ runs'[r].items[k].status \in Open => runs'[r].items[k].kind # "none"
                           /\ runs'[r].items[k].kind # "none" => Members[runs'[r].universe][k] \in Instruments
    BY <1>1 DEF RunShape
  <2>1. CASE r = task.run
    BY <1>1, <2>1 DEF TypeInv, RunShape, Run
  <2>2. CASE r # task.run
    BY <1>1, <2>2 DEF TypeInv, RunShape
  <2> QED
    BY <2>1, <2>2
<1>3. OneActiveRun'
  <2>1. \A q \in DOMAIN runs : /\ runs'[q].universe = runs[q].universe
                               /\ runs'[q].status \in Active => runs[q].status \in Active
    BY <1>1 DEF Run
  <2> QED
    BY <1>1, <2>1 DEF RunsInv, OneActiveRun
<1>4. \A r \in DOMAIN runs : Settles(runs[r].status, StatusesOf(r))'
  <2> SUFFICES ASSUME NEW r \in DOMAIN runs PROVE Settles(runs'[r].status, StatusesOf(r)')
    BY DEF Settles
  <2>1. CASE r = task.run
    <3>1. StatusesOf(r)' = S
      BY <1>1, <2>1 DEF StatusesOf
    <3> QED
      BY <1>1, <2>1, <3>1
  <2>2. CASE r # task.run
    <3>1. StatusesOf(r)' = StatusesOf(r)
      BY <1>1, <2>2 DEF StatusesOf
    <3> QED
      BY <1>1, <2>2, <3>1 DEF RunsInv
  <2> QED
    BY <2>1, <2>2
<1>5. DoneIsRecorded'
  <2> SUFFICES ASSUME NEW r \in DOMAIN runs, NEW k \in DOMAIN runs'[r].items,
                      runs'[r].items[k].status = "done", runs'[r].items[k].kind \in Captures
               PROVE  archive'[Members[runs'[r].universe][k]].complete
    BY <1>1 DEF DoneIsRecorded
  <2>1. CASE r = task.run
    BY <1>1, <2>1
  <2>2. CASE r # task.run
    <3>1. archive[Members[runs[r].universe][k]].complete
      BY <1>1, <2>2 DEF RunsInv, DoneIsRecorded
    <3>2. Members[runs[r].universe][k] \in Instruments
      BY <1>1, <2>2 DEF TypeInv, RunShape
    <3> QED
      BY <1>1, <2>2, <3>1, <3>2
  <2> QED
    BY <2>1, <2>2
<1> QED
  BY <1>1, <1>2, <1>3, <1>4, <1>5 DEF RunsInv

\* A step that rewrites no run and takes no record back keeps them too.
LEMMA RunsUnchanged ==
  ASSUME TypeInv, RunsInv, UNCHANGED runs,
         \A i \in Instruments : archive[i].complete => archive'[i].complete
  PROVE  RunShape' /\ RunsInv'
<1>1. RunShape'
  BY DEF TypeInv, RunShape
<1>2. OneActiveRun' /\ \A r \in DOMAIN runs' : Settles(runs[r].status, StatusesOf(r))'
  BY DEF RunsInv, OneActiveRun, StatusesOf, Settles
<1>3. DoneIsRecorded'
  BY DEF RunsInv, DoneIsRecorded, TypeInv, RunShape
<1> QED
  BY <1>1, <1>2, <1>3 DEF RunsInv

\* A run in progress goes on when one of its items changes its status.
LEMMA ActiveSettles ==
  ASSUME NEW st \in Active, NEW S PROVE Settles(st, S)
BY DEF Settles, Active

\* One item of a run in progress changes its status.
LEMMA ItemChanged ==
  ASSUME TypeInv, TaskInv, RunsInv, task.pc \in Working \cup {"next"}, task.queue # {},
         NEW x \in ItemStatuses, SetItem(Current, x), UNCHANGED archive,
         x = "done" /\ Run.items[Current].kind \in Captures => archive[Symbol].complete
  PROVE  /\ RunShape' /\ RunsInv'
         /\ Rewritten(Run.status, [StatusesOf(task.run) EXCEPT ![Current] = x])
<1> DEFINE S == [StatusesOf(task.run) EXCEPT ![Current] = x]
<1>1. /\ task.run \in DOMAIN runs /\ Current \in DOMAIN Run.items /\ Run.status \in Active
      /\ Current \in task.queue /\ Run = runs[task.run]
  BY SymbolIn, CurrentIn DEF Run
<1>2. /\ StatusesOf(task.run) \in [DOMAIN Run.items -> ItemStatuses] /\ Run.status \in RunStatuses
      /\ \A k \in DOMAIN Run.items : StatusesOf(task.run)[k] = Run.items[k].status
  BY <1>1, StatusesTyped DEF StatusesOf
<1>3. S \in [DOMAIN Run.items -> ItemStatuses] /\ S[Current] = x
      /\ \A k \in DOMAIN Run.items : k # Current => S[k] = Run.items[k].status
  BY <1>1, <1>2
<1>4. Rewritten(Run.status, S)
  BY <1>1, SetItemForm
<1>5. Settles(Run.status, S)
  BY <1>1, ActiveSettles
<1>6. Run.items[Current].kind # "none"
  BY <1>1 DEF TaskInv
<1> HIDE DEF S
<1>7. \A k \in DOMAIN Run.items :
        /\ S[k] \in Open => Run.items[k].kind # "none"
        /\ S[k] = "done" /\ Run.items[k].kind \in Captures
             => archive'[Members[Run.universe][k]].complete
  <2> SUFFICES ASSUME NEW k \in DOMAIN Run.items
               PROVE  /\ S[k] \in Open => Run.items[k].kind # "none"
                      /\ S[k] = "done" /\ Run.items[k].kind \in Captures
                           => archive'[Members[Run.universe][k]].complete
    OBVIOUS
  <2>1. CASE k = Current
    BY <1>3, <1>6, <2>1 DEF Symbol
  <2>2. CASE k # Current
    <3>1. S[k] = Run.items[k].status
      BY <1>3, <2>2
    <3>2. S[k] \in Open => Run.items[k].kind # "none"
      BY <1>1, <3>1 DEF TypeInv, RunShape
    <3>3. S[k] = "done" /\ Run.items[k].kind \in Captures => archive[Members[Run.universe][k]].complete
      BY <1>1, <3>1 DEF RunsInv, DoneIsRecorded, Captures
    <3> QED
      BY <3>2, <3>3
  <2> QED
    BY <2>1, <2>2
<1>8. RunShape' /\ RunsInv'
  BY <1>1, <1>2, <1>3, <1>4, <1>5, <1>7, RunsChanged
<1> QED
  BY <1>4, <1>8 DEF S

-----------------------------------------------------------------------------
(* Every step of the thread                                                  *)

FetchInv == TypeInv /\ TaskInv /\ RunsInv

LEMMA QuietTyped ==
  ASSUME TypeInv, UNCHANGED <<now, published, token, deaths, candles, archive>>,
         runs' \in Seq(RunType), Len(runs') = Len(runs), RunShape',
         task' \in TaskType, task'.run = task.run
  PROVE  TypeInv'
BY DEF TypeInv, Available

\* The thread has ended.
LEMMA IdleInv ==
  ASSUME task' = Idle
  PROVE  TaskInv' /\ task' \in TaskType /\ task'.run = 0
BY IntAssumptions DEF TaskInv, Idle, TaskType, PCs, Working

LEMMA TaskFields ==
  ASSUME TypeInv
  PROVE  /\ task = [pc |-> task.pc, run |-> task.run, queue |-> task.queue,
                    attempts |-> task.attempts, got |-> task.got]
         /\ task.pc \in PCs /\ task.run \in Nat /\ task.queue \in SUBSET Nat
         /\ task.attempts \in Nat /\ task.got \in SUBSET Int
BY DEF TypeInv, TaskType

LEMMA StepPrepareRun ==
  ASSUME FetchInv, PrepareRun
  PROVE  FetchInv'
<1> DEFINE S == [k \in DOMAIN Run.items |->
                   IF Run.items[k].status = "fetching" THEN "queued" ELSE Run.items[k].status]
<1>1. TypeInv /\ TaskInv /\ RunsInv
  BY DEF FetchInv
<1>2. /\ task.pc = "created" /\ task' = [task EXCEPT !.pc = "prepared"]
      /\ UNCHANGED <<now, published, token, deaths, candles, archive>>
  BY DEF PrepareRun, At, Goto, TaskOnly, worldVars
<1>3. task.run \in DOMAIN runs /\ Run.status \in Active /\ task.attempts = 0
  BY <1>1, <1>2 DEF TaskInv
<1>4. Rewritten("running", S)
  BY <1>1, <1>3, PrepareForm
<1>5. /\ \A k \in DOMAIN Run.items : Run.items[k] \in ItemType
      /\ S \in [DOMAIN Run.items -> ItemStatuses] /\ "running" \in RunStatuses /\ "running" \in Active
      /\ \A k \in DOMAIN Run.items : /\ S[k] \in Open => Run.items[k].status \in Open
                                     /\ S[k] = "done" => Run.items[k].status = "done"
  <2>1. \A k \in DOMAIN Run.items : Run.items[k] \in ItemType
    BY <1>1, <1>3, StatusesTyped DEF Run
  <2> QED
    BY <2>1 DEF ItemType, ItemStatuses, Open, RunStatuses, Active
<1> HIDE DEF S
<1>6. \A k \in DOMAIN Run.items :
        /\ S[k] \in Open => Run.items[k].kind # "none"
        /\ S[k] = "done" /\ Run.items[k].kind \in Captures
             => archive'[Members[Run.universe][k]].complete
  BY <1>1, <1>2, <1>3, <1>5 DEF TypeInv, RunShape, RunsInv, DoneIsRecorded, Captures, Run
<1>7. RunShape' /\ RunsInv'
  BY <1>1, <1>2, <1>3, <1>4, <1>5, <1>6, ActiveSettles, RunsChanged
<1>8. task' \in TaskType /\ task'.run = task.run /\ task'.pc = "prepared" /\ task'.attempts = 0
  BY <1>1, <1>2, <1>3 DEF TypeInv, TaskType, PCs
<1>9. runs' \in Seq(RunType) /\ Len(runs') = Len(runs) /\ DOMAIN runs' = DOMAIN runs
  BY <1>4 DEF Rewritten
<1>10. TypeInv'
  BY <1>1, <1>2, <1>7, <1>8, <1>9, QuietTyped
<1>11. Run'.status = "running"
  BY <1>4, <1>8, OnRun
<1>12. TaskInv'
  BY <1>3, <1>5, <1>8, <1>9, <1>11, IntAssumptions DEF TaskInv, Working
<1> QED
  BY <1>7, <1>10, <1>12 DEF FetchInv

\* What is left of the run is given up, whether the token is gone when the
\* items are read or the source refuses one of them.
LEMMA StepFails ==
  ASSUME FetchInv, FailRemaining, task.pc # "none", TaskOnly, UNCHANGED <<candles, archive>>,
         Run.status \in Active
  PROVE  FetchInv'
<1> DEFINE S == [k \in DOMAIN Run.items |->
                   IF Run.items[k].status \in Open THEN "failed" ELSE Run.items[k].status]
<1>1. /\ TypeInv /\ TaskInv /\ RunsInv
      /\ UNCHANGED <<now, published, token, deaths, candles, archive>> /\ task' = Idle
  BY DEF FetchInv, TaskOnly, worldVars, FailRemaining
<1>2. task.run \in DOMAIN runs
  BY <1>1 DEF TaskInv
<1>3. Rewritten("failed", S)
  BY <1>1, <1>2, FailForm
<1>4. /\ S \in [DOMAIN Run.items -> ItemStatuses] /\ "failed" \in RunStatuses /\ "failed" \notin Active
      /\ Settles("failed", S)
      /\ \A k \in DOMAIN Run.items : /\ S[k] \notin Open
                                     /\ S[k] = "done" => Run.items[k].status = "done"
  <2>1. \A k \in DOMAIN Run.items : Run.items[k] \in ItemType
    BY <1>1, <1>2, StatusesTyped DEF Run
  <2>2. /\ S \in [DOMAIN Run.items -> ItemStatuses]
        /\ \A k \in DOMAIN Run.items : /\ S[k] \notin Open
                                       /\ S[k] = "done" => Run.items[k].status = "done"
    BY <2>1 DEF ItemType, ItemStatuses, Open
  <2> HIDE DEF S
  <2> QED
    BY <2>2 DEF Settles, RunStatuses, Active
<1> HIDE DEF S
<1>5. \A k \in DOMAIN Run.items :
        /\ S[k] \in Open => Run.items[k].kind # "none"
        /\ S[k] = "done" /\ Run.items[k].kind \in Captures
             => archive'[Members[Run.universe][k]].complete
  BY <1>1, <1>2, <1>4 DEF RunsInv, DoneIsRecorded, Captures, Run
<1>6. RunShape' /\ RunsInv'
  BY <1>1, <1>2, <1>3, <1>4, <1>5, RunsChanged
<1>7. TaskInv' /\ task' \in TaskType /\ task'.run = 0
  BY <1>1, IdleInv
<1>8. runs' \in Seq(RunType) /\ Len(runs') = Len(runs)
  BY <1>3 DEF Rewritten
<1>9. TypeInv'
  BY <1>1, <1>6, <1>7, <1>8 DEF TypeInv, Available
<1> QED
  BY <1>6, <1>7, <1>9 DEF FetchInv

LEMMA StepQueuedItems ==
  ASSUME FetchInv, QueuedItems
  PROVE  FetchInv'
<1>1. /\ TypeInv /\ TaskInv /\ RunsInv /\ task.pc = "prepared"
      /\ TaskOnly /\ UNCHANGED <<now, published, token, deaths, candles, archive>>
  BY DEF FetchInv, QueuedItems, At, TaskOnly, worldVars
<1>2. task.run \in DOMAIN runs /\ Run.status \in Active /\ task.attempts = 0 /\ Run = runs[task.run]
  BY <1>1 DEF TaskInv, Run
<1>3. CASE FailRemaining
  BY <1>1, <1>2, <1>3, StepFails
<1>4. CASE ~FailRemaining
  <2> DEFINE Q == {k \in DOMAIN Run.items : Run.items[k].status = "queued"}
  <2>1. UNCHANGED runs /\ task' = [task EXCEPT !.pc = "next", !.queue = Q]
    BY <1>4 DEF QueuedItems
  <2>2. RunShape' /\ RunsInv'
    BY <1>1, <2>1, RunsUnchanged
  <2>3. Q \subseteq DOMAIN Run.items /\ \A k \in Q : Run.items[k].status = "queued"
    OBVIOUS
  <2>4. DOMAIN Run.items \subseteq Nat
    <3>1. Run \in RunType
      BY <1>1, <1>2, StatusesTyped
    <3>2. Run.items \in Seq(ItemType)
      BY <3>1 DEF RunType
    <3> QED
      BY <3>2
  <2> HIDE DEF Q
  <2>5. \A k \in Q : Run.items[k].kind # "none" /\ Run.items[k].status \in Open
    BY <1>1, <1>2, <2>3 DEF TypeInv, RunShape, Open
  <2>6. /\ task' \in TaskType /\ task'.run = task.run /\ task'.pc = "next" /\ task'.queue = Q
        /\ task'.attempts = 0
    BY <1>1, <1>2, <2>1, <2>3, <2>4 DEF TypeInv, TaskType, PCs
  <2>7. TypeInv'
    BY <1>1, <2>1, <2>2, <2>6, QuietTyped DEF TypeInv
  <2>8. Run' = Run
    BY <2>1, <2>6 DEF Run
  <2>9. TaskInv'
    BY <1>2, <2>1, <2>3, <2>5, <2>6, <2>8, IntAssumptions DEF TaskInv, Working
  <2> QED
    BY <2>2, <2>7, <2>9 DEF FetchInv
<1> QED
  BY <1>3, <1>4

LEMMA StepMarkItemFetching ==
  ASSUME FetchInv, MarkItemFetching
  PROVE  FetchInv'
<1> DEFINE S == [StatusesOf(task.run) EXCEPT ![Current] = "fetching"]
<1>1. /\ TypeInv /\ TaskInv /\ RunsInv /\ task.pc = "next" /\ task.queue # {}
      /\ UNCHANGED <<now, published, token, deaths, candles, archive>>
      /\ SetItem(Current, "fetching") /\ task' = [task EXCEPT !.pc = "asked", !.attempts = @ + 1]
  BY DEF FetchInv, MarkItemFetching, At, TaskOnly, worldVars
<1>2. RunShape' /\ RunsInv' /\ Rewritten(Run.status, S)
  BY <1>1, ItemChanged DEF ItemStatuses, Open
<1>3. /\ task.run \in DOMAIN runs /\ Current \in DOMAIN Run.items /\ Run.status \in Active
      /\ Current \in task.queue /\ Run = runs[task.run]
  BY <1>1, SymbolIn, CurrentIn DEF Run
<1>4. /\ StatusesOf(task.run) \in [DOMAIN Run.items -> ItemStatuses]
      /\ \A k \in DOMAIN Run.items : StatusesOf(task.run)[k] = Run.items[k].status
  BY <1>1, <1>3, StatusesTyped DEF StatusesOf
<1>5. S[Current] = "fetching" /\ \A k \in DOMAIN Run.items : k # Current => S[k] = Run.items[k].status
  BY <1>3, <1>4
<1> HIDE DEF S
<1>6. /\ task' \in TaskType /\ task'.run = task.run /\ task'.pc = "asked" /\ task'.queue = task.queue
      /\ task'.attempts = task.attempts + 1
  <2>1. task' = [pc |-> "asked", run |-> task.run, queue |-> task.queue,
                 attempts |-> task.attempts + 1, got |-> task.got]
    BY <1>1, TaskFields
  <2>2. task.attempts + 1 \in Nat /\ "asked" \in PCs
    BY <1>1, TaskFields DEF PCs
  <2> QED
    BY <1>1, <2>1, <2>2, TaskFields DEF TaskType
<1>7. runs' \in Seq(RunType) /\ Len(runs') = Len(runs) /\ DOMAIN runs' = DOMAIN runs
  BY <1>2 DEF Rewritten
<1>8. TypeInv'
  BY <1>1, <1>2, <1>6, <1>7, QuietTyped
<1>9. /\ Run'.status = Run.status /\ DOMAIN Run'.items = DOMAIN Run.items /\ Current' = Current
      /\ \A k \in DOMAIN Run.items : /\ Run'.items[k].status = S[k]
                                     /\ Run'.items[k].kind = Run.items[k].kind
  BY <1>2, <1>6, OnRun
<1>10. \A k \in task.queue : /\ k \in DOMAIN Run.items /\ Run.items[k].kind # "none"
                             /\ k # Current => Run.items[k].status = "queued"
  BY <1>1 DEF TaskInv
<1>11. task'.attempts <= MaxRetries + 1
  BY <1>1, <1>6, IntAssumptions, TaskFields DEF TaskInv
<1>12. TaskInv'
  BY <1>1, <1>3, <1>5, <1>6, <1>7, <1>9, <1>10, <1>11 DEF TaskInv, Working
<1> QED
  BY <1>2, <1>8, <1>12 DEF FetchInv

\* The thread goes on and leaves the runs as they are.
LEMMA StepGoesOn ==
  ASSUME FetchInv, NEW pc \in PCs, NEW got \in SUBSET Int, task.pc # "none",
         UNCHANGED runs, task' = [task EXCEPT !.pc = pc, !.got = got],
         \A i \in Instruments : archive[i].complete => archive'[i].complete
  PROVE  /\ RunShape' /\ RunsInv' /\ task' \in TaskType /\ Run' = Run
         /\ task'.pc = pc /\ task'.run = task.run /\ task'.queue = task.queue
         /\ task'.attempts = task.attempts /\ task'.got = got
         /\ Current' = Current /\ Symbol' = Symbol
<1>1. TypeInv /\ TaskInv /\ RunsInv
  BY DEF FetchInv
<1>2. task' = [pc |-> pc, run |-> task.run, queue |-> task.queue,
               attempts |-> task.attempts, got |-> got]
  BY <1>1, TaskFields
<1>3. task' \in TaskType
  BY <1>1, <1>2, TaskFields DEF TaskType
<1>4. RunShape' /\ RunsInv'
  BY <1>1, RunsUnchanged
<1> QED
  BY <1>2, <1>3, <1>4 DEF Run, Current, Symbol

\* The source has answered.
LEMMA StepAnswered ==
  ASSUME FetchInv, UpsertCandles \/ NoData
  PROVE  FetchInv'
<1> DEFINE g == IF Requested # {} THEN Requested ELSE task.got
<1>1. /\ TypeInv /\ TaskInv /\ RunsInv /\ task.pc = "asked" /\ task.queue # {}
      /\ UNCHANGED <<now, published, token, deaths, archive, runs>>
  BY DEF FetchInv, UpsertCandles, NoData, At, TaskOnly, worldVars, dbVars, TaskInv, Working
<1>2. /\ Symbol \in Instruments /\ task.run \in DOMAIN runs /\ Current \in task.queue
  BY <1>1, SymbolIn, CurrentIn DEF Working
<1>3. Requested \subseteq Available(Symbol) /\ Available(Symbol) \subseteq Nat
  BY FetchAssumption DEF Requested, Available
<1>4. g \in SUBSET Int
  BY <1>1, <1>3, TaskFields
<1>5. task' = [task EXCEPT !.pc = "answered", !.got = g]
  <2>1. \/ task' = [task EXCEPT !.pc = "answered", !.got = Requested] /\ Requested # {}
        \/ task' = [task EXCEPT !.pc = "answered"] /\ Requested = {}
    BY DEF UpsertCandles, NoData, Goto
  <2>2. [task EXCEPT !.pc = "answered"] = [task EXCEPT !.pc = "answered", !.got = task.got]
    BY <1>1, TaskFields
  <2> QED
    BY <2>1, <2>2
<1>6. \A i \in Instruments : archive[i].complete => archive'[i].complete
  BY <1>1
<1> HIDE DEF g
<1>7. /\ RunShape' /\ RunsInv' /\ task' \in TaskType /\ Run' = Run
      /\ task'.pc = "answered" /\ task'.run = task.run /\ task'.queue = task.queue
      /\ task'.attempts = task.attempts
      /\ Current' = Current /\ Symbol' = Symbol
  BY <1>1, <1>4, <1>5, <1>6, StepGoesOn DEF PCs
<1>8. candles' \in [Instruments -> SUBSET Nat] /\ \A i \in Instruments : candles'[i] \subseteq Available(i)
  BY <1>1, <1>2, <1>3 DEF UpsertCandles, NoData, dbVars, TypeInv
<1>9. TypeInv'
  BY <1>1, <1>7, <1>8 DEF TypeInv, Available
<1>10. TaskInv'
  BY <1>1, <1>2, <1>7 DEF TaskInv, Working
<1> QED
  BY <1>7, <1>9, <1>10 DEF FetchInv

LEMMA StepRecordFetchOutcome ==
  ASSUME FetchInv, RecordFetchOutcome
  PROVE  FetchInv'
<1> DEFINE known == archive[Symbol]
           row == IF task.got # {}
                  THEN [complete |-> known.complete \/ Run.items[Current].kind # "incremental_update", retry |-> 0]
                  ELSE IF Stored(Symbol) /\ Run.items[Current].kind # "older_history_backfill"
                  THEN [known EXCEPT !.retry = now + 1]
                  ELSE [complete |-> TRUE, retry |-> 0]
<1>1. /\ TypeInv /\ TaskInv /\ RunsInv /\ task.pc = "answered" /\ task.queue # {}
      /\ UNCHANGED <<now, published, token, deaths, candles, runs>>
      /\ task' = [task EXCEPT !.pc = "recorded"]
  BY DEF FetchInv, RecordFetchOutcome, At, Goto, TaskOnly, worldVars, TaskInv, Working
<1>2. /\ Symbol \in Instruments /\ task.run \in DOMAIN runs /\ Current \in task.queue
  BY <1>1, SymbolIn, CurrentIn DEF Working
<1>3. archive' = [archive EXCEPT ![Symbol] = row]
  BY DEF RecordFetchOutcome
<1>4. known \in [complete : BOOLEAN, retry : Nat] /\ now + 1 \in Nat
  BY <1>1, <1>2 DEF TypeInv
<1>5. /\ row \in [complete : BOOLEAN, retry : Nat] /\ (known.complete => row.complete)
      /\ task.got # {} /\ Run.items[Current].kind # "incremental_update" => row.complete
  BY <1>4
<1> HIDE DEF row, known
<1>6. /\ archive' \in [Instruments -> [complete : BOOLEAN, retry : Nat]]
      /\ archive'[Symbol] = row /\ \A i \in Instruments : i # Symbol => archive'[i] = archive[i]
  BY <1>1, <1>2, <1>3, <1>5 DEF TypeInv
<1>7. \A i \in Instruments : archive[i].complete => archive'[i].complete
  BY <1>5, <1>6 DEF known
<1>8. task' = [task EXCEPT !.pc = "recorded", !.got = task.got] /\ task.got \in SUBSET Int
  BY <1>1, TaskFields
<1>9. /\ RunShape' /\ RunsInv' /\ task' \in TaskType /\ Run' = Run
      /\ task'.pc = "recorded" /\ task'.run = task.run /\ task'.queue = task.queue
      /\ task'.attempts = task.attempts /\ task'.got = task.got
      /\ Current' = Current /\ Symbol' = Symbol
  BY <1>1, <1>7, <1>8, StepGoesOn DEF PCs
<1>10. TypeInv'
  BY <1>1, <1>6, <1>9 DEF TypeInv, Available
<1>11. task.got # {} /\ Run.items[Current].kind \in {"initial_capture", "older_history_backfill"}
         => archive'[Symbol].complete
  BY <1>5, <1>6
<1>12. TaskInv'
  BY <1>1, <1>2, <1>9, <1>11 DEF TaskInv, Working
<1> QED
  BY <1>9, <1>10, <1>12 DEF FetchInv

\* The item in hand is settled, or the source has refused it: whatever it
\* becomes, it is no longer the thread's concern whether it is open.
LEMMA StepItemDone ==
  ASSUME FetchInv, NEW x \in ItemStatuses, NEW pc \in {"settle", "refused"},
         task.pc \in {"asked", "answered", "recorded"},
         SetItem(Current, x), task' = [task EXCEPT !.pc = pc],
         UNCHANGED <<now, published, token, candles, archive>>, deaths' \in 0 .. MaxDeaths,
         x = "done" /\ Run.items[Current].kind \in Captures => archive[Symbol].complete
  PROVE  FetchInv'
<1> DEFINE S == [StatusesOf(task.run) EXCEPT ![Current] = x]
<1>1. /\ TypeInv /\ TaskInv /\ RunsInv /\ task.queue # {} /\ task.pc \in Working
  BY DEF FetchInv, TaskInv, Working
<1>2. RunShape' /\ RunsInv' /\ Rewritten(Run.status, S)
  BY <1>1, ItemChanged
<1>3. /\ task.run \in DOMAIN runs /\ Current \in DOMAIN Run.items /\ Run.status \in Active
      /\ Current \in task.queue /\ Run = runs[task.run]
  BY <1>1, SymbolIn, CurrentIn DEF Run
<1>4. /\ StatusesOf(task.run) \in [DOMAIN Run.items -> ItemStatuses]
      /\ \A k \in DOMAIN Run.items : StatusesOf(task.run)[k] = Run.items[k].status
  BY <1>1, <1>3, StatusesTyped DEF StatusesOf
<1>5. \A k \in DOMAIN Run.items : k # Current => S[k] = Run.items[k].status
  BY <1>3, <1>4
<1> HIDE DEF S
<1>6. /\ task' \in TaskType /\ task'.run = task.run /\ task'.pc = pc /\ task'.queue = task.queue
      /\ task'.attempts = task.attempts
  <2>1. task' = [pc |-> pc, run |-> task.run, queue |-> task.queue,
                 attempts |-> task.attempts, got |-> task.got]
    BY <1>1, TaskFields
  <2>2. pc \in PCs
    BY DEF PCs
  <2> QED
    BY <1>1, <2>1, <2>2, TaskFields DEF TaskType
<1>7. runs' \in Seq(RunType) /\ Len(runs') = Len(runs) /\ DOMAIN runs' = DOMAIN runs
  BY <1>2 DEF Rewritten
<1>8. TypeInv'
  BY <1>1, <1>2, <1>6, <1>7 DEF TypeInv, Available
<1>9. /\ Run'.status = Run.status /\ DOMAIN Run'.items = DOMAIN Run.items /\ Current' = Current
      /\ \A k \in DOMAIN Run.items : /\ Run'.items[k].status = S[k]
                                     /\ Run'.items[k].kind = Run.items[k].kind
  BY <1>2, <1>6, OnRun
<1>10. \A k \in task.queue : /\ k \in DOMAIN Run.items /\ Run.items[k].kind # "none"
                             /\ k # Current => Run.items[k].status = "queued"
  BY <1>1 DEF TaskInv
<1>11. task'.attempts <= MaxRetries + 1
  BY <1>1, <1>6 DEF TaskInv
<1>12. TaskInv'
  BY <1>1, <1>3, <1>5, <1>6, <1>7, <1>9, <1>10, <1>11 DEF TaskInv, Working
<1> QED
  BY <1>2, <1>8, <1>12 DEF FetchInv

LEMMA StepRetryItem ==
  ASSUME FetchInv, RetryItem
  PROVE  FetchInv'
<1>1. /\ TypeInv /\ TaskInv /\ RunsInv /\ task.pc = "asked" /\ task.attempts <= MaxRetries
      /\ task.queue # {}
      /\ UNCHANGED <<now, published, token, deaths, candles, archive, runs>>
      /\ task' = [task EXCEPT !.pc = "next"]
  BY DEF FetchInv, RetryItem, At, Goto, TaskOnly, worldVars, dbVars, TaskInv, Working
<1>2. task.run \in DOMAIN runs /\ Current \in task.queue
  BY <1>1, SymbolIn, CurrentIn DEF Working
<1>3. task' = [task EXCEPT !.pc = "next", !.got = task.got] /\ task.got \in SUBSET Int
  BY <1>1, TaskFields
<1>4. /\ RunShape' /\ RunsInv' /\ task' \in TaskType /\ Run' = Run
      /\ task'.pc = "next" /\ task'.run = task.run /\ task'.queue = task.queue
      /\ task'.attempts = task.attempts
      /\ Current' = Current /\ Symbol' = Symbol
  BY <1>1, <1>3, StepGoesOn DEF PCs
<1>5. TypeInv'
  BY <1>1, <1>4 DEF TypeInv, Available
<1>6. Run.items[Current].status \in Open
  BY <1>1, <1>2 DEF TaskInv, Working, Open
<1>7. TaskInv'
  BY <1>1, <1>2, <1>4, <1>6 DEF TaskInv, Working
<1> QED
  BY <1>4, <1>5, <1>7 DEF FetchInv

\* Items counted by status: none, and all of a run.
LEMMA CountNone ==
  ASSUME TypeInv, NEW r \in DOMAIN runs, NEW X
  PROVE  /\ CountOf(r, X) = 0 <=> \A k \in DOMAIN runs[r].items : StatusesOf(r)[k] \notin X
         /\ CountOf(r, X) > 0 <=> \E k \in DOMAIN runs[r].items : StatusesOf(r)[k] \in X
<1> DEFINE D == {k \in DOMAIN runs[r].items : runs[r].items[k].status \in X}
<1>1. runs[r].items \in Seq(ItemType)
  BY StatusesTyped DEF RunType
<1>2. DOMAIN runs[r].items = 1 .. Len(runs[r].items) /\ Len(runs[r].items) \in Nat
  BY <1>1
<1>3. IsFiniteSet(D)
  <2>1. IsFiniteSet(DOMAIN runs[r].items)
    BY <1>2, FS_Interval
  <2>2. D \in SUBSET DOMAIN runs[r].items
    OBVIOUS
  <2> HIDE DEF D
  <2> QED
    BY <2>1, <2>2, FS_Subset
<1>4. CountOf(r, X) = Cardinality(D)
  BY DEF CountOf
<1>5. Cardinality(D) \in Nat /\ (Cardinality(D) = 0 <=> D = {})
  BY <1>3, FS_CardinalityType, FS_EmptySet
<1>6. \A k \in DOMAIN runs[r].items : StatusesOf(r)[k] = runs[r].items[k].status
  BY DEF StatusesOf
<1>7. D = {} <=> \A k \in DOMAIN runs[r].items : StatusesOf(r)[k] \notin X
  BY <1>6
<1> HIDE DEF D
<1>8. CountOf(r, X) > 0 <=> ~(CountOf(r, X) = 0)
  BY <1>4, <1>5
<1> QED
  BY <1>4, <1>5, <1>7, <1>8

LEMMA CountAll ==
  ASSUME TypeInv, NEW r \in DOMAIN runs, NEW X,
         \A k \in DOMAIN runs[r].items : StatusesOf(r)[k] \in X
  PROVE  CountOf(r, X) = Len(runs[r].items)
<1>1. runs[r].items \in Seq(ItemType)
  BY StatusesTyped DEF RunType
<1>2. DOMAIN runs[r].items = 1 .. Len(runs[r].items) /\ Len(runs[r].items) \in Nat
  BY <1>1
<1>3. {k \in DOMAIN runs[r].items : runs[r].items[k].status \in X} = DOMAIN runs[r].items
  BY DEF StatusesOf
<1>4. CountOf(r, X) = Cardinality(1 .. Len(runs[r].items))
  BY <1>2, <1>3 DEF CountOf
<1>5. Cardinality(1 .. Len(runs[r].items)) = Len(runs[r].items)
  BY <1>2, FS_Interval
<1> QED
  BY <1>4, <1>5

\* What finish_run_if_complete makes of the run: nothing while an item is open,
\* and otherwise an ended run that tells what happened.
LEMMA FinishedSettles ==
  ASSUME TypeInv, RunsInv, task.run \in DOMAIN runs
  PROVE  /\ FinishedStatus \in RunStatuses
         /\ FinishedStatus \in Active => Run.status \in Active
         /\ (\E k \in DOMAIN Run.items : Run.items[k].status \in Open) => FinishedStatus = Run.status
         /\ Settles(FinishedStatus, StatusesOf(task.run))
<1> DEFINE S == StatusesOf(task.run)
<1>1. /\ Run = runs[task.run] /\ Run.status \in RunStatuses /\ Settles(Run.status, S)
      /\ S \in [DOMAIN Run.items -> ItemStatuses]
      /\ \A k \in DOMAIN Run.items : S[k] = Run.items[k].status
  BY StatusesTyped DEF RunsInv, Run, StatusesOf
<1> HIDE DEF S
<1>2. \A X : /\ CountOf(task.run, X) = 0 <=> \A k \in DOMAIN Run.items : S[k] \notin X
             /\ CountOf(task.run, X) > 0 <=> \E k \in DOMAIN Run.items : S[k] \in X
  BY CountNone DEF S, Run
<1>3. CASE \E k \in DOMAIN Run.items : S[k] \in Open
  <2>1. CountOf(task.run, Open) > 0
    BY <1>2, <1>3
  <2>2. FinishedStatus = Run.status
    BY <2>1 DEF FinishedStatus
  <2> QED
    BY <1>1, <2>2 DEF S
<1>4. CASE \A k \in DOMAIN Run.items : S[k] \notin Open
  <2>1. ~(CountOf(task.run, Open) > 0)
    BY <1>2, <1>4
  <2>2. CASE CountOf(task.run, Succeeded) = 0 /\ CountOf(task.run, {"failed"}) > 0
    <3>1. FinishedStatus = "failed"
      BY <2>1, <2>2 DEF FinishedStatus
    <3> QED
      BY <1>1, <1>4, <3>1 DEF Settles, RunStatuses, Active, S
  <2>3. CASE /\ ~(CountOf(task.run, Succeeded) = 0 /\ CountOf(task.run, {"failed"}) > 0)
             /\ CountOf(task.run, {"failed", "skipped_unmapped"}) > 0
    <3>1. FinishedStatus = "completed_with_errors"
      BY <2>1, <2>3 DEF FinishedStatus
    <3>2. (\A k \in DOMAIN S : S[k] \notin Succeeded) => \A k \in DOMAIN S : S[k] # "failed"
      BY <1>1, <1>2, <2>3
    <3> QED
      BY <1>1, <1>4, <3>1, <3>2 DEF Settles, RunStatuses, Active, S
  <2>4. CASE /\ ~(CountOf(task.run, Succeeded) = 0 /\ CountOf(task.run, {"failed"}) > 0)
             /\ ~(CountOf(task.run, {"failed", "skipped_unmapped"}) > 0)
    <3>1. FinishedStatus = "completed"
      BY <2>1, <2>4 DEF FinishedStatus
    <3>2. \A k \in DOMAIN S : S[k] \notin {"failed", "skipped_unmapped"}
      BY <1>1, <1>2, <2>4
    <3>3. \A k \in DOMAIN S : S[k] \in Succeeded
      BY <1>1, <1>4, <3>2 DEF ItemStatuses
    <3> QED
      BY <1>1, <1>4, <3>1, <3>3 DEF Settles, RunStatuses, Active, S
  <2> QED
    BY <2>2, <2>3, <2>4
<1> QED
  BY <1>3, <1>4

LEMMA StepFinishRunIfComplete ==
  ASSUME FetchInv, FinishRunIfComplete
  PROVE  FetchInv'
<1> DEFINE S == StatusesOf(task.run)
<1>1. /\ TypeInv /\ TaskInv /\ RunsInv
      /\ UNCHANGED <<now, published, token, deaths, candles, archive>>
      /\ runs' = [runs EXCEPT ![task.run].status = FinishedStatus]
      /\ task.pc \in {"settle", "next"}
  BY DEF FetchInv, FinishRunIfComplete, TaskOnly, worldVars, At
<1>2. task.run \in DOMAIN runs /\ Run = runs[task.run]
  BY <1>1 DEF TaskInv, Run
<1>3. /\ FinishedStatus \in RunStatuses
      /\ FinishedStatus \in Active => Run.status \in Active
      /\ (\E k \in DOMAIN Run.items : Run.items[k].status \in Open) => FinishedStatus = Run.status
      /\ Settles(FinishedStatus, S)
  BY <1>1, <1>2, FinishedSettles
<1>4. Rewritten(FinishedStatus, S)
  BY <1>1, <1>2, <1>3, StatusForm
<1>5. /\ S \in [DOMAIN Run.items -> ItemStatuses]
      /\ \A k \in DOMAIN Run.items : S[k] = Run.items[k].status
  BY <1>1, <1>2, StatusesTyped DEF StatusesOf
<1> HIDE DEF S
<1>6. \A k \in DOMAIN Run.items :
        /\ S[k] \in Open => Run.items[k].kind # "none"
        /\ S[k] = "done" /\ Run.items[k].kind \in Captures
             => archive'[Members[Run.universe][k]].complete
  BY <1>1, <1>2, <1>5 DEF TypeInv, RunShape, RunsInv, DoneIsRecorded, Captures
<1>7. RunShape' /\ RunsInv'
  BY <1>1, <1>2, <1>3, <1>4, <1>5, <1>6, RunsChanged
<1>8. runs' \in Seq(RunType) /\ Len(runs') = Len(runs) /\ DOMAIN runs' = DOMAIN runs
  BY <1>4 DEF Rewritten
<1>9. CASE task' = Idle
  <2>1. TaskInv' /\ task' \in TaskType /\ task'.run = 0
    BY <1>9, IdleInv
  <2>2. TypeInv'
    BY <1>1, <1>7, <1>8, <2>1 DEF TypeInv, Available
  <2> QED
    BY <1>7, <2>1, <2>2 DEF FetchInv
<1>10. CASE task' # Idle
  <2> DEFINE Q == task.queue \ {Current}
  <2>1. task.pc = "settle" /\ task' = [task EXCEPT !.pc = "next", !.queue = Q, !.attempts = 0, !.got = {}]
    BY <1>10 DEF FinishRunIfComplete, At
  <2>2. /\ task.queue # {} /\ Q \subseteq DOMAIN Run.items /\ Q \in SUBSET Nat
        /\ \A k \in Q : Run.items[k].kind # "none" /\ Run.items[k].status = "queued"
        /\ Run.status \in Active
    BY <1>1, <2>1, TaskFields DEF TaskInv, Working
  <2> HIDE DEF Q
  <2>3. task' = [pc |-> "next", run |-> task.run, queue |-> Q, attempts |-> 0, got |-> {}]
    BY <1>1, <2>1, TaskFields
  <2>4. /\ task' \in TaskType /\ task'.pc = "next" /\ task'.run = task.run /\ task'.queue = Q
        /\ task'.attempts = 0
    BY <1>1, <2>2, <2>3, TaskFields DEF TaskType, PCs
  <2>5. TypeInv'
    BY <1>1, <1>7, <1>8, <2>4, QuietTyped
  <2>6. /\ Run'.status = FinishedStatus /\ DOMAIN Run'.items = DOMAIN Run.items
        /\ \A k \in DOMAIN Run.items : /\ Run'.items[k].status = S[k]
                                       /\ Run'.items[k].kind = Run.items[k].kind
    BY <1>4, <2>4, OnRun
  <2>7. Q # {} => FinishedStatus = Run.status
    BY <1>3, <2>2 DEF Open
  <2>8. \A k \in Q : Run'.items[k].kind # "none" /\ Run'.items[k].status = "queued"
    BY <1>5, <2>2, <2>6
  <2>9. TaskInv'
    BY <1>2, <1>8, <2>2, <2>4, <2>6, <2>7, <2>8, IntAssumptions DEF TaskInv, Working, Open
  <2> QED
    BY <1>7, <2>5, <2>9 DEF FetchInv
<1> QED
  BY <1>9, <1>10

LEMMA StepThread ==
  ASSUME FetchInv, TaskStep \/ WriteFails
  PROVE  FetchInv'
<1>1. TypeInv /\ TaskInv /\ RunsInv
  BY DEF FetchInv
<1>2. CASE MarkItem
  <2> DEFINE x == IF task.got # {} THEN "done" ELSE "skipped_no_new_data"
  <2>1. /\ task.pc = "recorded" /\ SetItem(Current, x) /\ task' = [task EXCEPT !.pc = "settle"]
        /\ UNCHANGED <<now, published, token, candles, archive>> /\ deaths' \in 0 .. MaxDeaths
    BY <1>1, <1>2 DEF MarkItem, At, Goto, TaskOnly, worldVars, TypeInv
  <2>2. x \in ItemStatuses
    BY DEF ItemStatuses, Succeeded
  <2>3. x = "done" /\ Run.items[Current].kind \in Captures => archive[Symbol].complete
    BY <1>1, <2>1 DEF TaskInv, Captures
  <2> HIDE DEF x
  <2> QED
    BY <2>1, <2>2, <2>3, StepItemDone
<1>3. CASE MarkItemFailed
  <2>1. PICK pc \in {"settle", "refused"} : task' = [task EXCEPT !.pc = pc]
    BY <1>3 DEF MarkItemFailed, Goto
  <2>2. /\ task.pc = "asked" /\ SetItem(Current, "failed")
        /\ UNCHANGED <<now, published, token, candles, archive>> /\ deaths' \in 0 .. MaxDeaths
    BY <1>1, <1>3 DEF MarkItemFailed, At, TaskOnly, worldVars, TypeInv
  <2> QED
    BY <2>1, <2>2, StepItemDone DEF ItemStatuses
<1>4. CASE WriteFails
  <2>1. /\ task.pc \in {"answered", "recorded"} /\ SetItem(Current, "failed")
        /\ task' = [task EXCEPT !.pc = "settle"]
        /\ UNCHANGED <<now, published, token, candles, archive>> /\ deaths' \in 0 .. MaxDeaths
    BY <1>1, <1>4, IntAssumptions DEF WriteFails, Goto, worldVars, TypeInv
  <2> QED
    BY <2>1, StepItemDone DEF ItemStatuses
<1>5. CASE FailRefused
  BY <1>1, <1>5, StepFails, SymbolIn DEF FailRefused, At, TaskInv, Working
<1> QED
  BY <1>2, <1>3, <1>4, <1>5, StepPrepareRun, StepQueuedItems, StepMarkItemFetching, StepAnswered,
     StepRecordFetchOutcome, StepRetryItem, StepFinishRunIfComplete DEF TaskStep

-----------------------------------------------------------------------------
(* Requests, deaths and the world                                            *)

LEMMA StepWorld ==
  ASSUME FetchInv, PruneCandlesBefore \/ Tick \/ Publish \/ TokenChanges \/ UNCHANGED vars
  PROVE  FetchInv'
<1>1. TypeInv /\ TaskInv /\ RunsInv /\ UNCHANGED <<archive, runs, task, deaths>>
  BY DEF FetchInv, PruneCandlesBefore, Tick, Publish, TokenChanges, vars, dbVars
<1>2. RunShape' /\ RunsInv'
  BY <1>1, RunsUnchanged
<1>3. TaskInv'
  BY <1>1 DEF TaskInv, Run, Current, Symbol
<1>4. now' \in Nat /\ published' \in Int /\ token' \in BOOLEAN /\ published' >= published
  <2>1. token' \in BOOLEAN
    <3>1. token \in BOOLEAN /\ (token' = token \/ token' = ~token)
      BY <1>1 DEF TypeInv, PruneCandlesBefore, Tick, Publish, TokenChanges, vars, worldVars
    <3> QED
      BY <3>1
  <2>2. /\ now \in Nat /\ published \in Int /\ now' \in {now, now + 1}
        /\ published' \in {published, published + 1}
    BY <1>1 DEF TypeInv, PruneCandlesBefore, Tick, Publish, TokenChanges, vars, worldVars
  <2>3. now' \in Nat /\ published' \in Int /\ published' >= published
    BY <2>2
  <2> QED
    BY <2>1, <2>3
<1>5. \A i \in Instruments : Available(i) \subseteq Available(i)'
  <2>1. published \in Int /\ published' \in Int /\ published' >= published
    BY <1>1, <1>4 DEF TypeInv
  <2>2. \A d \in Sessions : d <= published => d <= published'
    BY <2>1, FetchAssumption
  <2> QED
    BY <2>2 DEF Available
<1>6. candles' \in [Instruments -> SUBSET Nat] /\ \A i \in Instruments : candles'[i] \subseteq candles[i]
  <2>1. CASE PruneCandlesBefore
    BY <1>1, <2>1 DEF TypeInv, PruneCandlesBefore
  <2>2. CASE UNCHANGED candles
    BY <1>1, <2>2 DEF TypeInv
  <2> QED
    BY <2>1, <2>2 DEF Tick, Publish, TokenChanges, vars, dbVars
<1>7. TypeInv'
  BY <1>1, <1>2, <1>4, <1>5, <1>6 DEF TypeInv
<1> QED
  BY <1>2, <1>3, <1>7 DEF FetchInv

LEMMA StepDie ==
  ASSUME FetchInv, Die
  PROVE  FetchInv'
<1>1. /\ TypeInv /\ TaskInv /\ RunsInv /\ task' = Idle
      /\ UNCHANGED <<now, published, token, candles, archive, runs>> /\ deaths' \in 0 .. MaxDeaths
  BY IntAssumptions DEF FetchInv, Die, worldVars, dbVars, TypeInv
<1>2. RunShape' /\ RunsInv'
  BY <1>1, RunsUnchanged
<1>3. TaskInv' /\ task' \in TaskType /\ task'.run = 0
  BY <1>1, IdleInv
<1>4. TypeInv'
  BY <1>1, <1>2, <1>3 DEF TypeInv, Available
<1> QED
  BY <1>2, <1>3, <1>4 DEF FetchInv

\* A thread is started on a run in progress, unless one is at work.
LEMMA Started ==
  ASSUME TypeInv, TaskInv, NEW r \in DOMAIN runs', DOMAIN runs \subseteq DOMAIN runs',
         \A q \in DOMAIN runs : runs'[q] = runs[q],
         UNCHANGED archive, StartTask(r), runs'[r].status \in Active, r \in Nat
  PROVE  TaskInv' /\ task' \in TaskType /\ task'.run \in {r, task.run}
<1>1. CASE task.pc = "none"
  <2>1. task' = [pc |-> "created", run |-> r, queue |-> {}, attempts |-> 0, got |-> {}]
    BY <1>1 DEF StartTask, Idle
  <2>2. task' \in TaskType /\ task'.run = r /\ task'.pc = "created" /\ task'.attempts = 0
    BY <2>1 DEF TaskType, PCs
  <2>3. TaskInv'
    BY <2>2, IntAssumptions DEF TaskInv, Working, Run
  <2> QED
    BY <2>2, <2>3
<1>2. CASE task.pc # "none"
  <2>1. task' = task /\ task.run \in DOMAIN runs
    BY <1>2 DEF StartTask, TaskInv
  <2>2. Run' = Run /\ Current' = Current /\ Symbol' = Symbol
    BY <2>1 DEF Run, Current, Symbol
  <2>3. TaskInv'
    BY <2>1, <2>2 DEF TaskInv
  <2> QED
    BY <2>1, <2>3 DEF TypeInv
<1> QED
  BY <1>1, <1>2

LEMMA StepStartOrResume ==
  ASSUME FetchInv, NEW u \in Universes, StartOrResume(u)
  PROVE  FetchInv'
<1>1. /\ TypeInv /\ TaskInv /\ RunsInv
      /\ UNCHANGED <<now, published, token, deaths, candles, archive>>
  BY DEF FetchInv, StartOrResume, worldVars
<1>2. runs \in Seq(RunType) /\ DOMAIN runs = 1 .. Len(runs) /\ Len(runs) \in Nat
  BY <1>1 DEF TypeInv
<1>3. CASE ActiveRuns(u) # {}
  <2> DEFINE r == Max(ActiveRuns(u))
  <2>1. ActiveRuns(u) \subseteq DOMAIN runs /\ \A q \in ActiveRuns(u) : runs[q].status \in Active
    BY DEF ActiveRuns, RunsOf
  <2>2. PICK m \in ActiveRuns(u) : \A q \in ActiveRuns(u) : q <= m
    <3>1. ActiveRuns(u) \in SUBSET Nat /\ \A q \in ActiveRuns(u) : q <= Len(runs)
      BY <1>2, <2>1
    <3> QED
      BY <1>2, <1>3, <3>1, GreatestNatural
  <2>3. r \in ActiveRuns(u)
    <3>1. \A q \in ActiveRuns(u) : m >= q
      BY <1>2, <2>1, <2>2
    <3> QED
      BY <3>1 DEF Max
  <2>4. StartTask(r) /\ UNCHANGED runs
    BY <1>3 DEF StartOrResume
  <2> HIDE DEF r
  <2>5. TaskInv' /\ task' \in TaskType /\ task'.run \in {r, task.run}
    BY <1>1, <1>2, <2>1, <2>3, <2>4, Started
  <2>6. RunShape' /\ RunsInv'
    BY <1>1, <2>4, RunsUnchanged
  <2>7. task'.run \in 0 .. Len(runs')
    BY <1>1, <1>2, <2>1, <2>3, <2>4, <2>5 DEF TypeInv
  <2>8. TypeInv'
    BY <1>1, <2>4, <2>5, <2>6, <2>7 DEF TypeInv, Available
  <2> QED
    BY <2>5, <2>6, <2>8 DEF FetchInv
<1>4. CASE ActiveRuns(u) = {}
  <2> DEFINE n == CreateRun(u)
             r == Len(runs) + 1
  <2>1. task.pc = "none" /\ runs' = Append(runs, n) /\ StartTask(r)
    BY <1>4 DEF StartOrResume
  <2>2. /\ n \in RunType /\ n.universe = u /\ n.status = "queued"
        /\ DOMAIN n.items = DOMAIN Members[u]
        /\ \A k \in DOMAIN n.items : /\ n.items[k].status # "done"
                                     /\ n.items[k].status \in Open => n.items[k].kind # "none"
                                     /\ n.items[k].kind # "none" => Members[u][k] \in Instruments
    BY <1>1, CreateRunTyped
  <2> HIDE DEF n
  <2>3. /\ runs' \in Seq(RunType) /\ Len(runs') = r /\ DOMAIN runs' = (DOMAIN runs) \cup {r}
        /\ r \in Nat /\ r \notin DOMAIN runs /\ runs'[r] = n
        /\ \A q \in DOMAIN runs : runs'[q] = runs[q]
    BY <1>2, <2>1, <2>2
  <2> HIDE DEF r
  <2>4. TaskInv' /\ task' \in TaskType /\ task'.run \in {r, task.run}
    BY <1>1, <2>1, <2>2, <2>3, Started DEF Active
  <2>5. RunShape'
    BY <1>1, <2>2, <2>3 DEF TypeInv, RunShape
  <2>6. OneActiveRun'
    <3>1. \A q \in DOMAIN runs : runs[q].universe = u => runs[q].status \notin Active
      BY <1>4 DEF ActiveRuns, RunsOf
    <3> QED
      BY <1>1, <2>2, <2>3, <3>1 DEF RunsInv, OneActiveRun
  <2>7. \A q \in DOMAIN runs' : Settles(runs[q].status, StatusesOf(q))'
    <3> SUFFICES ASSUME NEW q \in DOMAIN runs' PROVE Settles(runs'[q].status, StatusesOf(q)')
      BY DEF Settles
    <3>1. CASE q = r
      BY <2>2, <2>3, <3>1, ActiveSettles DEF Active
    <3>2. CASE q # r
      <4>1. q \in DOMAIN runs /\ runs'[q] = runs[q] /\ StatusesOf(q)' = StatusesOf(q)
        BY <2>3, <3>2 DEF StatusesOf
      <4> QED
        BY <1>1, <4>1 DEF RunsInv
    <3> QED
      BY <3>1, <3>2
  <2>8. DoneIsRecorded'
    BY <1>1, <2>2, <2>3 DEF RunsInv, DoneIsRecorded
  <2>9. task'.run \in 0 .. Len(runs')
    BY <1>1, <1>2, <2>3, <2>4 DEF TypeInv, r
  <2>10. TypeInv'
    BY <1>1, <2>3, <2>4, <2>5, <2>9 DEF TypeInv, Available
  <2> QED
    BY <2>4, <2>6, <2>7, <2>8, <2>10 DEF FetchInv, RunsInv
<1> QED
  BY <1>3, <1>4

-----------------------------------------------------------------------------
(* The theorem                                                               *)

LEMMA InitFetchInv == Init => FetchInv
<1> SUFFICES ASSUME Init PROVE FetchInv
  OBVIOUS
<1>1. /\ now \in Nat /\ published \in Int /\ token \in BOOLEAN /\ deaths \in 0 .. MaxDeaths
      /\ candles \in [Instruments -> SUBSET Nat] /\ \A i \in Instruments : candles[i] = {}
      /\ archive \in [Instruments -> [complete : BOOLEAN, retry : Nat]]
  BY IntAssumptions DEF Init
<1>2. runs \in Seq(RunType) /\ DOMAIN runs = {} /\ Len(runs) = 0
  BY DEF Init
<1>3. task \in TaskType /\ task.run = 0 /\ task.pc = "none" /\ task.attempts = 0
  BY DEF Init, Idle, TaskType, PCs
<1>4. TypeInv
  BY <1>1, <1>2, <1>3 DEF TypeInv, RunShape
<1>5. TaskInv
  BY <1>3, IntAssumptions DEF TaskInv, Working
<1>6. RunsInv
  BY <1>2 DEF RunsInv, OneActiveRun, DoneIsRecorded
<1> QED
  BY <1>4, <1>5, <1>6 DEF FetchInv

LEMMA StepFetchInv == FetchInv /\ [Next]_vars => FetchInv'
<1> SUFFICES ASSUME FetchInv, [Next]_vars PROVE FetchInv'
  OBVIOUS
<1> QED
  BY StepThread, StepWorld, StepDie, StepStartOrResume DEF Next

\* What the runs say is what happened to their items.
LEMMA Settled == FetchInv => RunsSettled
<1> SUFFICES ASSUME FetchInv PROVE RunsSettled
  OBVIOUS
<1>1. TypeInv /\ TaskInv /\ RunsInv
  BY DEF FetchInv
<1>2. \A r \in DOMAIN runs : /\ Settles(runs[r].status, StatusesOf(r))
                             /\ DOMAIN StatusesOf(r) = DOMAIN runs[r].items
                             /\ runs[r] \in RunType
                             /\ \A k \in DOMAIN runs[r].items : runs[r].items[k] \in ItemType
  BY <1>1, StatusesTyped DEF RunsInv, StatusesOf
<1>3. EndedRunsSettled
  BY <1>1, <1>2, CountNone DEF EndedRunsSettled, Settles
<1>4. CompletedMeansSucceeded
  <2> SUFFICES ASSUME NEW r \in DOMAIN runs
               PROVE  /\ runs[r].status = "completed" => CountOf(r, Succeeded) = Len(runs[r].items)
                      /\ runs[r].status = "completed_with_errors" /\ CountOf(r, Succeeded) = 0
                           => CountOf(r, {"failed"}) = 0
    BY DEF CompletedMeansSucceeded
  <2>1. CASE runs[r].status = "completed"
    BY <1>1, <1>2, <2>1, CountAll DEF Settles
  <2>2. CASE runs[r].status = "completed_with_errors" /\ CountOf(r, Succeeded) = 0
    <3>1. \A k \in DOMAIN runs[r].items : StatusesOf(r)[k] \notin Succeeded
      BY <1>1, <2>2, CountNone
    <3>2. \A k \in DOMAIN runs[r].items : StatusesOf(r)[k] \notin {"failed"}
      BY <1>2, <2>2, <3>1 DEF Settles
    <3> QED
      BY <1>1, <2>2, <3>2, CountNone
  <2> QED
    BY <2>1, <2>2
<1>5. TypeOK
  <2>1. \A r \in DOMAIN runs :
          /\ runs[r].universe \in Universes
          /\ runs[r].status \in Active \cup {"failed", "completed", "completed_with_errors"}
          /\ DOMAIN runs[r].items = DOMAIN Members[runs[r].universe]
          /\ \A k \in DOMAIN runs[r].items :
               runs[r].items[k].status \in ItemStatuses /\ runs[r].items[k].kind \in Kinds
    BY <1>1, <1>2 DEF TypeInv, RunShape, RunType, ItemType, RunStatuses
  <2>2. candles \in [Instruments -> SUBSET Int]
    BY <1>1 DEF TypeInv
  <2>3. task.run \in 0 .. Len(runs) /\ task.attempts \in 0 .. MaxRetries + 1
    BY <1>1, TaskFields, IntAssumptions DEF TypeInv, TaskInv
  <2> QED
    BY <1>1, <2>1, <2>2, <2>3 DEF TypeOK, TypeInv
<1> QED
  BY <1>1, <1>3, <1>4, <1>5 DEF RunsSettled, RunsInv

\* Whatever interleaves, dies, is resumed or purged, a universe has one run in
\* progress at most, an ended run has no item left open, completed means that
\* its constituents succeeded, and a capture reported done is on record.
THEOREM Settlement == Spec => []RunsSettled
<1>1. Init => FetchInv
  BY InitFetchInv
<1>2. FetchInv /\ [Next]_vars => FetchInv'
  BY StepFetchInv
<1>3. FetchInv => RunsSettled
  BY Settled
<1> QED
  BY <1>1, <1>2, <1>3, PTL DEF Spec

-----------------------------------------------------------------------------
(* What the steps do to the requests and to the candles                      *)

\* The runs stay what they are but for their statuses and those of their items,
\* none of which is passed over as up to date that was not.
Quiet ==
  /\ DOMAIN runs' = DOMAIN runs
  /\ \A r \in DOMAIN runs :
       /\ runs'[r].universe = runs[r].universe /\ runs'[r].window = runs[r].window
       /\ DOMAIN runs'[r].items = DOMAIN runs[r].items
       /\ \A k \in DOMAIN runs[r].items :
            /\ runs'[r].items[k].kind = runs[r].items[k].kind
            /\ runs'[r].items[k].from = runs[r].items[k].from
            /\ runs'[r].items[k].to = runs[r].items[k].to
            /\ runs'[r].items[k].status = "skipped_up_to_date"
                 => runs[r].items[k].status = "skipped_up_to_date"

\* Only a new run asks for more.
Creates(u) == runs' = Append(runs, CreateRun(u)) /\ UNCHANGED <<now, published, candles, archive>>

LEMMA QuietRewrite ==
  ASSUME task.run \in DOMAIN runs, NEW st, NEW S, Rewritten(st, S),
         \A k \in DOMAIN Run.items :
           S[k] = "skipped_up_to_date" => Run.items[k].status = "skipped_up_to_date"
  PROVE  Quiet
BY DEF Quiet, Rewritten, Run

LEMMA QuietItem ==
  ASSUME TypeInv, TaskInv, task.pc \in Working \cup {"next"}, task.queue # {},
         NEW x \in ItemStatuses \ {"skipped_up_to_date"}, SetItem(Current, x)
  PROVE  Quiet
<1> DEFINE S == [StatusesOf(task.run) EXCEPT ![Current] = x]
<1>1. task.run \in DOMAIN runs /\ Current \in DOMAIN Run.items /\ Run = runs[task.run]
  BY SymbolIn DEF Run
<1>2. Rewritten(Run.status, S)
  BY <1>1, SetItemForm
<1>3. S[Current] = x /\ \A k \in DOMAIN Run.items : k # Current => S[k] = Run.items[k].status
  BY <1>1 DEF StatusesOf
<1> HIDE DEF S
<1> QED
  BY <1>1, <1>2, <1>3, QuietRewrite

LEMMA StepQuiet ==
  ASSUME FetchInv, [Next]_vars
  PROVE  Quiet \/ \E u \in Universes : Creates(u)
<1>1. TypeInv /\ TaskInv /\ RunsInv
  BY DEF FetchInv
<1>2. CASE UNCHANGED runs
  BY <1>2 DEF Quiet
<1>3. CASE PrepareRun
  <2> DEFINE S == [k \in DOMAIN Run.items |->
                     IF Run.items[k].status = "fetching" THEN "queued" ELSE Run.items[k].status]
  <2>1. task.run \in DOMAIN runs
    BY <1>1, <1>3 DEF PrepareRun, At, TaskInv
  <2>2. Rewritten("running", S)
    BY <1>1, <1>3, <2>1, PrepareForm
  <2>3. \A k \in DOMAIN Run.items :
          S[k] = "skipped_up_to_date" => Run.items[k].status = "skipped_up_to_date"
    OBVIOUS
  <2> HIDE DEF S
  <2> QED
    BY <2>1, <2>2, <2>3, QuietRewrite
<1>4. CASE FailRemaining /\ task.run \in DOMAIN runs
  <2> DEFINE S == [k \in DOMAIN Run.items |->
                     IF Run.items[k].status \in Open THEN "failed" ELSE Run.items[k].status]
  <2>1. Rewritten("failed", S)
    BY <1>1, <1>4, FailForm
  <2>2. \A k \in DOMAIN Run.items :
          S[k] = "skipped_up_to_date" => Run.items[k].status = "skipped_up_to_date"
    OBVIOUS
  <2> HIDE DEF S
  <2> QED
    BY <1>4, <2>1, <2>2, QuietRewrite
<1>5. CASE QueuedItems \/ FailRefused
  <2>1. task.run \in DOMAIN runs
    BY <1>1, <1>5 DEF QueuedItems, FailRefused, At, TaskInv
  <2> QED
    BY <1>2, <1>4, <1>5, <2>1 DEF QueuedItems, FailRefused
<1>6. CASE MarkItemFetching
  <2>1. task.pc = "next" /\ task.queue # {} /\ SetItem(Current, "fetching")
    BY <1>6 DEF MarkItemFetching, At
  <2> QED
    BY <1>1, <2>1, QuietItem DEF ItemStatuses, Open
<1>7. CASE MarkItem \/ MarkItemFailed \/ WriteFails
  <2> DEFINE x == IF MarkItem THEN IF task.got # {} THEN "done" ELSE "skipped_no_new_data"
                  ELSE "failed"
  <2>1. SetItem(Current, x) /\ task.pc \in Working
    BY <1>7 DEF MarkItem, MarkItemFailed, WriteFails, At, Working
  <2>2. x \in ItemStatuses \ {"skipped_up_to_date"}
    BY DEF ItemStatuses, Succeeded
  <2>3. task.queue # {}
    BY <1>1, <2>1 DEF TaskInv
  <2> HIDE DEF x
  <2> QED
    BY <1>1, <2>1, <2>2, <2>3, QuietItem
<1>8. CASE FinishRunIfComplete
  <2>1. task.run \in DOMAIN runs /\ runs' = [runs EXCEPT ![task.run].status = FinishedStatus]
    BY <1>1, <1>8 DEF FinishRunIfComplete, At, TaskInv
  <2>2. Rewritten(FinishedStatus, StatusesOf(task.run))
    BY <1>1, <2>1, FinishedSettles, StatusForm
  <2>3. \A k \in DOMAIN Run.items : StatusesOf(task.run)[k] = Run.items[k].status
    BY DEF StatusesOf, Run
  <2> QED
    BY <2>1, <2>2, <2>3, QuietRewrite
<1>9. CASE \E u \in Universes : StartOrResume(u)
  BY <1>2, <1>9 DEF StartOrResume, Creates, worldVars
<1>10. CASE \/ UpsertCandles \/ NoData \/ RecordFetchOutcome \/ RetryItem \/ PruneCandlesBefore
            \/ Die \/ Tick \/ Publish \/ TokenChanges \/ UNCHANGED vars
  BY <1>2, <1>10 DEF UpsertCandles, NoData, RecordFetchOutcome, RetryItem, PruneCandlesBefore,
     Die, Tick, Publish, TokenChanges, dbVars, vars
<1> QED
  BY <1>3, <1>5, <1>6, <1>7, <1>8, <1>9, <1>10 DEF Next, TaskStep

\* Every run asks for its items as they were planned.
LEMMA NewRun ==
  ASSUME TypeInv, NEW u \in Universes, Creates(u)
  PROVE  LET n == CreateRun(u) IN
         /\ DOMAIN runs' = DOMAIN runs \cup {Len(runs) + 1} /\ Len(runs) + 1 \notin DOMAIN runs
         /\ \A r \in DOMAIN runs : runs'[r] = runs[r]
         /\ runs'[Len(runs) + 1] = n
         /\ n.universe = u /\ n.window = Window(u) /\ DOMAIN n.items = DOMAIN Members[u]
         /\ \A k \in DOMAIN n.items : n.items[k] = ItemFor(Members[u][k], Window(u))
<1> DEFINE n == CreateRun(u)
<1>1. /\ n \in RunType /\ n.universe = u /\ n.window = Window(u) /\ DOMAIN n.items = DOMAIN Members[u]
      /\ \A k \in DOMAIN n.items : n.items[k] = ItemFor(Members[u][k], Window(u))
  BY CreateRunTyped
<1>2. runs \in Seq(RunType) /\ runs' = Append(runs, n)
  BY DEF TypeInv, Creates
<1> HIDE DEF n
<1>3. /\ DOMAIN runs' = DOMAIN runs \cup {Len(runs) + 1} /\ Len(runs) + 1 \notin DOMAIN runs
      /\ \A r \in DOMAIN runs : runs'[r] = runs[r]
      /\ runs'[Len(runs) + 1] = n
  BY <1>1, <1>2
<1> QED
  BY <1>1, <1>3 DEF n

\* What one item may be planned as.
Planned(i, w, it) ==
  \/ it = Skipped("skipped_retry_later")
  \/ Stored(i) /\ First(i) > w.from /\ it = Item("queued", "older_history_backfill", w.from, First(i) - 1)
  \/ ~Stored(i) /\ it = Item("queued", "initial_capture", w.from, w.to)
  \/ Stored(i) /\ Latest(i) >= w.to /\ it = Skipped("skipped_up_to_date")
  \/ /\ Stored(i) /\ ~(Latest(i) >= w.to)
     /\ it = Item("queued", "incremental_update", Max({w.from, Latest(i) + 1}), w.to)

LEMMA PlanForm ==
  ASSUME TypeInv, NEW u \in Universes, NEW c \in Instruments \cup Unmapped
  PROVE  \/ c \in Unmapped /\ ItemFor(c, Window(u)) = Skipped("skipped_unmapped")
         \/ c \in Instruments /\ Planned(c, Window(u), ItemFor(c, Window(u)))
<1>1. CASE c \in Unmapped
  BY <1>1 DEF ItemFor
<1>2. CASE c \notin Unmapped
  <2>1. c \in Instruments /\ ItemFor(c, Window(u)) = FetchPlan(c, Window(u))
    BY <1>2 DEF ItemFor
  <2>2. archive[c].retry \in Nat /\ now \in Nat
    BY <2>1 DEF TypeInv
  <2> DEFINE older == Stored(c) /\ First(c) > Window(u).from /\ ~archive[c].complete
  <2>3. \/ archive[c].retry > now /\ FetchPlan(c, Window(u)) = Skipped("skipped_retry_later")
        \/ /\ older
           /\ FetchPlan(c, Window(u)) =
                Item("queued", "older_history_backfill", Window(u).from, First(c) - 1)
        \/ FetchPlan(c, Window(u)) =
             IF ~Stored(c) THEN Item("queued", "initial_capture", Window(u).from, Window(u).to)
             ELSE IF Latest(c) >= Window(u).to THEN Skipped("skipped_up_to_date")
             ELSE Item("queued", "incremental_update",
                       Max({Window(u).from, Latest(c) + 1}), Window(u).to)
    <3>1. CASE archive[c].retry > now
      <4>1. ~(archive[c].retry <= now)
        BY <2>2, <3>1
      <4> QED
        BY <3>1, <4>1 DEF FetchPlan
    <3>2. CASE archive[c].retry <= now /\ older
      BY <2>2, <3>2 DEF FetchPlan
    <3>3. CASE archive[c].retry <= now /\ ~older
      BY <2>2, <3>3 DEF FetchPlan
    <3> HIDE DEF older
    <3> QED
      BY <2>2, <3>1, <3>2, <3>3
  <2>4. Planned(c, Window(u), FetchPlan(c, Window(u)))
    BY <2>3 DEF Planned
  <2> QED
    BY <2>1, <2>4
<1> QED
  BY <1>1, <1>2

\* The candles change when the thread stores an answer and when they are purged.
LEMMA CandlesChange ==
  ASSUME [Next]_vars
  PROVE  UNCHANGED candles \/ UpsertCandles \/ PruneCandlesBefore
BY DEF Next, TaskStep, PrepareRun, QueuedItems, MarkItemFetching, NoData, RecordFetchOutcome,
   MarkItem, RetryItem, MarkItemFailed, WriteFails, FailRefused, FinishRunIfComplete, Die, Tick,
   Publish, TokenChanges, StartOrResume, dbVars, vars

LEMMA UpsertForm ==
  ASSUME FetchInv, UpsertCandles
  PROVE  /\ task.run \in DOMAIN runs /\ Run \in RunType /\ Current \in DOMAIN Run.items
         /\ Run.items[Current] \in ItemType /\ Run.items[Current].kind # "none"
         /\ Run.status \in Active /\ Symbol \in Instruments /\ Run.universe \in Universes
         /\ Requested \subseteq Available(Symbol)
         /\ candles'[Symbol] = candles[Symbol] \cup Requested
         /\ \A i \in Instruments : i # Symbol => candles'[i] = candles[i]
         /\ UNCHANGED <<now, published, archive, runs>>
<1>1. TypeInv /\ TaskInv /\ task.pc = "asked" /\ task.pc \in Working /\ task.queue # {}
  BY DEF FetchInv, UpsertCandles, At, TaskInv, Working
<1>2. /\ task.run \in DOMAIN runs /\ Run \in RunType /\ Current \in DOMAIN Run.items
      /\ Run.items[Current] \in ItemType /\ Run.status \in Active
      /\ Symbol \in Instruments /\ Run.universe \in Universes
  BY <1>1, SymbolIn
<1>3. Run.items[Current].kind # "none"
  BY <1>1, CurrentIn DEF TaskInv
<1>4. candles \in [Instruments -> SUBSET Nat] /\ candles' = [candles EXCEPT ![Symbol] = @ \cup Requested]
  BY <1>1 DEF UpsertCandles, TypeInv
<1>5. Requested \subseteq Available(Symbol)
  BY DEF Requested
<1>6. UNCHANGED <<now, published, archive, runs>>
  BY DEF UpsertCandles, TaskOnly, worldVars
<1> QED
  BY <1>2, <1>3, <1>4, <1>5, <1>6

-----------------------------------------------------------------------------
(* What is passed over as up to date is complete                             *)

\* A day every universe asks for and no purge drops.
Due(d) == Today - d <= Retention /\ \A u \in Universes : Window(u).from <= d

\* What was due is stored up to the latest candle of an instrument.
StoredInv ==
  \A i \in Instruments : \A d \in Available(i) : \A e \in candles[i] :
    Due(d) /\ d <= e => d \in candles[i]

\* A request that starts at day f joins what is stored of instrument i, or asks
\* for everything that is due.
Reaches(i, f) == f - 1 \in candles[i] \/ \A d \in Int : Due(d) => f <= d

RequestInv ==
  \A r \in DOMAIN runs : \A k \in DOMAIN runs[r].items :
    runs[r].items[k].kind # "none" => Reaches(Members[runs[r].universe][k], runs[r].items[k].from)

\* A day that every universe asked for on the day of window w.
Common(w, d) == \A u \in Universes : w.to + 1 - Lookback[u] <= d

\* Instrument i lacks no such session of window w that the source serves and that
\* is kept.
Complete(i, w) ==
  \A d \in Available(i) :
    w.from <= d /\ d <= w.to /\ Today - d <= Retention /\ Common(w, d) => d \in candles[i]

SkippedInv ==
  \A r \in DOMAIN runs : \A k \in DOMAIN runs[r].items :
    runs[r].items[k].status = "skipped_up_to_date" =>
      /\ Members[runs[r].universe][k] \in Instruments
      /\ runs[r].window.to <= published
      /\ Complete(Members[runs[r].universe][k], runs[r].window)

HistoryInv == FetchInv /\ StoredInv /\ RequestInv /\ SkippedInv

LEMMA Days == Sessions \subseteq Nat /\ \A i \in Instruments : Listing[i] \in Nat
BY FetchAssumption

LEMMA TimePasses ==
  ASSUME TypeInv, [Next]_vars
  PROVE  /\ Today \in Int /\ Today' \in Int /\ Today <= Today' /\ now \in Nat /\ now' \in Nat
         /\ published \in Int /\ published' \in Int /\ published <= published'
<1>1. now \in Nat /\ published \in Int
  BY DEF TypeInv
<1>2. now' \in {now, now + 1} /\ published' \in {published, published + 1}
  BY DEF Next, TaskStep, PrepareRun, QueuedItems, MarkItemFetching, UpsertCandles, NoData,
     RecordFetchOutcome, MarkItem, RetryItem, MarkItemFailed, WriteFails, FailRefused,
     FinishRunIfComplete, PruneCandlesBefore, Die, Tick, Publish, TokenChanges, StartOrResume,
     TaskOnly, worldVars, dbVars, vars
<1>3. now \div 2 <= (now + 1) \div 2
  BY <1>1
<1> QED
  BY <1>1, <1>2, <1>3 DEF Today

LEMMA DaysBetween ==
  \A m, n, k \in Int : m <= n => /\ m - k \in Int /\ n - k \in Int /\ m - k <= n - k
                                 /\ \A h \in Int : n - k <= h => m - k <= h
OBVIOUS

\* The start of a window moves on with the days, and a shorter lookback starts later.
LEMMA WindowMoves ==
  ASSUME TypeInv, [Next]_vars, NEW u \in Universes
  PROVE  /\ Window(u).from \in Int /\ Window(u)'.from \in Int
         /\ Window(u).from <= Window(u)'.from
<1> DEFINE a == Today - Lookback[u]
           b == Today - Supported
           c == Today' - Lookback[u]
           e == Today' - Supported
<1>1. Today \in Int /\ Today' \in Int /\ Today <= Today' /\ now \in Nat /\ now' \in Nat
  BY TimePasses
<1>2. Lookback[u] \in Nat /\ Supported \in Nat
  BY IntAssumptions
<1>3. a \in Int /\ b \in Int /\ c \in Int /\ e \in Int /\ a <= c /\ b <= e
  <2>1. Lookback[u] \in Int /\ Supported \in Int
    BY <1>2
  <2> QED
    BY <1>1, <2>1, DaysBetween, Zenon
<1>4. Window(u).from = Max({a, b})
  BY <1>1, WindowTyped
<1>5. Window(u)'.from = Max({c, e})
  <2>1. Window(u)' = [from |-> Max({Today' - Lookback[u], Today' - Supported}), to |-> Today' - 1]
    BY DEF Window, HistoricalWindow
  <2> QED
    BY <2>1
<1> HIDE DEF a, b, c, e
<1>6. Max({a, b}) \in {a, b} /\ Max({c, e}) \in {c, e} /\ Max({c, e}) >= c /\ Max({c, e}) >= e
  BY <1>3, MaxOfTwo
<1> QED
  BY <1>3, <1>4, <1>5, <1>6

\* What is due tomorrow is due today.
LEMMA DueBefore ==
  ASSUME TypeInv, [Next]_vars, NEW d \in Int, Due(d)'
  PROVE  Due(d)
<1>1. Today \in Int /\ Today' \in Int /\ Today <= Today' /\ Retention \in Nat
  BY TimePasses, IntAssumptions
<1>2. Today' - d <= Retention /\ \A u \in Universes : Window(u)'.from <= d
  BY DEF Due
<1>3. Today - d <= Retention
  <2>1. Retention \in Int
    BY <1>1
  <2> QED
    BY <1>1, <1>2, <2>1, DaysBetween, Zenon
<1>4. \A u \in Universes : Window(u).from <= d
  <2> SUFFICES ASSUME NEW u \in Universes PROVE Window(u).from <= d
    OBVIOUS
  <2>1. Window(u).from \in Int /\ Window(u)'.from \in Int /\ Window(u).from <= Window(u)'.from
    BY WindowMoves
  <2>2. Window(u)'.from <= d
    BY <1>2
  <2> QED
    BY <2>1, <2>2
<1> QED
  BY <1>3, <1>4 DEF Due

\* A purge drops nothing that is due.
LEMMA PruneForm ==
  ASSUME FetchInv, PruneCandlesBefore
  PROVE  /\ \A i \in Instruments : candles'[i] \subseteq candles[i]
         /\ \A i \in Instruments : \A d \in candles[i] \ candles'[i] : ~(Today - d <= Retention)
         /\ \A i \in Instruments : \A e \in candles'[i] : Today - e <= Retention
         /\ UNCHANGED <<now, published, archive, runs>>
<1>1. Today \in Int /\ Retention \in Nat /\ candles \in [Instruments -> SUBSET Nat]
  BY TodayTyped, IntAssumptions DEF FetchInv, TypeInv
<1>2. HistoricalWindow(Retention).from = Today - Retention
  BY DEF HistoricalWindow
<1>3. \A i \in Instruments : candles'[i] = {d \in candles[i] : d >= Today - Retention}
  BY <1>2 DEF PruneCandlesBefore
<1>4. \A i \in Instruments : \A d \in candles[i] : d \in Int
  BY <1>1
<1>5. \A d \in Int : d >= Today - Retention <=> Today - d <= Retention
  BY <1>1
<1> QED
  BY <1>3, <1>4, <1>5 DEF PruneCandlesBefore, worldVars

\* A day is available later that was not only when it is later than what was published.
LEMMA NewlyAvailable ==
  ASSUME TypeInv, [Next]_vars, NEW i \in Instruments, NEW d \in Available(i)', d \notin Available(i)
  PROVE  d \in Nat /\ d > published
<1>1. d \in Sessions /\ Listing[i] <= d /\ d <= published'
  BY DEF Available
<1>2. d \in Nat /\ ~(d <= published)
  BY <1>1, Days DEF Available
<1> QED
  BY <1>2 DEF TypeInv

LEMMA StepStored ==
  ASSUME FetchInv, StoredInv, RequestInv, [Next]_vars
  PROVE  StoredInv'
<1>1. TypeInv
  BY DEF FetchInv
<1> SUFFICES ASSUME NEW i \in Instruments, NEW d \in Available(i)', NEW e \in candles'[i],
                    Due(d)', d <= e
             PROVE  d \in candles'[i]
  BY DEF StoredInv
<1>2. d \in Nat /\ Due(d)
  <2>1. d \in Nat
    BY Days DEF Available
  <2> QED
    BY <1>1, <2>1, DueBefore
<1>3. candles[i] \subseteq Available(i) /\ published \in Int /\ candles[i] \in SUBSET Nat
  BY <1>1 DEF TypeInv
<1>4. CASE UpsertCandles
  <2>1. /\ task.run \in DOMAIN runs /\ Run \in RunType /\ Current \in DOMAIN Run.items
        /\ Run.items[Current] \in ItemType /\ Run.items[Current].kind # "none"
        /\ Requested \subseteq Available(Symbol)
        /\ candles'[Symbol] = candles[Symbol] \cup Requested
        /\ \A j \in Instruments : j # Symbol => candles'[j] = candles[j]
        /\ UNCHANGED published
    BY <1>4, UpsertForm
  <2>2. d \in Available(i)
    BY <2>1 DEF Available
  <2>3. CASE e \in candles[i]
    BY <1>2, <2>1, <2>2, <2>3 DEF StoredInv
  <2>4. CASE e \notin candles[i]
    <3> DEFINE f == Run.items[Current].from
               t == Run.items[Current].to
    <3>1. i = Symbol /\ e \in Requested
      BY <2>1, <2>4
    <3>2. f \in Int /\ t \in Int /\ e \in Int /\ f <= e /\ e <= t
      BY <1>3, <2>1, <3>1, Days DEF Requested, ItemType, Available
    <3>3. Reaches(i, f)
      BY <2>1, <3>1 DEF RequestInv, Run, Symbol
    <3> HIDE DEF f, t
    <3>4. CASE f <= d
      <4>1. d \in f .. t
        BY <1>2, <3>2, <3>4
      <4>2. d \in Requested
        BY <2>2, <3>1, <4>1 DEF Requested, f, t
      <4> QED
        BY <2>1, <3>1, <4>2
    <3>5. CASE ~(f <= d)
      <4>1. f - 1 \in candles[i] /\ d <= f - 1
        BY <1>2, <3>2, <3>3, <3>5 DEF Reaches
      <4>2. d \in candles[i]
        BY <1>2, <2>2, <4>1 DEF StoredInv
      <4> QED
        BY <2>1, <3>1, <4>2
    <3> QED
      BY <3>4, <3>5
  <2> QED
    BY <2>3, <2>4
<1>5. CASE PruneCandlesBefore
  <2>1. e \in candles[i] /\ d \in Available(i)
    BY <1>5, PruneForm DEF Available
  <2>2. d \in candles[i]
    BY <1>2, <2>1 DEF StoredInv
  <2>3. Today - d <= Retention
    BY <1>2 DEF Due
  <2> QED
    BY <1>5, <2>2, <2>3, PruneForm
<1>6. CASE UNCHANGED candles
  <2>1. e <= published /\ e \in Int
    BY <1>3, <1>6 DEF Available
  <2>2. d \in Available(i)
    BY <1>1, <1>2, <1>3, <2>1, NewlyAvailable
  <2> QED
    BY <1>2, <1>6, <2>2 DEF StoredInv
<1> QED
  BY <1>4, <1>5, <1>6, CandlesChange

\* A request goes on reaching: a purge only drops the day it joins once
\* everything that is due is later.
LEMMA StillReaches ==
  ASSUME FetchInv, [Next]_vars, NEW i \in Instruments, NEW f \in Int, Reaches(i, f)
  PROVE  Reaches(i, f)'
<1>1. TypeInv
  BY DEF FetchInv
<1>2. CASE \A d \in Int : Due(d) => f <= d
  BY <1>1, <1>2, DueBefore DEF Reaches
<1>3. CASE f - 1 \in candles[i] /\ f - 1 \in candles'[i]
  BY <1>3 DEF Reaches
<1>4. CASE f - 1 \in candles[i] /\ f - 1 \notin candles'[i]
  <2>1. PruneCandlesBefore
    BY <1>4, CandlesChange, UpsertForm
  <2>2. ~(Today - (f - 1) <= Retention) /\ Today \in Int /\ Retention \in Nat
    BY <1>1, <1>4, <2>1, PruneForm, TimePasses, IntAssumptions
  <2>3. \A d \in Int : Due(d) => f <= d
    BY <2>2 DEF Due
  <2> QED
    BY <1>1, <2>3, DueBefore DEF Reaches
<1> QED
  BY <1>2, <1>3, <1>4 DEF Reaches

LEMMA RunFields ==
  ASSUME TypeInv, NEW r \in DOMAIN runs, NEW k \in DOMAIN runs[r].items
  PROVE  /\ runs[r].universe \in Universes /\ runs[r].window \in WindowType
         /\ runs[r].window.from \in Int /\ runs[r].window.to \in Int
         /\ runs[r].items[k] \in ItemType /\ runs[r].items[k].from \in Int
         /\ runs[r].items[k].to \in Int
         /\ runs[r].items[k].kind # "none" => Members[runs[r].universe][k] \in Instruments
<1>1. runs[r] \in RunType /\ runs[r].items[k] \in ItemType
  BY StatusesTyped
<1>2. runs[r].universe \in Universes /\ runs[r].window \in WindowType
  BY <1>1 DEF RunType
<1>3. runs[r].items[k].kind # "none" => Members[runs[r].universe][k] \in Instruments
  BY DEF TypeInv, RunShape
<1> QED
  BY <1>1, <1>2, <1>3 DEF WindowType, ItemType

\* The items of a new run, one for each constituent.
LEMMA NewItems ==
  ASSUME TypeInv, NEW u \in Universes, NEW k \in DOMAIN Members[u]
  PROVE  \/ ItemFor(Members[u][k], Window(u)) = Skipped("skipped_unmapped")
         \/ /\ Members[u][k] \in Instruments
            /\ Planned(Members[u][k], Window(u), ItemFor(Members[u][k], Window(u)))
<1>1. Members[u] \in Seq(Instruments \cup Unmapped)
  BY FetchAssumption
<1>2. Members[u][k] \in Instruments \cup Unmapped
  BY <1>1
<1> QED
  BY <1>2, PlanForm

LEMMA SkippedMade ==
  ASSUME NEW st
  PROVE  Skipped(st).status = st /\ Skipped(st).kind = "none"
BY DEF Skipped, Item

LEMMA ItemMade ==
  ASSUME NEW st, NEW kind, NEW f, NEW t
  PROVE  /\ Item(st, kind, f, t).status = st /\ Item(st, kind, f, t).kind = kind
         /\ Item(st, kind, f, t).from = f /\ Item(st, kind, f, t).to = t
BY DEF Item

\* What is planned reaches what is stored, or everything that is due.
LEMMA PlanReaches ==
  ASSUME TypeInv, NEW u \in Universes, NEW i \in Instruments, NEW it, Planned(i, Window(u), it),
         it.kind # "none"
  PROVE  Reaches(i, it.from)
<1> DEFINE f == Window(u).from
           t == Window(u).to
<1>1. f \in Int /\ t \in Int
  BY WindowTyped DEF TypeInv, WindowType
<1>2. \A d \in Int : Due(d) => f <= d
  BY DEF Due
<1>3. \/ it.from = f
      \/ Stored(i) /\ it.from = Max({f, Latest(i) + 1})
  BY SkippedMade, ItemMade DEF Planned
<1>4. CASE it.from = f
  BY <1>2, <1>4 DEF Reaches
<1>5. CASE Stored(i) /\ it.from = Max({f, Latest(i) + 1})
  <2>1. Latest(i) \in candles[i] /\ Latest(i) \in Int
    BY <1>5, Extremes DEF TypeInv
  <2>2. it.from \in {f, Latest(i) + 1}
    <3> HIDE DEF f
    <3>1. Latest(i) + 1 \in Int
      BY <2>1
    <3>2. Max({f, Latest(i) + 1}) \in {f, Latest(i) + 1}
      BY <1>1, <3>1, MaxOfTwo, Zenon
    <3> QED
      BY <1>5, <3>2, Zenon
  <2>3. CASE it.from = Latest(i) + 1
    <3>1. it.from - 1 = Latest(i)
      BY <2>1, <2>3
    <3> QED
      BY <2>1, <3>1 DEF Reaches
  <2> QED
    BY <1>4, <2>2, <2>3
<1> QED
  BY <1>3, <1>4, <1>5

LEMMA StepRequests ==
  ASSUME FetchInv, RequestInv, [Next]_vars
  PROVE  RequestInv'
<1>1. TypeInv
  BY DEF FetchInv
<1>2. ASSUME NEW r \in DOMAIN runs, NEW k \in DOMAIN runs[r].items, runs[r].items[k].kind # "none"
      PROVE  \E j \in Instruments, f \in Int :
               j = Members[runs[r].universe][k] /\ f = runs[r].items[k].from /\ Reaches(j, f)
  BY <1>1, <1>2, RunFields DEF RequestInv
<1>3. ASSUME NEW r \in DOMAIN runs', NEW k \in DOMAIN runs'[r].items, runs'[r].items[k].kind # "none"
      PROVE  \E j \in Instruments, f \in Int :
               j = Members[runs'[r].universe][k] /\ f = runs'[r].items[k].from /\ Reaches(j, f)
  <2>1. CASE Quiet
    <3>1. r \in DOMAIN runs /\ k \in DOMAIN runs[r].items /\ runs[r].items[k].kind # "none"
      BY <1>3, <2>1 DEF Quiet
    <3>2. runs'[r].universe = runs[r].universe /\ runs'[r].items[k].from = runs[r].items[k].from
      BY <2>1, <3>1 DEF Quiet
    <3> QED
      BY <1>2, <3>1, <3>2
  <2>2. CASE \E u \in Universes : Creates(u)
    <3>1. PICK u \in Universes : Creates(u)
      BY <2>2
    <3> DEFINE n == CreateRun(u)
    <3>2. /\ DOMAIN runs' = DOMAIN runs \cup {Len(runs) + 1}
          /\ \A q \in DOMAIN runs : runs'[q] = runs[q]
          /\ runs'[Len(runs) + 1] = n
          /\ n.universe = u /\ DOMAIN n.items = DOMAIN Members[u]
          /\ \A m \in DOMAIN n.items : n.items[m] = ItemFor(Members[u][m], Window(u))
      BY <1>1, <3>1, NewRun
    <3>3. \A m \in DOMAIN n.items : n.items[m] \in ItemType
      BY <1>1, CreateRunTyped DEF RunType
    <3> HIDE DEF n
    <3>4. CASE r \in DOMAIN runs
      BY <1>2, <1>3, <3>2, <3>4
    <3>5. CASE r \notin DOMAIN runs
      <4> DEFINE it == ItemFor(Members[u][k], Window(u))
      <4>1. runs'[r] = n /\ k \in DOMAIN Members[u] /\ n.items[k] = it /\ it.kind # "none"
        BY <1>3, <3>2, <3>5
      <4>2. it.from \in Int
        BY <3>2, <3>3, <4>1 DEF ItemType
      <4>3. Members[u][k] \in Instruments /\ Planned(Members[u][k], Window(u), it)
        BY <1>1, <4>1, NewItems, SkippedMade
      <4>4. Reaches(Members[u][k], it.from)
        BY <1>1, <4>1, <4>3, PlanReaches
      <4> HIDE DEF it
      <4> QED
        BY <3>2, <4>1, <4>2, <4>3, <4>4
    <3> QED
      BY <3>4, <3>5
  <2> QED
    BY <2>1, <2>2, StepQuiet
<1> SUFFICES ASSUME NEW r \in DOMAIN runs', NEW k \in DOMAIN runs'[r].items,
                    runs'[r].items[k].kind # "none"
             PROVE  Reaches(Members[runs[r].universe][k], runs[r].items[k].from)'
  BY DEF RequestInv
<1>4. PICK j \in Instruments, f \in Int :
        j = Members[runs'[r].universe][k] /\ f = runs'[r].items[k].from /\ Reaches(j, f)
  BY <1>3
<1>5. Reaches(j, f)'
  BY <1>4, StillReaches
<1> QED
  BY <1>4, <1>5 DEF Reaches

\* What was complete stays so: what is published later lies behind the window, and
\* what is purged no longer counts.
LEMMA StillComplete ==
  ASSUME FetchInv, [Next]_vars, NEW i \in Instruments, NEW w \in WindowType, w.to <= published,
         Complete(i, w)
  PROVE  Complete(i, w)' /\ w.to <= published'
<1>1. /\ TypeInv /\ Today \in Int /\ Today' \in Int /\ Today <= Today' /\ published \in Int
      /\ published' \in Int /\ published <= published' /\ Retention \in Int
  BY TimePasses, IntAssumptions DEF FetchInv
<1>2. w.to \in Int /\ w.from \in Int
  BY DEF WindowType
<1>3. ASSUME NEW d \in Available(i)', w.from <= d, d <= w.to, Today' - d <= Retention, Common(w, d)
      PROVE  d \in candles'[i]
  <2>1. d \in Nat
    BY Days DEF Available
  <2>2. d <= published
    BY <1>1, <1>2, <1>3, <2>1
  <2>3. d \in Available(i)
    BY <1>1, <2>1, <2>2, NewlyAvailable
  <2>4. d \in Int /\ Today - d <= Retention
    <3>1. d \in Int
      BY <2>1
    <3> QED
      BY <1>1, <1>3, <3>1, DaysBetween, Zenon
  <2>5. d \in candles[i]
    BY <1>3, <2>3, <2>4 DEF Complete
  <2>6. d \notin candles'[i] => PruneCandlesBefore
    BY <2>5, CandlesChange, UpsertForm
  <2> QED
    BY <2>4, <2>5, <2>6, PruneForm
<1>4. w.to <= published'
  BY <1>1, <1>2
<1> QED
  BY <1>3, <1>4 DEF Complete

\* What is passed over when it is planned is complete.
LEMMA PlanComplete ==
  ASSUME TypeInv, StoredInv, NEW u \in Universes, NEW i \in Instruments, NEW it,
         Planned(i, Window(u), it), it.status = "skipped_up_to_date"
  PROVE  Window(u).to <= published /\ Complete(i, Window(u))
<1>1. Stored(i) /\ Latest(i) >= Window(u).to
  BY SkippedMade, ItemMade DEF Planned
<1>2. Latest(i) \in candles[i] /\ Latest(i) \in Available(i)
  BY <1>1, Extremes DEF TypeInv
<1>3. Window(u).to \in Int /\ Window(u).from \in Int /\ published \in Int /\ Latest(i) \in Int
      /\ Latest(i) <= published
  <2>1. Window(u).to \in Int /\ Window(u).from \in Int
    BY WindowTyped DEF TypeInv, WindowType
  <2>2. Latest(i) \in Int /\ Latest(i) <= published
    <3>1. Latest(i) \in Sessions /\ Latest(i) <= published
      BY <1>2, Zenon DEF Available
    <3>2. PICK e \in Sessions : e = Latest(i)
      BY <3>1, Zenon
    <3>3. e \in Int
      BY Days
    <3> QED
      BY <3>1, <3>2, <3>3, Zenon
  <2> QED
    BY <2>1, <2>2 DEF TypeInv
<1>4. Window(u).to <= published
  BY <1>1, <1>3
<1>5. ASSUME NEW d \in Available(i), Window(u).from <= d, d <= Window(u).to,
             Today - d <= Retention, Common(Window(u), d)
      PROVE  d \in candles[i]
  <2>1. d \in Int
    BY Days DEF Available
  <2>2. d <= Latest(i)
    BY <1>1, <1>3, <1>5, <2>1
  <2>3. \A v \in Universes : Window(v).from <= d
    <3> SUFFICES ASSUME NEW v \in Universes PROVE Window(v).from <= d
      OBVIOUS
    <3> DEFINE a == Today - Lookback[u]
               b == Today - Supported
               c == Today - Lookback[v]
    <3>1. /\ Today \in Int /\ now \in Nat
          /\ Lookback[u] \in Nat /\ Lookback[v] \in Nat /\ Supported \in Nat
      BY TodayTyped, IntAssumptions DEF TypeInv
    <3>2. Window(u).from = Max({a, b}) /\ Window(v).from = Max({c, b}) /\ Window(u).to = Today - 1
      BY <3>1, WindowTyped
    <3>3. a \in Int /\ b \in Int /\ c \in Int
      BY <3>1
    <3>4. c <= d
      BY <1>5, <3>1, <3>2 DEF Common
    <3> HIDE DEF a, b, c
    <3>5. Max({a, b}) >= b /\ Max({c, b}) \in {c, b} /\ Max({a, b}) \in {a, b}
      BY <3>3, MaxOfTwo
    <3> QED
      BY <1>5, <2>1, <3>2, <3>3, <3>4, <3>5
  <2>4. Due(d)
    BY <1>5, <2>3 DEF Due
  <2> QED
    BY <1>2, <2>2, <2>4 DEF StoredInv
<1> QED
  BY <1>4, <1>5 DEF Complete

LEMMA StepSkipped ==
  ASSUME FetchInv, StoredInv, SkippedInv, [Next]_vars
  PROVE  SkippedInv'
<1>1. TypeInv
  BY DEF FetchInv
<1>2. ASSUME NEW r \in DOMAIN runs, NEW k \in DOMAIN runs[r].items,
             runs[r].items[k].status = "skipped_up_to_date"
      PROVE  \E i \in Instruments, w \in WindowType :
               /\ i = Members[runs[r].universe][k] /\ w = runs[r].window /\ w.to <= published
               /\ Complete(i, w)
  BY <1>1, <1>2, RunFields DEF SkippedInv
<1>3. ASSUME NEW r \in DOMAIN runs', NEW k \in DOMAIN runs'[r].items,
             runs'[r].items[k].status = "skipped_up_to_date"
      PROVE  \E i \in Instruments, w \in WindowType :
               /\ i = Members[runs'[r].universe][k] /\ w = runs'[r].window /\ w.to <= published
               /\ Complete(i, w)
  <2>1. CASE Quiet
    <3>1. /\ r \in DOMAIN runs /\ k \in DOMAIN runs[r].items
          /\ runs[r].items[k].status = "skipped_up_to_date"
      BY <1>3, <2>1 DEF Quiet
    <3>2. runs'[r].universe = runs[r].universe /\ runs'[r].window = runs[r].window
      BY <2>1, <3>1 DEF Quiet
    <3> QED
      BY <1>2, <3>1, <3>2
  <2>2. CASE \E u \in Universes : Creates(u)
    <3>1. PICK u \in Universes : Creates(u)
      BY <2>2
    <3> DEFINE n == CreateRun(u)
    <3>2. /\ DOMAIN runs' = DOMAIN runs \cup {Len(runs) + 1}
          /\ \A q \in DOMAIN runs : runs'[q] = runs[q]
          /\ runs'[Len(runs) + 1] = n
          /\ n.universe = u /\ n.window = Window(u) /\ DOMAIN n.items = DOMAIN Members[u]
          /\ \A m \in DOMAIN n.items : n.items[m] = ItemFor(Members[u][m], Window(u))
      BY <1>1, <3>1, NewRun
    <3> HIDE DEF n
    <3>3. CASE r \in DOMAIN runs
      BY <1>2, <1>3, <3>2, <3>3
    <3>4. CASE r \notin DOMAIN runs
      <4> DEFINE it == ItemFor(Members[u][k], Window(u))
      <4>1. runs'[r] = n /\ k \in DOMAIN Members[u] /\ it.status = "skipped_up_to_date"
        BY <1>3, <3>2, <3>4
      <4>2. Members[u][k] \in Instruments /\ Planned(Members[u][k], Window(u), it)
        BY <1>1, <4>1, NewItems, SkippedMade
      <4>3. Window(u).to <= published /\ Complete(Members[u][k], Window(u))
        BY <1>1, <4>1, <4>2, PlanComplete
      <4>4. Window(u) \in WindowType
        BY <1>1, WindowTyped DEF TypeInv
      <4> HIDE DEF it
      <4> QED
        BY <3>2, <4>1, <4>2, <4>3, <4>4
    <3> QED
      BY <3>3, <3>4
  <2> QED
    BY <2>1, <2>2, StepQuiet
<1> SUFFICES ASSUME NEW r \in DOMAIN runs', NEW k \in DOMAIN runs'[r].items,
                    runs'[r].items[k].status = "skipped_up_to_date"
             PROVE  (/\ Members[runs[r].universe][k] \in Instruments
                     /\ runs[r].window.to <= published
                     /\ Complete(Members[runs[r].universe][k], runs[r].window))'
  BY DEF SkippedInv
<1>4. PICK i \in Instruments, w \in WindowType :
        /\ i = Members[runs'[r].universe][k] /\ w = runs'[r].window /\ w.to <= published
        /\ Complete(i, w)
  BY <1>3
<1>5. w.to <= published' /\ Complete(i, w)'
  BY <1>4, StillComplete
<1> QED
  BY <1>4, <1>5 DEF Complete, Common

LEMMA InitHistory == Init => HistoryInv
<1> SUFFICES ASSUME Init PROVE HistoryInv
  OBVIOUS
<1>1. FetchInv
  BY InitFetchInv
<1>2. DOMAIN runs = {} /\ \A i \in Instruments : candles[i] = {}
  BY DEF Init
<1> QED
  BY <1>1, <1>2 DEF HistoryInv, StoredInv, RequestInv, SkippedInv

LEMMA AlwaysHistory == Spec => []HistoryInv
<1>1. HistoryInv /\ [Next]_vars => HistoryInv'
  BY StepFetchInv, StepStored, StepRequests, StepSkipped DEF HistoryInv
<1> QED
  BY <1>1, InitHistory, PTL DEF Spec

LEMMA PassedOver == HistoryInv => PassedOverIsComplete
<1> SUFFICES ASSUME HistoryInv, NEW r \in DOMAIN runs, NEW k \in DOMAIN runs[r].items,
                    runs[r].items[k].status = "skipped_up_to_date",
                    NEW d \in UpToDateMisses(r, k), AskedByAll(r, d)
             PROVE  FALSE
  BY DEF PassedOverIsComplete
<1>1. Complete(Members[runs[r].universe][k], runs[r].window)
  BY DEF HistoryInv, SkippedInv
<1>2. Common(runs[r].window, d)
  BY DEF AskedByAll, Common
<1> QED
  BY <1>1, <1>2 DEF Complete, UpToDateMisses

\* For any lookbacks, and in every universe, a constituent passed over as up to date
\* lacks no session that each universe would have asked for that day, that the
\* source serves and that retention keeps, whatever dies, is resumed late or purged
\* (fetch_plan_for_instrument).
THEOREM UpToDate == Spec => []PassedOverIsComplete
BY AlwaysHistory, PassedOver, PTL

-----------------------------------------------------------------------------
(* The runs keep the archive                                                 *)

\* The purge keeps what every universe asks for.
KeptWindow == \E u \in Universes : Lookback[u] <= Retention \/ Supported <= Retention

\* Neither an outage nor a run left in progress has lasted longer than the window
\* that every universe asks for, nor has the purge passed the candle that an older
\* history asked for by such a run is to join.
InTime ==
  /\ \A i \in Instruments : Stored(i) => CommonFloor <= Latest(i) + 1
  /\ \A r \in DOMAIN runs : runs[r].status \in Active =>
       /\ CommonFloor <= runs[r].window.to + 1
       /\ \A k \in DOMAIN runs[r].items :
            runs[r].items[k].kind = "older_history_backfill" =>
              Today - Retention <= runs[r].items[k].to + 1

\* A request for days up to t joins a candle of instrument i, or one that has been
\* purged since.
Joins(i, t) == t + 1 \in candles[i] \/ t + 1 < Today - Retention

\* Older history joins what is stored; what else is asked for reaches the end of
\* its run's window.
JoinInv ==
  \A r \in DOMAIN runs : \A k \in DOMAIN runs[r].items :
    /\ runs[r].items[k].kind = "older_history_backfill" =>
         Joins(Members[runs[r].universe][k], runs[r].items[k].to)
    /\ runs[r].items[k].kind \in {"initial_capture", "incremental_update"} =>
         runs[r].items[k].to = runs[r].window.to

\* No session the source serves is missing between two stored ones.
GapInv ==
  \A i \in Instruments : \A d \in Available(i) : \A e, g \in candles[i] :
    e <= d /\ d <= g => d \in candles[i]

KeptInv == HistoryInv /\ JoinInv /\ GapInv

\* The common floor is where one of the windows starts, and no other starts later.
LEMMA FloorForm ==
  ASSUME TypeInv
  PROVE  /\ CommonFloor \in Int
         /\ \A u \in Universes : Window(u).from \in Int /\ Window(u).from <= CommonFloor
         /\ \E u \in Universes : CommonFloor = Window(u).from
<1> DEFINE m == Window(Main).from
           s == Window(Scope).from
<1>1. m \in Int /\ s \in Int
  BY WindowTyped DEF TypeInv, Universes, WindowType
<1>2. {Window(u).from : u \in Universes} = {m, s}
  BY DEF Universes
<1>3. CommonFloor = Max({m, s})
  BY <1>2 DEF CommonFloor
<1>4. \A u \in Universes : Window(u).from \in {m, s}
  BY DEF Universes
<1>5. \A x \in {m, s} : \E u \in Universes : x = Window(u).from
  BY DEF Universes
<1> HIDE DEF m, s
<1>6. Max({m, s}) \in {m, s} /\ Max({m, s}) >= m /\ Max({m, s}) >= s
  BY <1>1, MaxOfTwo
<1>7. CommonFloor \in {m, s} /\ CommonFloor >= m /\ CommonFloor >= s
  BY <1>3, <1>6
<1>8. \A x \in {m, s} : x \in Int /\ x <= CommonFloor
  BY <1>1, <1>7
<1> QED
  BY <1>4, <1>5, <1>7, <1>8

\* What is due is what every universe asks for.
LEMMA DueForm ==
  ASSUME KeptWindow, TypeInv, NEW d \in Int
  PROVE  Due(d) <=> CommonFloor <= d
<1>1. PICK u \in Universes : Lookback[u] <= Retention \/ Supported <= Retention
  BY DEF KeptWindow
<1> DEFINE a == Today - Lookback[u]
           b == Today - Supported
<1>2. /\ now \in Nat /\ Today \in Int /\ Lookback[u] \in Nat
      /\ Supported \in Nat /\ Retention \in Nat
  BY TodayTyped, IntAssumptions DEF TypeInv
<1>3. Window(u).from = Max({a, b}) /\ a \in Int /\ b \in Int
  BY <1>2, WindowTyped
<1>4. Max({a, b}) >= a /\ Max({a, b}) >= b
  BY <1>3, MaxOfTwo
<1>5. Today - Retention <= a \/ Today - Retention <= b
  BY <1>1, <1>2
<1>6. Today - Retention <= CommonFloor
  <2>1. Window(u).from \in Int /\ CommonFloor \in Int /\ Window(u).from <= CommonFloor
    BY FloorForm
  <2> HIDE DEF a, b
  <2> QED
    BY <1>2, <1>3, <1>4, <1>5, <2>1
<1>7. CommonFloor <= d => Today - d <= Retention
  BY <1>2, <1>6, FloorForm
<1>8. (\A v \in Universes : Window(v).from <= d) <=> CommonFloor <= d
  <2>1. ASSUME CommonFloor <= d, NEW v \in Universes PROVE Window(v).from <= d
    BY <2>1, FloorForm
  <2>2. (\A v \in Universes : Window(v).from <= d) => CommonFloor <= d
    BY FloorForm
  <2> QED
    BY <2>1, <2>2
<1> QED
  BY <1>7, <1>8 DEF Due

LEMMA PlanJoins ==
  ASSUME TypeInv, NEW u \in Universes, NEW i \in Instruments, NEW it,
         Planned(i, Window(u), it)
  PROVE  /\ it.kind = "older_history_backfill" => Joins(i, it.to)
         /\ it.kind \in {"initial_capture", "incremental_update"} => it.to = Window(u).to
<1>1. ASSUME it.kind = "older_history_backfill"
      PROVE  Joins(i, it.to)
  <2>1. Stored(i) /\ it.to = First(i) - 1
    BY <1>1, SkippedMade, ItemMade DEF Planned
  <2>2. First(i) \in candles[i] /\ candles[i] \in SUBSET Nat
    BY <2>1, Extremes DEF TypeInv
  <2>3. it.to + 1 = First(i)
    BY <2>1, <2>2
  <2> QED
    BY <2>2, <2>3 DEF Joins
<1>2. ASSUME it.kind \in {"initial_capture", "incremental_update"}
      PROVE  it.to = Window(u).to
  BY <1>2, SkippedMade, ItemMade DEF Planned
<1> QED
  BY <1>1, <1>2

\* The candle a request joins stays until it is purged.
LEMMA StillJoins ==
  ASSUME FetchInv, [Next]_vars, NEW i \in Instruments, NEW t \in Int, Joins(i, t)
  PROVE  Joins(i, t)'
<1>1. /\ TypeInv /\ Today \in Int /\ Today' \in Int /\ Today <= Today' /\ Retention \in Int
  BY TimePasses, IntAssumptions DEF FetchInv
<1>2. CASE t + 1 < Today - Retention
  BY <1>1, <1>2 DEF Joins
<1>3. CASE t + 1 \in candles[i] /\ t + 1 \in candles'[i]
  BY <1>3 DEF Joins
<1>4. CASE t + 1 \in candles[i] /\ t + 1 \notin candles'[i]
  <2>1. PruneCandlesBefore
    BY <1>4, CandlesChange, UpsertForm
  <2>2. ~(Today - (t + 1) <= Retention)
    BY <1>4, <2>1, PruneForm
  <2>3. PICK a, b, c \in Int : a = Today /\ b = Today' /\ c = Retention
    BY <1>1
  <2>4. ~(a - (t + 1) <= c) /\ a <= b
    BY <1>1, <2>2, <2>3
  <2>5. t + 1 < b - c
    BY <2>4
  <2>6. t + 1 < Today' - Retention
    BY <2>3, <2>5
  <2> QED
    BY <2>6 DEF Joins
<1> QED
  BY <1>2, <1>3, <1>4 DEF Joins

LEMMA StepJoins ==
  ASSUME HistoryInv, JoinInv, [Next]_vars
  PROVE  JoinInv'
<1>1. FetchInv /\ TypeInv
  BY DEF HistoryInv, FetchInv
<1>2. ASSUME NEW r \in DOMAIN runs', NEW k \in DOMAIN runs'[r].items
      PROVE  /\ runs'[r].items[k].kind = "older_history_backfill" =>
                  \E i \in Instruments, t \in Int :
                    /\ i = Members[runs'[r].universe][k]
                    /\ t = runs'[r].items[k].to /\ Joins(i, t)
             /\ runs'[r].items[k].kind \in {"initial_capture", "incremental_update"} =>
                  runs'[r].items[k].to = runs'[r].window.to
  <2>1. ASSUME r \in DOMAIN runs, k \in DOMAIN runs[r].items
        PROVE  /\ runs[r].items[k].kind = "older_history_backfill" =>
                    \E i \in Instruments, t \in Int :
                      /\ i = Members[runs[r].universe][k]
                      /\ t = runs[r].items[k].to /\ Joins(i, t)
               /\ runs[r].items[k].kind \in {"initial_capture", "incremental_update"} =>
                    runs[r].items[k].to = runs[r].window.to
    <3>1. runs[r].items[k].kind = "older_history_backfill" =>
            Joins(Members[runs[r].universe][k], runs[r].items[k].to)
      BY <2>1 DEF JoinInv
    <3>2. runs[r].items[k].kind \in {"initial_capture", "incremental_update"} =>
            runs[r].items[k].to = runs[r].window.to
      BY <2>1 DEF JoinInv
    <3>3. /\ runs[r].items[k].to \in Int
          /\ runs[r].items[k].kind # "none" => Members[runs[r].universe][k] \in Instruments
      BY <1>1, <2>1, RunFields
    <3> QED
      BY <3>1, <3>2, <3>3
  <2>2. CASE Quiet
    <3>1. r \in DOMAIN runs /\ k \in DOMAIN runs[r].items
      BY <1>2, <2>2 DEF Quiet
    <3>2. /\ runs'[r].universe = runs[r].universe /\ runs'[r].window = runs[r].window
          /\ runs'[r].items[k].kind = runs[r].items[k].kind
          /\ runs'[r].items[k].to = runs[r].items[k].to
      BY <2>2, <3>1 DEF Quiet
    <3> QED
      BY <2>1, <3>1, <3>2
  <2>3. CASE \E u \in Universes : Creates(u)
    <3>1. PICK u \in Universes : Creates(u)
      BY <2>3
    <3> DEFINE n == CreateRun(u)
    <3>2. /\ DOMAIN runs' = DOMAIN runs \cup {Len(runs) + 1}
          /\ \A q \in DOMAIN runs : runs'[q] = runs[q]
          /\ runs'[Len(runs) + 1] = n
          /\ n.universe = u /\ n.window = Window(u) /\ DOMAIN n.items = DOMAIN Members[u]
          /\ \A m \in DOMAIN n.items : n.items[m] = ItemFor(Members[u][m], Window(u))
      BY <1>1, <3>1, NewRun
    <3>3. \A m \in DOMAIN n.items : n.items[m] \in ItemType
      BY <1>1, CreateRunTyped DEF RunType
    <3> HIDE DEF n
    <3>4. CASE r \in DOMAIN runs
      BY <1>2, <2>1, <3>2, <3>4
    <3>5. CASE r \notin DOMAIN runs
      <4> DEFINE it == ItemFor(Members[u][k], Window(u))
      <4>1. runs'[r] = n /\ k \in DOMAIN Members[u] /\ n.items[k] = it
        BY <1>2, <3>2, <3>5
      <4>2. it.to \in Int
        BY <3>2, <3>3, <4>1 DEF ItemType
      <4>3. it.kind # "none" => /\ Members[u][k] \in Instruments
                                /\ Planned(Members[u][k], Window(u), it)
        BY <1>1, <4>1, NewItems, SkippedMade
      <4>4. /\ it.kind = "older_history_backfill" => Joins(Members[u][k], it.to)
            /\ it.kind \in {"initial_capture", "incremental_update"} => it.to = Window(u).to
        BY <1>1, <4>3, PlanJoins
      <4> HIDE DEF it
      <4> QED
        BY <3>2, <4>1, <4>2, <4>3, <4>4
    <3> QED
      BY <3>4, <3>5
  <2> QED
    BY <1>1, <2>2, <2>3, StepQuiet
<1> SUFFICES ASSUME NEW r \in DOMAIN runs', NEW k \in DOMAIN runs'[r].items
             PROVE  (/\ runs[r].items[k].kind = "older_history_backfill" =>
                          Joins(Members[runs[r].universe][k], runs[r].items[k].to)
                     /\ runs[r].items[k].kind \in {"initial_capture", "incremental_update"} =>
                          runs[r].items[k].to = runs[r].window.to)'
  BY DEF JoinInv
<1>3. ASSUME runs'[r].items[k].kind = "older_history_backfill"
      PROVE  Joins(Members[runs[r].universe][k], runs[r].items[k].to)'
  <2>1. PICK i \in Instruments, t \in Int :
          /\ i = Members[runs'[r].universe][k]
          /\ t = runs'[r].items[k].to /\ Joins(i, t)
    BY <1>2, <1>3
  <2>2. Joins(i, t)'
    BY <1>1, <2>1, StillJoins
  <2> QED
    BY <2>1, <2>2 DEF Joins
<1> QED
  BY <1>2, <1>3

LEMMA StepGap ==
  ASSUME KeptWindow, KeptInv, InTime, StoredInv', [Next]_vars
  PROVE  GapInv'
<1>1. FetchInv /\ TypeInv /\ StoredInv /\ JoinInv /\ GapInv
  BY DEF KeptInv, HistoryInv, FetchInv
<1>2. CommonFloor \in Int /\ published \in Int
  BY <1>1, FloorForm DEF TypeInv
<1> SUFFICES ASSUME NEW i \in Instruments, NEW d \in Available(i)', NEW e \in candles'[i],
                    NEW g \in candles'[i], e <= d, d <= g
             PROVE  d \in candles'[i]
  BY DEF GapInv
<1>3. d \in Nat
  BY Days DEF Available
<1>4. CASE UpsertCandles
  <2> DEFINE f == Run.items[Current].from
             t == Run.items[Current].to
  <2>1. /\ task.run \in DOMAIN runs /\ Current \in DOMAIN Run.items /\ Run.status \in Active
        /\ Run.items[Current] \in ItemType /\ Run.items[Current].kind # "none"
        /\ Symbol \in Instruments /\ Requested \subseteq Available(Symbol)
        /\ candles'[Symbol] = candles[Symbol] \cup Requested
        /\ \A j \in Instruments : j # Symbol => candles'[j] = candles[j]
        /\ UNCHANGED <<now, published>> /\ Run = runs[task.run]
    BY <1>1, <1>4, UpsertForm DEF Run
  <2>2. d \in Available(i)
    BY <2>1 DEF Available
  <2>3. CASE i # Symbol
    BY <1>1, <2>1, <2>2, <2>3 DEF GapInv
  <2>4. CASE i = Symbol /\ CommonFloor <= d
    <3>1. Due(d)
      BY <1>1, <1>3, <2>4, DueForm
    <3>2. Due(d)'
      BY <2>1, <3>1 DEF Due, Today, Window, HistoricalWindow
    <3> QED
      BY <3>2 DEF StoredInv
  <2>5. CASE i = Symbol /\ ~(CommonFloor <= d)
    <3>1. f \in Int /\ t \in Int
      BY <2>1 DEF ItemType
    <3>2. \A x \in Requested : f <= x /\ x <= t /\ x \in Int
      <4>1. \A x \in Requested : x \in f .. t
        BY DEF Requested
      <4> QED
        BY <3>1, <4>1
    <3>3. candles[i] \in SUBSET Nat
      BY <1>1 DEF TypeInv
    <3>4. CASE e \in candles[i]
      <4>1. Latest(i) \in candles[i] /\ Latest(i) \in Nat /\ CommonFloor <= Latest(i) + 1
        BY <1>1, <3>3, <3>4, Extremes DEF Stored, InTime
      <4>2. d <= Latest(i)
        BY <1>2, <1>3, <2>5, <4>1
      <4>3. d \in candles[i]
        BY <1>1, <2>2, <3>4, <4>1, <4>2 DEF GapInv
      <4> QED
        BY <2>1, <2>5, <4>3
    <3>5. CASE e \notin candles[i]
      <4>1. e \in Requested /\ f <= e /\ e <= t /\ e \in Int
        BY <2>1, <2>5, <3>2, <3>5
      <4>2. f <= d
        BY <1>3, <3>1, <4>1
      <4>3. CASE d <= t
        <5>1. d \in f .. t
          BY <1>3, <3>1, <4>2, <4>3
        <5>2. d \in Requested
          BY <2>2, <2>5, <5>1 DEF Requested
        <5> QED
          BY <2>1, <2>5, <5>2
      <4>4. CASE ~(d <= t)
        <5>1. Run.items[Current].kind = "older_history_backfill"
          <6>1. CASE Run.items[Current].kind \in {"initial_capture", "incremental_update"}
            <7>1. t = Run.window.to
              BY <1>1, <2>1, <6>1 DEF JoinInv
            <7>2. CommonFloor <= t + 1
              BY <2>1, <7>1 DEF InTime
            <7> HIDE DEF f, t
            <7> QED
              BY <1>2, <1>3, <2>5, <3>1, <4>4, <7>2
          <6> QED
            BY <2>1, <6>1 DEF ItemType, Kinds
        <5>2. Joins(i, t)
          BY <1>1, <2>1, <2>5, <5>1 DEF JoinInv, Symbol
        <5>3. Today - Retention <= t + 1
          BY <2>1, <5>1 DEF InTime
        <5>4. Today \in Int /\ Retention \in Int
          BY <1>1, TimePasses, IntAssumptions
        <5> HIDE DEF f, t
        <5>5. t + 1 \in candles[i]
          BY <3>1, <5>2, <5>3, <5>4 DEF Joins
        <5>6. Latest(i) \in candles[i] /\ Latest(i) \in Nat /\ CommonFloor <= Latest(i) + 1
          BY <1>1, <3>3, <5>5, Extremes DEF Stored, InTime
        <5>7. t + 1 <= d /\ d <= Latest(i)
          BY <1>2, <1>3, <2>5, <3>1, <4>4, <5>6
        <5>8. d \in candles[i]
          BY <1>1, <2>2, <5>5, <5>6, <5>7 DEF GapInv
        <5> QED
          BY <2>1, <2>5, <5>8
      <4> QED
        BY <4>3, <4>4
    <3> QED
      BY <3>4, <3>5
  <2> QED
    BY <2>3, <2>4, <2>5
<1>5. CASE PruneCandlesBefore
  <2>1. e \in candles[i] /\ g \in candles[i] /\ d \in Available(i) /\ Today - e <= Retention
    BY <1>1, <1>5, PruneForm DEF Available
  <2>2. d \in candles[i]
    BY <1>1, <2>1 DEF GapInv
  <2>3. Today - d <= Retention
    <3>1. Today \in Int /\ Retention \in Nat /\ e \in Nat
      BY <1>1, <2>1, TimePasses, IntAssumptions DEF TypeInv
    <3> QED
      BY <1>3, <2>1, <3>1
  <2> QED
    BY <1>1, <1>5, <2>2, <2>3, PruneForm
<1>6. CASE UNCHANGED candles
  <2>1. g \in candles[i] /\ g \in Nat /\ g \in Available(i)
    BY <1>1, <1>6 DEF TypeInv
  <2>2. g <= published
    BY <2>1, Zenon DEF Available
  <2>3. ~(d > published)
    BY <1>2, <1>3, <2>1, <2>2
  <2>4. d \in Available(i)
    BY <1>1, <2>3, NewlyAvailable
  <2> QED
    BY <1>1, <1>6, <2>4 DEF GapInv
<1> QED
  BY <1>4, <1>5, <1>6, CandlesChange

LEMMA StepKept ==
  ASSUME KeptWindow, KeptInv, InTime, [Next]_vars
  PROVE  KeptInv'
<1>1. HistoryInv'
  BY StepFetchInv, StepStored, StepRequests, StepSkipped DEF KeptInv, HistoryInv
<1>2. JoinInv'
  BY StepJoins DEF KeptInv
<1>3. GapInv'
  BY <1>1, StepGap DEF HistoryInv
<1> QED
  BY <1>1, <1>2, <1>3 DEF KeptInv

LEMMA InitKept == Init => KeptInv
<1> SUFFICES ASSUME Init PROVE KeptInv
  OBVIOUS
<1>1. HistoryInv
  BY InitHistory
<1>2. DOMAIN runs = {} /\ \A i \in Instruments : candles[i] = {}
  BY DEF Init
<1> QED
  BY <1>1, <1>2 DEF KeptInv, JoinInv, GapInv

Declared == {i \in Instruments : archive[i].complete}

LEMMA ArchiveCaptures ==
  ASSUME KeptInv, KeptInv', UpsertCandles
  PROVE  \E i \in Instruments : Archive!Capture(i)
<1>1. FetchInv /\ TypeInv
  BY DEF KeptInv, HistoryInv, FetchInv
<1>2. /\ Symbol \in Instruments /\ Requested \subseteq Available(Symbol)
      /\ candles'[Symbol] = candles[Symbol] \cup Requested
      /\ UNCHANGED <<now, published, archive, runs>>
  BY <1>1, UpsertForm
<1>3. PICK i \in Instruments : i = Symbol
  BY <1>2
<1> DEFINE new == candles[i] \cup (candles'[i] \cap Archive!Available(i))
<1>4. candles' = [candles EXCEPT ![i] = candles[i] \cup Requested]
  BY <1>3 DEF UpsertCandles
<1>5. candles[i] \subseteq Available(i) /\ Available(i) = Archive!Available(i)
  BY <1>1 DEF TypeInv, Available, Archive!Available
<1>6. new = candles[i] \cup Requested
  BY <1>2, <1>3, <1>5
<1>7. candles' = [candles EXCEPT ![i] = new]
  BY <1>4, <1>6
<1>8. Archive!Gapless(i, candles'[i])
  <2> SUFFICES ASSUME NEW d \in Archive!Available(i), NEW e \in candles'[i], e <= d,
                      NEW g \in candles'[i], d <= g
               PROVE  d \in candles'[i]
    BY DEF Archive!Gapless
  <2>1. d \in Available(i)'
    BY <1>2 DEF Archive!Available, Available
  <2> QED
    BY <2>1 DEF KeptInv, GapInv
<1>9. CommonFloor' = CommonFloor /\ Declared' = Declared
  BY <1>2 DEF CommonFloor, Window, HistoricalWindow, Today, Declared
<1>10. Archive!Capture(i)
  BY <1>2, <1>7, <1>8, <1>9 DEF Archive!Capture, Declared
<1> QED
  BY <1>10

LEMMA ArchiveDeclares ==
  ASSUME KeptWindow, KeptInv, RecordFetchOutcome
  PROVE  (\E i \in Instruments : Archive!Declare(i)) \/ UNCHANGED Archive!archiveVars
<1>1. FetchInv /\ TypeInv /\ TaskInv /\ StoredInv
  BY DEF KeptInv, HistoryInv, FetchInv
<1>2. task.pc \in Working /\ task.queue # {} /\ UNCHANGED <<now, published, candles, runs>>
  BY <1>1 DEF RecordFetchOutcome, At, Working, TaskInv, TaskOnly, worldVars
<1>3. Symbol \in Instruments
  BY <1>1, <1>2, SymbolIn
<1>4. PICK i \in Instruments : i = Symbol
  BY <1>3
<1>5. CommonFloor' = CommonFloor
  BY <1>2 DEF CommonFloor, Window, HistoricalWindow, Today
<1>6. /\ \A j \in Instruments : j # i => archive'[j] = archive[j]
      /\ archive[i].complete => archive'[i].complete
  <2> DEFINE row == IF task.got # {}
                    THEN [complete |-> archive[i].complete \/ Run.items[Current].kind # "incremental_update",
                          retry |-> 0]
                    ELSE IF Stored(i) /\ Run.items[Current].kind # "older_history_backfill"
                    THEN [archive[i] EXCEPT !.retry = now + 1]
                    ELSE [complete |-> TRUE, retry |-> 0]
  <2>1. archive' = [archive EXCEPT ![i] = row] /\ archive \in [Instruments -> [complete : BOOLEAN, retry : Nat]]
    BY <1>1, <1>4 DEF RecordFetchOutcome, TypeInv
  <2>2. archive[i] \in [complete : BOOLEAN, retry : Nat]
    BY <2>1
  <2>3. archive[i].complete => row.complete
    BY <2>2
  <2> HIDE DEF row
  <2> QED
    BY <2>1, <2>3
<1>7. CASE archive'[i].complete => archive[i].complete
  <2>1. \A j \in Instruments : archive'[j].complete <=> archive[j].complete
    BY <1>6, <1>7
  <2>2. Declared' = Declared
    BY <2>1 DEF Declared
  <2> QED
    BY <1>2, <1>5, <2>2 DEF Archive!archiveVars, Declared
<1>8. CASE archive'[i].complete /\ ~archive[i].complete
  <2>1. Archive!NothingOlder(i)
    <3>1. CASE candles[i] = {}
      BY <3>1 DEF Archive!NothingOlder
    <3>2. CASE candles[i] # {}
      <4>1. Latest(i) \in candles[i] /\ Latest(i) \in Nat
        BY <1>1, <3>2, Extremes DEF Stored, TypeInv
      <4>2. ASSUME NEW d \in Available(i), CommonFloor <= d PROVE \E e \in candles[i] : e <= d
        <5>1. d \in Nat /\ Due(d)
          <6>1. d \in Nat
            BY Days DEF Available
          <6> QED
            BY <1>1, <4>2, <6>1, DueForm
        <5>2. CASE d <= Latest(i)
          <6>1. d \in candles[i] /\ d <= d
            BY <1>1, <4>1, <5>1, <5>2 DEF StoredInv
          <6> QED
            BY <6>1
        <5>3. CASE ~(d <= Latest(i))
          BY <4>1, <5>1, <5>3
        <5> QED
          BY <5>2, <5>3
      <4> QED
        BY <4>2 DEF Archive!NothingOlder, Archive!Available, Available
    <3> QED
      BY <3>1, <3>2
  <2>2. Declared' = Declared \cup {i}
    BY <1>6, <1>8 DEF Declared
  <2>3. Archive!Declare(i)
    BY <1>2, <1>5, <2>1, <2>2 DEF Archive!Declare, Declared
  <2> QED
    BY <2>3
<1> QED
  BY <1>7, <1>8

LEMMA ArchivePurges ==
  ASSUME KeptInv, PruneCandlesBefore
  PROVE  Archive!Purge
<1>1. FetchInv /\ TypeInv
  BY DEF KeptInv, HistoryInv, FetchInv
<1>2. /\ \A i \in Instruments : candles'[i] \subseteq candles[i]
      /\ \A i \in Instruments : \A d \in candles[i] \ candles'[i] : ~(Today - d <= Retention)
      /\ \A i \in Instruments : \A e \in candles'[i] : Today - e <= Retention
      /\ UNCHANGED <<now, published, archive, runs>>
  BY <1>1, PruneForm
<1>3. ASSUME NEW i \in Instruments, NEW d \in candles[i] \ candles'[i], NEW e \in candles'[i]
      PROVE  d < e
  <2>1. d \in Nat /\ e \in Nat /\ Today \in Int /\ Retention \in Nat
    BY <1>1, <1>2, TodayTyped, IntAssumptions DEF TypeInv
  <2>2. ~(Today - d <= Retention) /\ Today - e <= Retention
    BY <1>2
  <2> QED
    BY <2>1, <2>2
<1>4. CommonFloor' = CommonFloor /\ Declared' = Declared
  BY <1>2 DEF CommonFloor, Window, HistoricalWindow, Today, Declared
<1> QED
  BY <1>2, <1>3, <1>4 DEF Archive!Purge, Declared

\* No other step touches the archive.
LEMMA ArchiveAdvances ==
  ASSUME KeptInv, [Next]_vars, ~UpsertCandles, ~RecordFetchOutcome, ~PruneCandlesBefore
  PROVE  Archive!Advance
<1>1. FetchInv /\ TypeInv
  BY DEF KeptInv, HistoryInv, FetchInv
<1>2. UNCHANGED <<candles, archive>>
  BY DEF Next, TaskStep, PrepareRun, QueuedItems, MarkItemFetching, NoData, MarkItem, RetryItem,
     MarkItemFailed, WriteFails, FailRefused, FinishRunIfComplete, Die, Tick, Publish, TokenChanges,
     StartOrResume, dbVars, vars
<1>3. CommonFloor \in Int /\ CommonFloor' \in Int /\ CommonFloor <= CommonFloor'
  <2>1. TypeInv'
    BY StepFetchInv DEF KeptInv, HistoryInv, FetchInv
  <2>2. (/\ CommonFloor \in Int
         /\ \A u \in Universes : Window(u).from \in Int /\ Window(u).from <= CommonFloor)'
    BY <2>1, FloorForm, PTL
  <2>3. PICK u \in Universes : CommonFloor = Window(u).from
    BY <1>1, FloorForm
  <2>4. /\ Window(u).from \in Int /\ Window(u)'.from \in Int
        /\ Window(u).from <= Window(u)'.from
    BY <1>1, WindowMoves
  <2> QED
    BY <2>2, <2>3, <2>4
<1>4. published \in Int /\ published' \in Int /\ published <= published'
  BY <1>1, TimePasses
<1>5. published' >= published /\ CommonFloor' >= CommonFloor
  BY <1>3, <1>4
<1> QED
  BY <1>2, <1>5 DEF Archive!Advance

\* For any lookbacks, when the purge keeps what every universe asks for, no outage or
\* unfinished run lasts longer than that and no backfill in progress is overtaken by
\* the purge: the candles of an instrument stay a gapless stretch, and its
\* archive is declared complete only when the source has nothing older that every
\* universe asks for (record_fetch_outcome).
THEOREM ImplementsArchive ==
  ASSUME KeptWindow
  PROVE  Spec /\ []InTime => KeepsArchive
<1>1. Init => Archive!Init
  BY DEF Init, Archive!Init
<1>2. KeptInv /\ InTime /\ [Next]_vars => KeptInv'
  BY StepKept
<1>3. KeptInv /\ KeptInv' /\ [Next]_vars => [Archive!Next]_(Archive!archiveVars)
  BY ArchiveCaptures, ArchiveDeclares, ArchivePurges, ArchiveAdvances DEF Archive!Next
<1> QED
  BY <1>1, <1>2, <1>3, InitKept, PTL DEF Spec, KeepsArchive, Archive!Spec

\* The first day the window of a universe asks for on a day.
FloorOn(u, d) == Max({d - Lookback[u], d - Supported})

\* Up to LastDay no window that starts now passes session p, which the source had
\* served at the start, and the purge does not pass the start of the first windows.
Horizon(p) ==
  /\ p \in Sessions /\ p <= FirstDay - 2 /\ FirstDay <= LastDay
  /\ \A u \in Universes : /\ FloorOn(u, LastDay) <= p + 1
                           /\ LastDay - Retention <= FloorOn(u, FirstDay) + 1

\* What the source had served at the start, up to day p, is stored with everything
\* that is stored, and no request ends before it or joins anything older.
ReachInv(p) ==
  /\ FirstDay <= Today /\ now <= 2 * LastDay + 1 /\ published >= FirstDay - 2
  /\ \A i \in Instruments : candles[i] # {} => \E e \in candles[i] : e >= p
  /\ \A r \in DOMAIN runs : runs[r].window.to >= FirstDay - 1
  /\ \A r \in DOMAIN runs : \A k \in DOMAIN runs[r].items :
       /\ runs[r].items[k].kind = "incremental_update" => runs[r].items[k].from >= p
       /\ runs[r].items[k].kind = "older_history_backfill" =>
            LastDay - Retention <= runs[r].items[k].to + 1

LEMMA FloorOnTyped ==
  ASSUME NEW u \in Universes, NEW d \in Int
  PROVE  FloorOn(u, d) \in Int
<1>1. Lookback[u] \in Nat /\ Supported \in Nat
  BY IntAssumptions
<1>2. d - Lookback[u] \in Int /\ d - Supported \in Int
  BY <1>1
<1>3. \A m, n \in Int : Max({m, n}) \in Int
  BY MaxOfTwo
<1> QED
  BY <1>2, <1>3 DEF FloorOn

\* The window starts no earlier on a later day.
LEMMA FloorOnMoves ==
  ASSUME NEW u \in Universes, NEW d \in Int, NEW e \in Int, d <= e
  PROVE  FloorOn(u, d) <= FloorOn(u, e)
<1> DEFINE a == d - Lookback[u]
           b == d - Supported
           m == e - Lookback[u]
           n == e - Supported
<1>1. Lookback[u] \in Nat /\ Supported \in Nat
  BY IntAssumptions
<1>2. a \in Int /\ b \in Int /\ m \in Int /\ n \in Int /\ a <= m /\ b <= n
  BY <1>1
<1>3. FloorOn(u, d) = Max({a, b}) /\ FloorOn(u, e) = Max({m, n})
  BY DEF FloorOn
<1> HIDE DEF a, b, m, n
<1>4. Max({a, b}) \in {a, b} /\ Max({m, n}) >= m /\ Max({m, n}) >= n /\ Max({m, n}) \in {m, n}
  BY <1>2, MaxOfTwo
<1> QED
  BY <1>2, <1>3, <1>4

LEMMA WindowOn ==
  ASSUME TypeInv, NEW u \in Universes
  PROVE  Window(u).from = FloorOn(u, Today)
BY WindowTyped DEF TypeInv, FloorOn

LEMMA TodayBefore ==
  ASSUME TypeInv, NEW p, ReachInv(p)
  PROVE  Today \in Int /\ Today <= LastDay
<1>1. now \in Nat /\ LastDay \in Nat /\ now <= 2 * LastDay + 1
  BY IntAssumptions DEF TypeInv, ReachInv
<1> QED
  BY <1>1 DEF Today

LEMMA StepReach ==
  ASSUME NEW p, Horizon(p), KeptInv, ReachInv(p), [Next]_vars
  PROVE  ReachInv(p)'
<1>1. FetchInv /\ TypeInv /\ JoinInv
  BY DEF KeptInv, HistoryInv, FetchInv
<1>2. /\ p \in Sessions /\ p \in Nat /\ FirstDay \in Nat /\ LastDay \in Nat /\ Retention \in Nat
      /\ p <= FirstDay - 2
  BY Days, IntAssumptions DEF Horizon
<1>3. /\ Today \in Int /\ Today' \in Int /\ Today <= Today' /\ now \in Nat
      /\ published \in Int /\ published' \in Int /\ published <= published'
  BY <1>1, TimePasses
<1>4. FirstDay <= Today' /\ published' >= FirstDay - 2
  BY <1>2, <1>3, DaysBetween DEF ReachInv
<1>5. now' <= 2 * LastDay + 1
  <2>1. now' = now \/ (now < 2 * LastDay + 1 /\ now' = now + 1)
    BY DEF Next, TaskStep, PrepareRun, QueuedItems, MarkItemFetching, UpsertCandles, NoData,
       RecordFetchOutcome, MarkItem, RetryItem, MarkItemFailed, WriteFails, FailRefused,
       FinishRunIfComplete, PruneCandlesBefore, Die, Tick, Publish, TokenChanges, StartOrResume,
       TaskOnly, worldVars, dbVars, vars
  <2>2. now <= 2 * LastDay + 1
    BY DEF ReachInv
  <2> QED
    BY <1>2, <1>3, <2>1, <2>2
<1>6. ASSUME NEW i \in Instruments, candles'[i] # {}
      PROVE  \E e \in candles'[i] : e >= p
  <2>1. candles[i] \in SUBSET Nat
    BY <1>1 DEF TypeInv
  <2>2. CASE UNCHANGED candles
    BY <1>6, <2>2 DEF ReachInv
  <2>3. CASE PruneCandlesBefore
    <3>1. PICK x \in candles'[i] : TRUE
      BY <1>6
    <3>2. x \in candles[i] /\ Today - x <= Retention
      BY <1>1, <2>3, PruneForm
    <3>3. PICK e \in candles[i] : e >= p
      BY <3>2 DEF ReachInv
    <3>4. CASE x >= p
      BY <3>4
    <3>5. CASE ~(x >= p)
      <4>1. Today - e <= Retention
        <5>1. x \in Nat /\ e \in Nat /\ Retention \in Nat
          BY <2>1, <3>2, IntAssumptions
        <5> QED
          BY <1>2, <1>3, <3>2, <3>3, <3>5, <5>1
      <4> QED
        BY <1>1, <2>3, <3>3, <4>1, PruneForm
    <3> QED
      BY <3>4, <3>5
  <2>4. CASE UpsertCandles
    <3> DEFINE f == Run.items[Current].from
               t == Run.items[Current].to
    <3>1. /\ task.run \in DOMAIN runs /\ Current \in DOMAIN Run.items
          /\ Run.items[Current] \in ItemType /\ Run.items[Current].kind # "none"
          /\ Symbol \in Instruments /\ Requested \subseteq Available(Symbol)
          /\ candles'[Symbol] = candles[Symbol] \cup Requested
          /\ \A j \in Instruments : j # Symbol => candles'[j] = candles[j]
          /\ Run = runs[task.run]
      BY <1>1, <2>4, UpsertForm DEF Run
    <3>2. CASE candles[i] # {}
      BY <3>1, <3>2 DEF ReachInv
    <3>3. CASE candles[i] = {}
      <4>1. i = Symbol /\ candles'[i] = Requested
        BY <1>6, <3>1, <3>3
      <4>2. PICK x \in Requested : TRUE
        BY <1>6, <4>1
      <4>3. f \in Int /\ t \in Int /\ x \in Nat
        BY <3>1, <4>2, Days DEF ItemType, Available
      <4>4. f <= x /\ x <= t /\ x \in Available(Symbol)
        <5>1. x \in f .. t /\ x \in Available(Symbol)
          BY <4>2 DEF Requested
        <5> QED
          BY <4>3, <5>1
      <4>5. CASE x >= p
        BY <4>1, <4>2, <4>5
      <4>6. CASE ~(x >= p)
        <5>1. Run.items[Current].kind # "older_history_backfill"
          <6> SUFFICES ASSUME Run.items[Current].kind = "older_history_backfill" PROVE FALSE
            OBVIOUS
          <6>1. Joins(i, t)
            BY <1>1, <3>1, <4>1 DEF JoinInv, Symbol
          <6>2. LastDay - Retention <= t + 1
            BY <3>1 DEF ReachInv
          <6>3. Today \in Int /\ Today <= LastDay
            BY <1>1, TodayBefore
          <6> HIDE DEF f, t
          <6> QED
            BY <1>2, <3>3, <4>3, <6>1, <6>2, <6>3 DEF Joins
        <5>2. Run.items[Current].kind # "incremental_update"
          <6>1. Run.items[Current].kind = "incremental_update" => f >= p
            BY <3>1 DEF ReachInv
          <6> HIDE DEF f
          <6> QED
            BY <1>2, <4>3, <4>4, <4>6, <6>1
        <5>3. t = Run.window.to
          BY <1>1, <3>1, <5>1, <5>2 DEF JoinInv, ItemType, Kinds
        <5>4. t >= FirstDay - 1
          BY <3>1, <5>3 DEF ReachInv
        <5>5. p \in f .. t
          <6> HIDE DEF f, t
          <6> QED
            BY <1>2, <4>3, <4>4, <4>6, <5>4
        <5>6. p \in Available(Symbol)
          <6>1. Listing[Symbol] <= x /\ Listing[Symbol] \in Nat
            BY <3>1, <4>4, Days DEF Available
          <6>2. published >= FirstDay - 2
            BY DEF ReachInv
          <6>3. Listing[Symbol] <= p /\ p <= published
            BY <1>2, <1>3, <4>3, <4>6, <6>1, <6>2
          <6>4. p \in Sessions
            BY DEF Horizon
          <6> QED
            BY <6>3, <6>4 DEF Available
        <5>7. p \in Requested /\ p >= p
          BY <1>2, <5>5, <5>6 DEF Requested
        <5> QED
          BY <4>1, <5>7
      <4> QED
        BY <4>5, <4>6
    <3> QED
      BY <3>2, <3>3
  <2> QED
    BY <2>2, <2>3, <2>4, CandlesChange
<1>7. ASSUME NEW r \in DOMAIN runs'
      PROVE  /\ runs'[r].window.to >= FirstDay - 1
             /\ \A k \in DOMAIN runs'[r].items :
                  /\ runs'[r].items[k].kind = "incremental_update" => runs'[r].items[k].from >= p
                  /\ runs'[r].items[k].kind = "older_history_backfill" =>
                       LastDay - Retention <= runs'[r].items[k].to + 1
  <2>1. CASE Quiet
    BY <1>7, <2>1 DEF Quiet, ReachInv
  <2>2. CASE \E u \in Universes : Creates(u)
    <3>1. PICK u \in Universes : Creates(u)
      BY <2>2
    <3> DEFINE n == CreateRun(u)
    <3>2. /\ DOMAIN runs' = DOMAIN runs \cup {Len(runs) + 1}
          /\ \A q \in DOMAIN runs : runs'[q] = runs[q]
          /\ runs'[Len(runs) + 1] = n
          /\ n.universe = u /\ n.window = Window(u) /\ DOMAIN n.items = DOMAIN Members[u]
          /\ \A m \in DOMAIN n.items : n.items[m] = ItemFor(Members[u][m], Window(u))
      BY <1>1, <3>1, NewRun
    <3> HIDE DEF n
    <3>3. CASE r \in DOMAIN runs
      BY <3>2, <3>3 DEF ReachInv
    <3>4. CASE r \notin DOMAIN runs
      <4>1. runs'[r] = n
        BY <1>7, <3>2, <3>4
      <4>2. Window(u).to >= FirstDay - 1
        <5>1. Window(u).to = Today - 1 /\ FirstDay <= Today
          BY <1>1, WindowTyped DEF TypeInv, ReachInv
        <5> QED
          BY <1>2, <1>3, <5>1
      <4>3. ASSUME NEW k \in DOMAIN n.items, n.items[k].kind = "incremental_update"
            PROVE  n.items[k].from >= p
        <5> DEFINE it == ItemFor(Members[u][k], Window(u))
        <5>1. n.items[k] = it /\ k \in DOMAIN Members[u]
          BY <3>2
        <5>2. PICK i \in Instruments : i = Members[u][k] /\ Planned(i, Window(u), it)
          BY <1>1, <4>3, <5>1, NewItems, SkippedMade
        <5> HIDE DEF it
        <5>3. Stored(i) /\ it.from = Max({Window(u).from, Latest(i) + 1})
          BY <4>3, <5>1, <5>2, SkippedMade, ItemMade DEF Planned
        <5>4. Latest(i) \in candles[i] /\ (\A e \in candles[i] : e <= Latest(i)) /\ candles[i] \in SUBSET Nat
          BY <1>1, <5>3, Extremes DEF TypeInv
        <5>5. PICK e \in candles[i] : e >= p
          BY <5>3 DEF Stored, ReachInv
        <5>6. Latest(i) + 1 \in Int /\ Latest(i) + 1 >= p
          <6>1. Latest(i) \in Nat /\ e \in Nat /\ e <= Latest(i)
            BY <5>4, <5>5
          <6> QED
            BY <1>2, <5>5, <6>1
        <5>7. Window(u).from \in Int
          BY <1>1, WindowTyped DEF TypeInv, WindowType
        <5>8. it.from \in Int /\ it.from >= Latest(i) + 1
          <6>1. Max({Window(u).from, Latest(i) + 1}) >= Latest(i) + 1
            BY <5>6, <5>7, MaxOfTwo, Zenon
          <6>2. Max({Window(u).from, Latest(i) + 1}) \in {Window(u).from, Latest(i) + 1}
            BY <5>6, <5>7, MaxOfTwo, Zenon
          <6> HIDE DEF Max
          <6> QED
            BY <5>3, <5>6, <5>7, <6>1, <6>2
        <5>9. it.from >= p
          BY <1>2, <5>6, <5>8
        <5> QED
          BY <5>1, <5>9
      <4>4. ASSUME NEW k \in DOMAIN n.items, n.items[k].kind = "older_history_backfill"
            PROVE  LastDay - Retention <= n.items[k].to + 1
        <5> DEFINE it == ItemFor(Members[u][k], Window(u))
        <5>1. n.items[k] = it /\ k \in DOMAIN Members[u]
          BY <3>2
        <5>2. PICK i \in Instruments : i = Members[u][k] /\ Planned(i, Window(u), it)
          BY <1>1, <4>4, <5>1, NewItems, SkippedMade
        <5> HIDE DEF it
        <5>3. Stored(i) /\ First(i) > Window(u).from /\ it.to = First(i) - 1
          BY <4>4, <5>1, <5>2, SkippedMade, ItemMade DEF Planned
        <5>4. First(i) \in Int
          BY <1>1, <5>3, Extremes DEF TypeInv
        <5>5. Window(u).from = FloorOn(u, Today)
          BY <1>1, WindowOn
        <5>6. /\ FloorOn(u, FirstDay) \in Int /\ FloorOn(u, Today) \in Int
              /\ FloorOn(u, FirstDay) <= FloorOn(u, Today)
          BY <1>2, <1>3, FloorOnTyped, FloorOnMoves DEF ReachInv
        <5>7. LastDay - Retention <= FloorOn(u, FirstDay) + 1
          BY DEF Horizon
        <5> QED
          BY <1>2, <5>1, <5>3, <5>4, <5>5, <5>6, <5>7
      <4> QED
        BY <3>2, <4>1, <4>2, <4>3, <4>4
    <3> QED
      BY <3>3, <3>4
  <2> QED
    BY <1>1, <2>1, <2>2, StepQuiet
<1> QED
  BY <1>4, <1>5, <1>6, <1>7 DEF ReachInv

LEMMA ReachedInTime ==
  ASSUME NEW p, Horizon(p), KeptInv, ReachInv(p)
  PROVE  InTime
<1>1. TypeInv
  BY DEF KeptInv, HistoryInv, FetchInv
<1>2. /\ Today \in Int /\ Today <= LastDay /\ LastDay \in Nat /\ FirstDay \in Nat /\ p \in Nat
      /\ Retention \in Nat /\ p <= FirstDay - 2
  BY <1>1, TodayBefore, IntAssumptions, Days DEF Horizon
<1>3. CommonFloor \in Int /\ CommonFloor <= p + 1
  <2>1. PICK u \in Universes : CommonFloor = Window(u).from
    BY <1>1, FloorForm
  <2>2. /\ FloorOn(u, Today) \in Int /\ FloorOn(u, LastDay) \in Int
        /\ FloorOn(u, Today) <= FloorOn(u, LastDay)
    BY <1>2, FloorOnTyped, FloorOnMoves
  <2>3. Window(u).from = FloorOn(u, Today) /\ FloorOn(u, LastDay) <= p + 1
    BY <1>1, WindowOn DEF Horizon
  <2> QED
    BY <1>2, <2>1, <2>2, <2>3
<1>4. ASSUME NEW i \in Instruments, Stored(i) PROVE CommonFloor <= Latest(i) + 1
  <2>1. PICK x \in candles[i] : x >= p
    BY <1>4 DEF ReachInv, Stored
  <2>2. x \in Nat /\ Latest(i) \in Nat /\ x <= Latest(i)
    BY <1>1, <1>4, Extremes DEF TypeInv
  <2> QED
    BY <1>2, <1>3, <2>1, <2>2
<1>5. ASSUME NEW r \in DOMAIN runs
      PROVE  /\ CommonFloor <= runs[r].window.to + 1
             /\ \A k \in DOMAIN runs[r].items :
                  runs[r].items[k].kind = "older_history_backfill" =>
                    Today - Retention <= runs[r].items[k].to + 1
  <2>1. runs[r].window.to \in Int /\ runs[r].window.to >= FirstDay - 1
    BY <1>1, StatusesTyped DEF RunType, WindowType, ReachInv
  <2>2. CommonFloor <= runs[r].window.to + 1
    BY <1>2, <1>3, <2>1
  <2>3. ASSUME NEW k \in DOMAIN runs[r].items, runs[r].items[k].kind = "older_history_backfill"
        PROVE  Today - Retention <= runs[r].items[k].to + 1
    <3>1. LastDay - Retention <= runs[r].items[k].to + 1
      BY <2>3 DEF ReachInv
    <3>2. runs[r].items[k].to \in Int
      BY <1>1, RunFields
    <3> QED
      BY <1>2, <3>1, <3>2
  <2> QED
    BY <2>2, <2>3
<1> QED
  BY <1>4, <1>5 DEF InTime

\* In particular, over a time in which no window passes what the source had served at
\* the start and the purge does not pass the first windows, no outage is too long,
\* and the archive is kept whatever fails (the shorter lookback is a year, the
\* longer one five, and the purge is off by default).
THEOREM ShortHorizon ==
  ASSUME KeptWindow, NEW p, Horizon(p)
  PROVE  Spec => []InTime /\ KeepsArchive
<1>1. Init => ReachInv(p)
  <2> SUFFICES ASSUME Init PROVE ReachInv(p)
    OBVIOUS
  <2>1. /\ FirstDay \in Nat /\ LastDay \in Nat /\ FirstDay <= LastDay
        /\ now = 2 * FirstDay /\ published = FirstDay - 2
    BY IntAssumptions DEF Init, Horizon
  <2>2. FirstDay <= Today /\ now <= 2 * LastDay + 1 /\ published >= FirstDay - 2
    BY <2>1 DEF Today
  <2>3. DOMAIN runs = {} /\ \A i \in Instruments : candles[i] = {}
    BY DEF Init
  <2> QED
    BY <2>2, <2>3 DEF ReachInv
<1>2. KeptInv /\ ReachInv(p) => InTime
  BY ReachedInTime
<1>3. KeptInv /\ ReachInv(p) /\ [Next]_vars => KeptInv' /\ ReachInv(p)'
  BY <1>2, StepKept, StepReach
<1>4. Spec => []InTime
  BY <1>1, <1>2, <1>3, InitKept, PTL DEF Spec
<1> QED
  BY <1>4, ImplementsArchive, PTL
=============================================================================
