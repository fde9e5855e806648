---------------------------- MODULE PaperEngine ----------------------------
(***************************************************************************)
(* The intraday paper execution engine of one strategy and the end-of-day  *)
(* trader that feeds it, around the strategy's ledger directory:           *)
(*                                                                         *)
(*   paper_broker_state.json   cash, pending orders, open positions and    *)
(*                             the engine's event log, replaced atomically *)
(*   paper_trade_ledger.csv    one row per closed trade, rewritten after   *)
(*                             the state file, in a second write           *)
(*   .paper_state.lock         held around every read-modify-write         *)
(*                                                                         *)
(* The worker process turns ticks into entries and exits and reconciles    *)
(* the session after the close; the trader process reads the state without *)
(* the lock, decides on new orders and merges them back under the lock.    *)
(* Both can die at any point.                                              *)
(*                                                                         *)
(* Money is in paise, so that the 0.25% friction of the modelled prices is *)
(* a whole number. A day is TicksPerDay instants, the last of them after   *)
(* the market's close; every modelled day is a trading day.                *)
(***************************************************************************)
EXTENDS Integers, FiniteSets, FiniteSetsExt, Functions

CONSTANTS
  Symbols,        \* tradable symbols
  Prices,         \* raw prices a tick can carry
  Bars,           \* minute bars [open, low, high, close] Dhan can return
  StartCash,      \* equity of the epoch when it starts
  Allocation,     \* target allocation written into every order
  MaxSlots,       \* MAX_SLOTS of the trader
  MaxBars,        \* max_holding_bars of the policy
  RelativeExits,  \* TRUE: v8_demo, exits relative to the entry price
  BaseLow,        \* uptrend_sideways: stop level carried by the order
  SignalTarget,   \* uptrend_sideways: target level carried by the order
  LegacyPositions,\* positions an EOD run may have opened before the engine
  TicksPerDay,    \* instants of a day
  MaxTime,        \* bound: last instant of the model
  MaxLate,        \* bound: how late a packet can arrive
  MaxCandles,     \* bound: minute candles returned per symbol and session
  ReportCrash     \* may the trader die between its save and its report row?

None   == -1      \* no date
Legacy == -1      \* signal date of a position without an entry event

ASSUME ConstantsAssumption ==
  /\ IsFiniteSet(Symbols)
  /\ Prices \subseteq Nat \ {0}
  /\ Bars \subseteq [open: Nat, low: Nat, high: Nat, close: Nat]
  /\ StartCash \in Nat /\ Allocation \in Nat /\ BaseLow \in Nat /\ SignalTarget \in Nat
  /\ MaxSlots \in Nat /\ MaxBars \in Nat \ {0, 1}
  /\ RelativeExits \in BOOLEAN /\ ReportCrash \in BOOLEAN
  /\ TicksPerDay \in Nat \ {0, 1} /\ MaxTime \in Nat
  /\ MaxLate \in Nat /\ MaxCandles \in Nat

VARIABLES
  now,        \* the wall clock
  cash,       \* state file: cash
  pending,    \* state file: pending_orders
  open,       \* state file: open_positions
  events,     \* state file: intraday.events, keyed by event id
  last,       \* state file: intraday.last_ticks
  ledger,     \* paper_trade_ledger.csv: rows per exit event id
  lock,       \* .paper_state.lock
  worker,     \* the worker process
  recon,      \* the worker's reconciliation task
  tr,         \* the end-of-day trader process
  lastReport  \* last date in daily_report.csv

stateFile == <<cash, pending, open, events, last>>
vars == <<now, stateFile, ledger, lock, worker, recon, tr, lastReport>>

DayOf(t) == t \div TicksPerDay
InSession(t) == t % TicksPerDay # TicksPerDay - 1
DayClosed(d) == DayOf(now) > d \/ (DayOf(now) = d /\ ~InSession(now))

SymsOf(rows) == {r.sym : r \in rows}
DesiredSymbols == SymsOf(pending) \cup SymsOf(open)

EntryId(r)  == <<"entry", r.sym, r.sig>>
MissedId(r) == <<"missed", r.sym, r.sig>>
\* Mutant of ExitId: exits keyed by symbol, not by the entry they close.
ExitIdBySymbol(r) == <<"exit", r.sym, 0>>
ExitId(r)   == <<"exit", r.sym, r.sig>>
EventIds == {e.id : e \in events}
ExitEvents == {e \in events : e.type = "exit"}
RecordEvents(es) == events \cup {e \in es : e.id \notin EventIds}

-----------------------------------------------------------------------------
(* Prices, friction and the exit levels of a position                        *)

EffectiveEntry(px) == px + (px * 25) \div 10000
EffectiveExit(px)  == px - (px * 25) \div 10000
SharesFor(px) == Allocation \div EffectiveEntry(px)

StopLevel(px)   == IF RelativeExits THEN (px * 95) \div 100 ELSE BaseLow
TargetLevel(px) == IF RelativeExits THEN (px * 110) \div 100 ELSE SignalTarget

\* v8_demo stops at the level, uptrend_sideways only below it.
StopHit(p, px)   == IF RelativeExits THEN px <= p.stop ELSE px < p.stop
TargetHit(p, px) == p.target > 0 /\ px >= p.target

PositionOf(o, at, px) ==
  [sym |-> o.sym, sig |-> o.sig, entered |-> at,
   shares |-> SharesFor(px), cost |-> SharesFor(px) * EffectiveEntry(px),
   stop |-> StopLevel(px), target |-> TargetLevel(px), bars |-> 0, rec |-> None]

Proceeds(p, px) == p.shares * EffectiveExit(px)

EntryEvent(o)  == [id |-> EntryId(o), type |-> "entry", pnl |-> 0, at |-> None, entered |-> None]
RefusedEvent(o)== [id |-> EntryId(o), type |-> "missed", pnl |-> 0, at |-> None, entered |-> None]
\* Mutant of MissedEvent: an event id without the signal date.
MissedEventUndated(o) == [id |-> <<"missed", o.sym>>, type |-> "missed", pnl |-> 0, at |-> None, entered |-> None]
MissedEvent(o) == [id |-> MissedId(o), type |-> "missed", pnl |-> 0, at |-> None, entered |-> None]
ExitEvent(p, px, at) ==
  [id |-> ExitId(p), type |-> "exit", pnl |-> Proceeds(p, px) - p.cost,
   at |-> at, entered |-> p.entered]

-----------------------------------------------------------------------------
(* The feed: one packet for one symbol                                       *)

\* Either way only a packet counter of the state file changes: no step here.
OutOfOrder(s, at)    == at < last[s].at
Duplicate(s, at, px) == at = last[s].at /\ px = last[s].px

\* A later trading date than the signal's, inside the session.
Enterable(o, at) == InSession(at) /\ DayOf(at) > o.sig
EnterableAt(s, at) == {o \in pending : o.sym = s /\ Enterable(o, at)}

EnterOrder(o, at, px) ==
  /\ EntryId(o) \notin EventIds
  /\ SharesFor(px) > 0
  /\ SharesFor(px) * EffectiveEntry(px) <= cash
  /\ cash' = cash - SharesFor(px) * EffectiveEntry(px)
  /\ pending' = pending \ {o}
  /\ open' = open \cup {PositionOf(o, at, px)}
  /\ events' = RecordEvents({EntryEvent(o)})

\* Mutant of RefuseOrder: the refusal is not recorded.
RefuseSilently(o, px) ==
  /\ EntryId(o) \notin EventIds
  /\ SharesFor(px) <= 0 \/ SharesFor(px) * EffectiveEntry(px) > cash
  /\ pending' = pending \ {o}
  /\ UNCHANGED <<cash, open, events>>

RefuseOrder(o, px) ==
  /\ EntryId(o) \notin EventIds
  /\ \/ SharesFor(px) <= 0
     \/ SharesFor(px) * EffectiveEntry(px) > cash
  /\ pending' = pending \ {o}
  /\ events' = RecordEvents({RefusedEvent(o)})
  /\ UNCHANGED <<cash, open>>

\* The order's entry is already in the log: reported, and left in place.
RepeatEntry(o) ==
  /\ EntryId(o) \in EventIds
  /\ UNCHANGED <<cash, pending, open, events>>

LiveExitPrice(p, px) ==
  IF StopHit(p, px) THEN IF px < p.stop THEN px ELSE p.stop ELSE p.target

ExitDue(p, at, px) ==
  /\ InSession(at)
  /\ StopHit(p, px) \/ TargetHit(p, px)
  /\ ExitId(p) \notin EventIds

\* Mutant of LiveExit: cash is credited at the tick, the ledger at the level.
LiveExitAtTick(p, at, px) ==
  /\ ExitDue(p, at, px)
  /\ cash' = cash + Proceeds(p, px)
  /\ open' = open \ {p}
  /\ events' = RecordEvents({ExitEvent(p, LiveExitPrice(p, px), at)})
  /\ UNCHANGED pending

LiveExit(p, at, px) ==
  /\ ExitDue(p, at, px)
  /\ cash' = cash + Proceeds(p, LiveExitPrice(p, px))
  /\ open' = open \ {p}
  /\ events' = RecordEvents({ExitEvent(p, LiveExitPrice(p, px), at)})
  /\ UNCHANGED pending

HeldAs(s) == {p \in open : p.sym = s}

\* process_tick: _fill_pending, else _process_live_exit, then the state is
\* saved; the ledger is still to be written and the lock is still held.
ProcessTick(s, at, px) ==
  /\ worker = "up" /\ lock = "free"
  /\ s \in DesiredSymbols
  /\ ~OutOfOrder(s, at) /\ ~Duplicate(s, at, px)
  /\ \/ \E o \in EnterableAt(s, at) :
          EnterOrder(o, at, px) \/ RefuseOrder(o, px) \/ RepeatEntry(o)
     \/ /\ EnterableAt(s, at) = {}
        /\ \/ \E p \in HeldAs(s) : LiveExit(p, at, px)
           \/ /\ \A p \in HeldAs(s) : ~ExitDue(p, at, px)
              /\ UNCHANGED <<cash, pending, open, events>>
  /\ last' = [last EXCEPT ![s] = [at |-> at, px |-> px]]
  /\ worker' = "syncing" /\ lock' = "worker"
  /\ UNCHANGED <<now, ledger, recon, tr, lastReport>>

Tick == \E s \in Symbols, at \in {t \in 0..now : now - t <= MaxLate}, px \in Prices :
          ProcessTick(s, at, px)

\* _sync_trade_ledger: every exit event of the log without a row gets one.
ExitIds == {"exit"} \X Symbols \X ((0..DayOf(MaxTime)) \cup {Legacy})
MissingRow(id) == ledger[id] = 0 /\ \E e \in ExitEvents : e.id = id
SyncedLedger == [id \in ExitIds |-> IF MissingRow(id) THEN 1 ELSE ledger[id]]

SyncLedger ==
  /\ worker = "syncing"
  /\ ledger' = SyncedLedger
  /\ worker' = "up" /\ lock' = "free"
  /\ UNCHANGED <<now, stateFile, recon, tr, lastReport>>

-----------------------------------------------------------------------------
(* Reconciliation of a session, after the cutoff                             *)

Candles(d) == [at: {t \in 0..MaxTime : DayOf(t) = d /\ InSession(t)}, bar: Bars]
CandleSets(d) ==
  {C \in UNION {kSubset(k, Candles(d)) : k \in 0..MaxCandles} :
     \A c1, c2 \in C : c1.at = c2.at => c1 = c2}

CandlesFor(cs, p) == IF p.sym \in DOMAIN cs THEN cs[p.sym] ELSE {}

\* Mutant of Counted: last_reconciled_date is not consulted.
CountedAgain(p, cs, d) ==
  IF CandlesFor(cs, p) # {} THEN [p EXCEPT !.bars = @ + 1, !.rec = d] ELSE p

\* One bar per session that has candles, however often it is reconciled.
Counted(p, cs, d) ==
  IF CandlesFor(cs, p) # {} /\ p.rec # d
  THEN [p EXCEPT !.bars = @ + 1, !.rec = d] ELSE p

\* A position without an entry event has the epoch as its instant of entry.
Triggers(p, cs) ==
  {c \in CandlesFor(cs, p) : /\ p.sig = Legacy \/ c.at > p.entered
                             /\ StopHit(p, c.bar.low) \/ TargetHit(p, c.bar.high)}
FirstOf(C) == CHOOSE c \in C : \A e \in C : c.at <= e.at
LastOf(C)  == CHOOSE c \in C : \A e \in C : c.at >= e.at

TriggerPrice(p, bar) ==
  IF StopHit(p, bar.low)
  THEN IF bar.open <= p.stop THEN bar.open ELSE p.stop
  ELSE p.target

RecoveredExit(p, cs) ==
  IF Triggers(p, cs) # {}
  THEN LET c == FirstOf(Triggers(p, cs)) IN ExitEvent(p, TriggerPrice(p, c.bar), c.at)
  ELSE LET c == LastOf(CandlesFor(cs, p)) IN ExitEvent(p, c.bar.close, c.at)

\* The positions a reconciliation closes: a stop or target was crossed after
\* the entry, or the holding limit is reached, and no exit was recorded yet.
Closing(cs, d) ==
  {p \in open : /\ ExitId(p) \notin EventIds
                /\ \/ Triggers(p, cs) # {}
                   \/ CandlesFor(cs, p) # {} /\ Counted(p, cs, d).bars >= MaxBars}

MissedOrders(d) == {o \in pending : o.sig < d}

ReconcileFetch ==
  /\ worker = "up" /\ lock = "free" /\ recon.pc = "idle"
  /\ ~InSession(now) /\ recon.completed # DayOf(now)
  /\ recon' = [recon EXCEPT !.pc = "fetching", !.targets = DesiredSymbols]
  /\ UNCHANGED <<now, stateFile, ledger, lock, worker, tr, lastReport>>

\* A failed request, or no candle for any target of either strategy of the
\* worker: retried by the loop.
ReconcileFail ==
  /\ recon.pc = "fetching"
  /\ recon' = [recon EXCEPT !.pc = "idle", !.targets = {}]
  /\ UNCHANGED <<now, stateFile, ledger, lock, worker, tr, lastReport>>

\* Candles of the worker's other strategy are enough to get here.
Reconcile(cs) ==
  LET d == DayOf(now)
      closing == Closing(cs, d)
  IN
  /\ worker = "up" /\ lock = "free" /\ recon.pc = "fetching"
  /\ cash' = cash + SumFunction([p \in closing |-> RecoveredExit(p, cs).pnl + p.cost])
  /\ open' = {Counted(p, cs, d) : p \in open \ closing}
  /\ pending' = pending \ MissedOrders(d)
  /\ events' = RecordEvents({RecoveredExit(p, cs) : p \in closing}
                              \cup {MissedEvent(o) : o \in MissedOrders(d)})
  /\ recon' = [pc |-> "idle", targets |-> {}, completed |-> d]
  /\ worker' = "syncing" /\ lock' = "worker"
  /\ UNCHANGED <<now, last, ledger, tr, lastReport>>

ReconcileSession == \E cs \in [recon.targets -> CandleSets(DayOf(now))] : Reconcile(cs)

-----------------------------------------------------------------------------
(* Crashes, restarts and the lock file                                       *)

WorkerCrash ==
  /\ worker # "down"
  /\ worker' = "down"
  /\ lock' = IF worker = "syncing" THEN "orphan" ELSE lock
  /\ recon' = [pc |-> "idle", targets |-> {}, completed |-> None]
  /\ UNCHANGED <<now, stateFile, ledger, tr, lastReport>>

\* Mutant of WorkerStart: no catch-up of the ledger.
WorkerStartUnsynced ==
  /\ worker = "down" /\ lock = "free"
  /\ worker' = "up"
  /\ UNCHANGED <<now, stateFile, ledger, lock, recon, tr, lastReport>>

\* sync_all_ledgers runs before either loop of the worker starts.
WorkerStart ==
  /\ worker = "down" /\ lock = "free"
  /\ ledger' = SyncedLedger
  /\ worker' = "up"
  /\ UNCHANGED <<now, stateFile, lock, recon, tr, lastReport>>

\* A lock file older than stale_seconds is removed by whoever wants the lock.
BreakStaleLock ==
  /\ lock = "orphan"
  /\ lock' = "free"
  /\ UNCHANGED <<now, stateFile, ledger, worker, recon, tr, lastReport>>

-----------------------------------------------------------------------------
(* The end-of-day trader, with the intraday engine enabled                   *)

NextRunDate == lastReport + 1
NoRun == [pc |-> "idle", pend |-> {}, keys |-> {}, held |-> {}]
\* Mutant of SlotsAvailable: orders still pending take no slot.
SlotsBesidePositions ==
  IF Cardinality(open) < MaxSlots THEN MaxSlots - Cardinality(open) ELSE 0

SlotsAvailable ==
  LET used == Cardinality(pending) + Cardinality(open)
  IN  IF used < MaxSlots THEN MaxSlots - used ELSE 0

\* load without the lock, then place_entry_orders on the loaded copy.
TraderPlace(S) ==
  /\ tr.pc = "idle" /\ DayClosed(NextRunDate)
  /\ Cardinality(S) <= SlotsAvailable
  /\ tr' = [pc |-> "placed", keys |-> pending, held |-> SymsOf(open),
            pend |-> pending \cup
              {[sym |-> s, sig |-> NextRunDate] : s \in S \ DesiredSymbols}]
  /\ UNCHANGED <<now, stateFile, ledger, lock, worker, recon, lastReport>>

\* Mutant of NewOrders: the loaded copy is written back whole.
AllOrders == tr.pend

\* The orders this run added: not the keys it loaded, some of which the
\* worker may have filled since.
NewOrders == {o \in tr.pend : o \notin tr.keys}

TraderSave ==
  /\ tr.pc = "placed" /\ lock = "free"
  /\ pending' = pending \cup NewOrders
  /\ tr' = [NoRun EXCEPT !.pc = "saved"]
  /\ UNCHANGED <<now, cash, open, events, last, ledger, lock, worker, recon, lastReport>>

TraderReport ==
  /\ tr.pc = "saved"
  /\ lastReport' = NextRunDate
  /\ tr' = NoRun
  /\ UNCHANGED <<now, stateFile, ledger, lock, worker, recon>>

\* A crash, or the lock's timeout: the same date is run again later.
TraderDies ==
  /\ tr.pc = "placed" \/ (tr.pc = "saved" /\ ReportCrash)
  /\ tr' = NoRun
  /\ UNCHANGED <<now, stateFile, ledger, lock, worker, recon, lastReport>>

-----------------------------------------------------------------------------
(* A fetch ends (or times out) before the next session opens.                *)
Advance ==
  /\ now < MaxTime
  /\ recon.pc = "idle"
  /\ now' = now + 1
  /\ UNCHANGED <<stateFile, ledger, lock, worker, recon, tr, lastReport>>

\* What the open positions cost.
Paid == SumFunction([p \in open |-> p.cost])

Init ==
  /\ now = 0
  /\ open \in {{}} \cup {{p} : p \in LegacyPositions}
  /\ cash = StartCash - Paid
  /\ pending = {} /\ events = {}
  /\ last = [s \in Symbols |-> [at |-> None, px |-> 0]]
  /\ ledger = [id \in ExitIds |-> 0]
  /\ lock = "free" /\ worker = "up"
  /\ recon = [pc |-> "idle", targets |-> {}, completed |-> None]
  /\ tr = NoRun /\ lastReport = None

Next ==
  \/ Advance \/ Tick \/ SyncLedger
  \/ ReconcileFetch \/ ReconcileFail \/ ReconcileSession
  \/ WorkerCrash \/ WorkerStart \/ BreakStaleLock
  \/ \E S \in SUBSET Symbols : TraderPlace(S)
  \/ TraderSave \/ TraderReport \/ TraderDies

Spec == Init /\ [][Next]_vars

Fairness ==
  /\ WF_vars(SyncLedger) /\ WF_vars(WorkerStart) /\ WF_vars(BreakStaleLock)
FairSpec == Spec /\ Fairness

-----------------------------------------------------------------------------
(* Properties                                                                *)

OrderType == [sym: Symbols, sig: Nat]
PositionType == [sym: Symbols, sig: Nat \cup {Legacy}, entered: Nat, shares: Nat,
                 cost: Nat, stop: Nat, target: Nat, bars: Nat, rec: Int]
\* What an end-of-day run may have left: a position of the epoch, entered
\* before the engine starts, paid for and not yet due.
ASSUME LegacyAssumption ==
  /\ LegacyPositions \subseteq
       {p \in PositionType : /\ p.sig = Legacy /\ p.entered = 0 /\ p.rec = None
                             /\ p.bars < MaxBars /\ p.cost <= StartCash}
  /\ LegacyPositions # {} => MaxSlots > 0

EventIdType == {"entry", "missed", "exit"} \X Symbols \X (Nat \cup {Legacy})

\* The variables hold values of their types (cash, a sum, is left to
\* CashConserved).
TypeOK ==
  /\ now \in 0..MaxTime
  /\ pending \subseteq OrderType /\ IsFiniteSet(pending)
  /\ open \subseteq PositionType /\ IsFiniteSet(open)
  /\ \A e \in events : e.id \in EventIdType /\ e.type \in {"entry", "missed", "exit"}
  /\ last \in [Symbols -> [at: Int, px: Nat]]
  /\ ledger \in [ExitIds -> Nat]
  /\ lock \in {"free", "worker", "orphan"}
  /\ worker \in {"up", "syncing", "down"}
  /\ recon \in [pc: {"idle", "fetching"}, targets: SUBSET Symbols, completed: Int]
  /\ tr \in [pc: {"idle", "placed", "saved"}, pend: SUBSET OrderType,
             keys: SUBSET OrderType, held: SUBSET Symbols] /\ IsFiniteSet(tr.pend)
  /\ lastReport \in Int /\ lastReport >= None

\* A symbol is claimed once: by one pending order or by one open position,
\* although the trader decides on a copy of the state that the worker has
\* changed by the time the orders are merged back.
OneClaimPerSymbol ==
  /\ \A o1, o2 \in pending : o1.sym = o2.sym => o1 = o2
  /\ \A p1, p2 \in open : p1.sym = p2.sym => p1 = p2
  /\ \A o \in pending, p \in open : o.sym # p.sym

\* While the trader holds a copy loaded earlier, the copy still names every
\* symbol the book claims, and the orders it will add claim others: this is
\* what makes merging them into a book that has changed since harmless.
LoadedSyms == SymsOf(tr.keys) \cup tr.held
StaleCopyCovers ==
  tr.pc = "placed" =>
    /\ \A o \in pending : o.sym \in LoadedSyms
    /\ \A p \in open : p.sym \in LoadedSyms
    /\ \A n \in NewOrders : n.sym \notin LoadedSyms
    /\ \A n1, n2 \in NewOrders : n1.sym = n2.sym => n1 = n2

\* The portfolio never holds or awaits more than MAX_SLOTS positions.
SlotsBounded == Cardinality(pending) + Cardinality(open) <= MaxSlots

\* No money appears or disappears: cash plus what the open positions cost is
\* the starting equity plus the realised result of every recorded exit, and
\* no entry is paid with money the account does not have.
CashConserved ==
  /\ cash + Paid = StartCash + SumFunction([e \in ExitEvents |-> e.pnl])
  /\ cash >= 0

\* An open position has its entry in the log and no exit: one whose exit is
\* already logged could never be closed again.
PositionsClosable ==
  \A p \in open : /\ p.sig # Legacy => EntryId(p) \in EventIds
                  /\ ExitId(p) \notin EventIds

\* The trade ledger never has two rows for an exit nor a row without one,
\* and whenever the worker serves ticks it has a row for every exit, also
\* after a crash between the state file's replacement and the ledger's.
LedgerMatchesLog ==
  /\ \A id \in ExitIds : ledger[id] <= 1
  /\ \A id \in ExitIds : ledger[id] > 0 => \E e \in ExitEvents : e.id = id
  /\ worker = "up" => \A e \in ExitEvents : ledger[e.id] = 1

\* Reconciling a session again, after a restart or a failure, does not age a
\* position: it has at most one bar per session since its entry.
OneBarPerSession ==
  \A p \in open : p.sig # Legacy => p.bars <= DayOf(now) - DayOf(p.entered) + 1

\* No position outlives its holding limit: when it has been counted for
\* max_holding_bars sessions it is closed in that very reconciliation.
HoldingBounded == \A p \in open : p.bars < MaxBars

\* An exit is never dated before the entry it closes, however late, repeated
\* or reordered the packets and however often the session is reconciled.
ExitNotBeforeEntry == \A e \in ExitEvents : e.at >= e.entered

\* The book and the event log tell one story of every position: it can still
\* be closed, it is closed in time, and no exit precedes its entry.
BookConsistent == PositionsClosable /\ HoldingBounded /\ ExitNotBeforeEntry

\* Nothing is dropped silently: an order leaves the pending list only with its
\* entry or its miss on record, a position leaves the book only with its exit.
NothingDropped ==
  [][/\ \A o \in pending \ pending' : {EntryId(o), MissedId(o)} \cap EventIds' # {}
     /\ \A p \in open : (\A q \in open' : q.sym # p.sym) => ExitId(p) \in EventIds']_vars

\* Every recorded exit reaches the trade ledger.
LedgerCatchesUp ==
  \A id \in ExitIds : (\E e \in ExitEvents : e.id = id) ~> ledger[id] = 1

\* The engine implements the lifecycle of OrderLifecycle: a step of either
\* process, with any crash in between, is a legal step of every order or none.
Dates == 0..DayOf(MaxTime)
OrderStatus(o) ==
  LET r == [sym |-> o[1], sig |-> o[2]] IN
  IF \E p \in open : p.sym = r.sym /\ p.sig = r.sig THEN "open"
  ELSE IF r \in pending THEN "pending"
  ELSE IF ExitId(r) \in EventIds THEN "closed"
  ELSE IF {EntryId(r), MissedId(r)} \cap EventIds # {} THEN "missed" ELSE "none"
Lifecycle == INSTANCE OrderLifecycle WITH
               DayTrades <- FALSE,
               status <- [o \in Symbols \X Dates |-> OrderStatus(o)]
ImplementsLifecycle == Lifecycle!Spec

\* An order lives for the session after its signal: entered then or never.
EntersNextSessionOnly ==
  \A p \in open : p.sig # Legacy => DayOf(p.entered) = p.sig + 1

\* An order recorded as missed had no entry.
MissedHadNoEntry ==
  \A e, f \in events : (e.type = "missed" /\ f.type = "entry")
                          => <<e.id[2], e.id[3]>> # <<f.id[2], f.id[3]>>
=============================================================================
