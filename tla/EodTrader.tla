----------------------------- MODULE EodTrader -----------------------------
(***************************************************************************)
(* The end-of-day paper trader of one strategy with the intraday engine    *)
(* switched off: one process per trading date that fills the pending       *)
(* orders, closes positions, places new orders and saves, writing          *)
(*                                                                         *)
(*   paper_trade_ledger.csv    one row per closed position, appended while *)
(*                             the exits are being worked out              *)
(*   paper_broker_state.json   the book, replaced once at the end          *)
(*   daily_report.csv          the row that marks the date as processed    *)
(*                                                                         *)
(* in that order, and can die between any two of them. v8_demo and         *)
(* uptrend_sideways differ in two places: SameDayGuard and AlwaysSaves.    *)
(*                                                                         *)
(* Money is left out: whether the cash suffices is a free choice. A        *)
(* session's candles are fixed when it is stored: which symbols have one,  *)
(* which of those cross a stop or target, and the day's signals in rank    *)
(* order.                                                                  *)
(***************************************************************************)
EXTENDS Integers, FiniteSets, FiniteSetsExt, Sequences, Bags

CONSTANTS
  Symbols,
  Days,          \* bound: trading dates, 0..n
  Runners,       \* processes that may run the strategy
  MaxSlots,      \* MAX_SLOTS
  MaxBars,       \* the holding limit, in bars
  SameDayGuard,  \* orders signalled on the date itself are not filled
  AlwaysSaves,   \* the book is saved also on a date without signals
  SessionData    \* bound: what a session's candles may hold

ASSUME TraderAssumption ==
  /\ IsFiniteSet(Symbols)
  /\ Days \subseteq Nat /\ \E n \in Days : \A d \in Days : d <= n
  /\ MaxSlots \in Nat /\ MaxBars \in Nat
  /\ SameDayGuard \in BOOLEAN /\ AlwaysSaves \in BOOLEAN
  /\ SessionData \subseteq
       [candles: SUBSET Symbols, crossed: SUBSET Symbols, signals: Seq(Symbols)]

VARIABLES
  sessions,  \* stored market data: date -> its candles
  book,      \* paper_broker_state.json
  trades,    \* paper_trade_ledger.csv: a bag of rows
  report,    \* daily_report.csv: dates in file order
  run        \* the runner processes, each with the trader it spawned

files == <<book, trades, report>>

Stored == DOMAIN sessions
EmptyBook == [pending |-> {}, open |-> {}]
SymbolsIn(rows) == {x.sym : x \in rows}

\* Where a runner is: no trader runs between "next" and the load, nor while
\* the wrapper writes its label.
Resting == {"idle", "next", "label"}
Idle == [pc |-> "idle", todo |-> {}, replayed |-> {}, label |-> "none", copy |-> EmptyBook]
\* The wrapper goes through its dates in their order.
Date(r) == Min(run[r].todo)
Candle(d, s) == s \in sessions[d].candles
Crossed(d, s) == s \in sessions[d].crossed

-----------------------------------------------------------------------------
(* Pure parts of a date's processing                                         *)

\* v8_demo fills any pending order, uptrend_sideways only older ones.
Fillable(b, d) ==
  {o \in b.pending : Candle(d, o.sym) /\ (SameDayGuard => o.sig # d)}

Opened(F, d) == {[sym |-> o.sym, sig |-> o.sig, entered |-> d, bars |-> 0] : o \in F}
\* Mutant of Aged: a session without a candle ages the position too.
AgedAlways(p, d) == [p EXCEPT !.bars = @ + 1]
Aged(p, d) == IF Candle(d, p.sym) THEN [p EXCEPT !.bars = @ + 1] ELSE p

\* Mutant of MustClose: off by one in the holding limit.
MustCloseLate(p, d) == Candle(d, p.sym) /\ (Crossed(d, p.sym) \/ p.bars > MaxBars)
MustClose(p, d) == Candle(d, p.sym) /\ (Crossed(d, p.sym) \/ p.bars >= MaxBars)

TradeRow(p, d) == [sym |-> p.sym, sig |-> p.sig, entered |-> p.entered, exited |-> d]

Claimed(b) == SymbolsIn(b.pending) \cup SymbolsIn(b.open)
\* Mutant of SlotsLeft: orders still pending take no slot.
SlotsBesideOrders(b) ==
  IF Cardinality(b.open) < MaxSlots THEN MaxSlots - Cardinality(b.open) ELSE 0
SlotsLeft(b) ==
  LET used == Cardinality(b.pending) + Cardinality(b.open)
  IN  IF used < MaxSlots THEN MaxSlots - used ELSE 0
Selected(b, d) ==
  LET ranked == sessions[d].signals
      n == SlotsLeft(b)
  IN  {ranked[i] : i \in {j \in DOMAIN ranked : j <= n}}

-----------------------------------------------------------------------------
(* Market data: the ingestion stores a session once its candles are there.   *)

Store(d, data) ==
  /\ d \notin Stored
  /\ sessions' = [e \in Stored \cup {d} |-> IF e = d THEN data ELSE sessions[e]]
  /\ UNCHANGED <<files, run>>

-----------------------------------------------------------------------------
(* The trader process of runner r                                            *)

\* load, process_pending_entries on the orders F the cash suffices for, and
\* process_exits, which appends a ledger row per exit as it goes.
Process(r) ==
  LET d == Date(r) IN
  /\ run[r].pc = "next" /\ run[r].todo # {}
  /\ \E F \in SUBSET Fillable(book, d) :
       LET held   == {Aged(p, d) : p \in book.open \cup Opened(F, d)}
           closed == {p \in held : MustClose(p, d)}
       IN  /\ trades' = trades (+) SetToBag({TradeRow(p, d) : p \in closed})
           /\ run' = [run EXCEPT ![r].pc = "processed",
                                 ![r].copy = [pending |-> book.pending \ F,
                                              open |-> held \ closed]]
  /\ UNCHANGED <<sessions, book, report>>

\* Mutant of Place: symbols already claimed are not skipped.
PlaceAgain(r) ==
  LET d == Date(r) IN
  /\ run[r].pc = "processed"
  /\ run' = [run EXCEPT ![r].pc = "placed",
                        ![r].copy.pending = @ \cup {[sym |-> s, sig |-> d] : s \in Selected(run[r].copy, d)}]
  /\ UNCHANGED <<sessions, files>>

\* place_entry_orders on the best signals that slots are left for.
Place(r) ==
  LET d == Date(r)
      b == run[r].copy
  IN
  /\ run[r].pc = "processed"
  /\ run' = [run EXCEPT ![r].pc = "placed",
                        ![r].copy.pending =
                          @ \cup {[sym |-> s, sig |-> d] : s \in Selected(b, d) \ Claimed(b)}]
  /\ UNCHANGED <<sessions, files>>

\* Mutant of Save: the positions are not saved.
SaveOrdersOnly(r) ==
  /\ run[r].pc = "placed"
  /\ book' = [book EXCEPT !.pending = run[r].copy.pending]
  /\ run' = [run EXCEPT ![r].pc = "saved"]
  /\ UNCHANGED <<sessions, trades, report>>

\* broker.save(): the loaded copy replaces the file.
Save(r) ==
  /\ run[r].pc = "placed"
  /\ book' = IF AlwaysSaves \/ sessions[Date(r)].signals # <<>> THEN run[r].copy ELSE book
  /\ run' = [run EXCEPT ![r].pc = "saved"]
  /\ UNCHANGED <<sessions, trades, report>>

\* The report row; the process exits and the runner goes on.
Report(r) ==
  /\ run[r].pc = "saved"
  /\ report' = Append(report, Date(r))
  /\ run' = [run EXCEPT ![r].pc = "next", ![r].todo = @ \ {Date(r)}, ![r].copy = EmptyBook]
  /\ UNCHANGED <<sessions, book, trades>>

TraderInit ==
  /\ sessions = <<>>
  /\ book = EmptyBook
  /\ trades = EmptyBag
  /\ report = <<>>
  /\ run = [r \in Runners |-> Idle]

TraderStep(r) == Process(r) \/ Place(r) \/ Save(r) \/ Report(r)
=============================================================================
