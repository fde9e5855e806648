---------------------------- MODULE ForwardLogger ----------------------------
(***************************************************************************)
(* The V7b forward paper logger and its daily health check: one command    *)
(* per as-of date that fills the pending orders, closes positions, places  *)
(* the date's orders, saves the portfolio, and only then appends the       *)
(* closed trades to the ledger and a row to the daily log, with a death    *)
(* possible between any two writes (and inside the rewrite of the          *)
(* portfolio, which truncates the file first).  --force repeats a date.    *)
(*                                                                         *)
(* A run is started for the last run's date or a later one, one run at a   *)
(* time; it works on a book in memory, order by order, position by         *)
(* position and signal by signal.  The list of pending orders is the set   *)
(* of its members: it is in the order of the signals' dates and ranks.     *)
(* Friction is left out; files nothing reads (signals, fetch failures) too.*)
(***************************************************************************)
EXTENDS Integers, Sequences, FiniteSets, Functions

CONSTANTS
  Sessions,   \* what a session may hold: bars (symbol -> bar) and ranked signals
  Universe,   \* symbols of the index
  MayFail,    \* bound: symbols whose candles a run may fail to fetch
  MAX_SLOTS, TimeStop, StartingEquity,
  MaxSessions, MaxForced, MaxLogDeaths   \* bounds

VARIABLES
  stored,      \* Matsya's daily candles, by date
  portfolio,   \* forward_paper_portfolio.json
  tradeLedger, \* forward_paper_trade_ledger.csv
  dailyLog,    \* forward_paper_daily_log.csv
  logger,      \* the running command: its book, what it has yet to look at or append
  lost,        \* trades closed in a saved book whose rows were never appended
  forced, logDeaths

Book(last, cash, pending, open) ==
  [last |-> last, cash |-> cash, pending |-> pending, open |-> open]
Torn == [torn |-> TRUE]
load_state == Book(0, StartingEquity, {}, {})

NoRun == [pc |-> "idle"]
Working(pc, book, todo, closed, row) ==
  [pc |-> pc, book |-> book, todo |-> todo, closed |-> closed, row |-> row]

Init ==
  /\ stored = <<>> /\ portfolio = load_state /\ tradeLedger = <<>> /\ dailyLog = <<>>
  /\ logger = NoRun /\ lost = {} /\ forced = 0 /\ logDeaths = 0
------------------------------------------------------------------------------
\* Mutant of Replaced: a forced repeat keeps the orders of its date.
KeptOrders(b, d) == b

(* A forced repeat of the last date drops the orders of that date.         *)
Replaced(b, d) ==
  IF b.last = d THEN Book(b.last, b.cash, {o \in b.pending : o.sig # d}, b.open) ELSE b

process_day(d, force, failed) ==
  LET b == Replaced(portfolio, d)
      row == [date |-> d, latest |-> Len(stored), failures |-> failed]
  IN /\ logger = NoRun /\ portfolio # Torn
     /\ d \in DOMAIN stored /\ d >= portfolio.last
     /\ portfolio.last = d <=> force
     /\ force => forced < MaxForced
     /\ forced' = IF force THEN forced + 1 ELSE forced
     /\ logger' = Working("orders", b, b.pending, {}, row)
     /\ UNCHANGED <<stored, portfolio, tradeLedger, dailyLog, lost, logDeaths>>

(* The candle of the date a run with this row of the log is about.         *)
HasCandle(row, sym) == sym \in (Universe \ row.failures) \cap DOMAIN stored[row.date].bars
Bar(row, sym) == stored[row.date].bars[sym]

\* The run goes on with these.
Works(pc, book, todo, closed) ==
  /\ logger' = Working(pc, book, todo, closed, logger.row)
  /\ UNCHANGED <<stored, portfolio, tradeLedger, dailyLog, lost, forced, logDeaths>>

------------------------------------------------------------------------------
Position(x, entered, shares, entry, bars) ==
  [sym |-> x.sym, sig |-> x.sig, entered |-> entered, shares |-> shares, entry |-> entry, bars |-> bars]
Before(o, p) == o.sig < p.sig \/ (o.sig = p.sig /\ o.rank < p.rank)

(* An order is filled at the open when its allocation buys a share and the *)
(* cash suffices, and stays pending otherwise.                             *)
process_pending_orders ==
  /\ logger.pc = "orders"
  /\ \E o \in logger.todo :
       LET b == logger.book
           price == Bar(logger.row, o.sym).open
           shares == o.allocation \div price
           filled == HasCandle(logger.row, o.sym) /\ shares > 0 /\ shares * price <= b.cash
       IN /\ \A x \in logger.todo : ~Before(x, o)
          /\ \/ filled /\ Works("orders",
                  Book(b.last, b.cash - shares * price, b.pending \ {o},
                       b.open \cup {Position(o, logger.row.date, shares, price, 0)}),
                  logger.todo \ {o}, {})
             \/ ~filled /\ Works("orders", b, logger.todo \ {o}, {})

orders_processed ==
  /\ logger.pc = "orders" /\ logger.todo = {}
  /\ Works("positions", logger.book, logger.book.open, {})

Stop(p) == (95 * p.entry) \div 100
Target(p) == (110 * p.entry) \div 100
Exit(p, bar) ==
  IF bar.low <= Stop(p) THEN {Stop(p)}
  ELSE IF bar.high >= Target(p) THEN {Target(p)}
  ELSE IF p.bars >= TimeStop THEN {bar.close} ELSE {}

Aged(p) == Position(p, p.entered, p.shares, p.entry, p.bars + 1)
Trade(p, d, price) ==
  [sym |-> p.sym, sig |-> p.sig, entered |-> p.entered, exited |-> d, bars |-> p.bars,
   pnl |-> (price - p.entry) * p.shares]

(* A position with a candle is a bar older, and closed at the exit the     *)
(* candle reached; no position bears on another.                           *)
process_open_positions ==
  /\ logger.pc = "positions"
  /\ \E p \in logger.todo :
       LET b == logger.book  bar == Bar(logger.row, p.sym)
           without == b.open \ {p}  todo == logger.todo \ {p}
       IN \/ /\ HasCandle(logger.row, p.sym)
             /\ \E price \in Exit(Aged(p), bar) :
                  Works("positions", Book(b.last, b.cash + p.shares * price, b.pending, without), todo,
                        logger.closed \cup {Trade(Aged(p), logger.row.date, price)})
          \/ /\ HasCandle(logger.row, p.sym) /\ Exit(Aged(p), bar) = {}
             /\ Works("positions", Book(b.last, b.cash, b.pending, without \cup {Aged(p)}), todo, logger.closed)
          \/ ~HasCandle(logger.row, p.sym) /\ Works("positions", b, todo, logger.closed)

positions_processed ==
  /\ logger.pc = "positions" /\ logger.todo = {}
  /\ Works("signals", logger.book, DOMAIN stored[logger.row.date].signals, logger.closed)

current_open_value(b, row) ==
  SumFunctionOnSet([p \in b.open |->
    p.shares * (IF HasCandle(row, p.sym) THEN Bar(row, p.sym).close ELSE p.entry)], b.open)

(* Orders for the best signals without a claim, as long as slots are free; *)
(* the signals of a date are of different symbols.                         *)
place_orders ==
  /\ logger.pc = "signals"
  /\ \E k \in logger.todo :
       LET b == logger.book
           sym == stored[logger.row.date].signals[k]
           selected == /\ HasCandle(logger.row, sym) /\ \A x \in b.open \cup b.pending : x.sym # sym
                       /\ Cardinality(b.open) + Cardinality(b.pending) < MAX_SLOTS
           allocation == (b.cash + current_open_value(b, logger.row)) \div MAX_SLOTS
           order == [sym |-> sym, sig |-> logger.row.date, rank |-> k, allocation |-> allocation]
       IN /\ \A j \in logger.todo : k <= j
          /\ \/ selected /\ Works("signals", Book(b.last, b.cash, b.pending \cup {order}, b.open),
                                  logger.todo \ {k}, logger.closed)
             \/ ~selected /\ Works("signals", b, logger.todo \ {k}, logger.closed)

------------------------------------------------------------------------------
save_state ==
  LET b == logger.book IN
  /\ logger.pc = "signals" /\ logger.todo = {}
  /\ portfolio' = Book(logger.row.date, b.cash, b.pending, b.open)
  /\ logger' = Working("append", b, {}, logger.closed, logger.row)
  /\ UNCHANGED <<stored, tradeLedger, dailyLog, lost, forced, logDeaths>>

append_trade ==
  /\ logger.pc = "append"
  /\ \E t \in logger.closed :
       /\ tradeLedger' = Append(tradeLedger, t)
       /\ logger' = Working("append", logger.book, {}, logger.closed \ {t}, logger.row)
  /\ UNCHANGED <<stored, portfolio, dailyLog, lost, forced, logDeaths>>

append_log ==
  /\ logger.pc = "append" /\ logger.closed = {}
  /\ dailyLog' = Append(dailyLog, logger.row)
  /\ logger' = NoRun
  /\ UNCHANGED <<stored, portfolio, tradeLedger, lost, forced, logDeaths>>

NewSession == \E s \in Sessions :
  /\ Len(stored) < MaxSessions
  /\ stored' = Append(stored, s)
  /\ UNCHANGED <<portfolio, tradeLedger, dailyLog, logger, lost, forced, logDeaths>>

LoggerDies ==
  /\ logger # NoRun /\ logDeaths < MaxLogDeaths
  /\ logDeaths' = logDeaths + 1
  /\ logger' = NoRun
  /\ lost' = IF logger.pc = "append" THEN lost \cup logger.closed ELSE lost
  /\ \/ UNCHANGED portfolio
     \/ logger.pc = "signals" /\ logger.todo = {} /\ portfolio' = Torn
  /\ UNCHANGED <<stored, tradeLedger, dailyLog, forced>>

Next ==
  \/ \E d \in 1 .. MaxSessions, force \in BOOLEAN, failed \in SUBSET MayFail :
       process_day(d, force, failed)
  \/ process_pending_orders \/ orders_processed
  \/ process_open_positions \/ positions_processed \/ place_orders
  \/ save_state \/ append_trade \/ append_log \/ NewSession \/ LoggerDies

(* The check of the newest row of the daily log.                           *)
run_health_check ==
  dailyLog # <<>> /\ LET row == dailyLog[Len(dailyLog)] IN row.latest = row.date /\ row.failures = {}
------------------------------------------------------------------------------
(* The rows of the closes that have been saved.                            *)
Unwritten == IF logger.pc = "append" THEN logger.closed ELSE {}
Closes == Range(tradeLedger) \cup Unwritten \cup lost
Invested(positions) == SumFunctionOnSet([p \in positions |-> p.shares * p.entry], positions)
Profit(rows) == SumFunctionOnSet([r \in rows |-> r.pnl], rows)
SessionsHeld(p, until) == Cardinality({d \in p.entered .. until : p.sym \in DOMAIN stored[d].bars})

(* The saved portfolio accounts for the starting equity and every close:   *)
(* the ledger misses exactly the closes of runs that died after the save.  *)
PortfolioAddsUp ==
  portfolio # Torn =>
    /\ portfolio.cash + Invested(portfolio.open) = StartingEquity + Profit(Closes)
    /\ portfolio.cash >= 0

(* One claim per symbol, within the slots, entered after its signal; a     *)
(* trade is recorded once, and bars are sessions, but for forced repeats,  *)
(* each of which may age a position once more.                             *)
ClaimsHeld ==
  portfolio # Torn =>
    LET claims == portfolio.open \cup portfolio.pending IN
    /\ Cardinality(portfolio.open) + Cardinality(portfolio.pending) <= MAX_SLOTS
    /\ \A x, y \in claims : x.sym = y.sym => x = y
    /\ \A p \in portfolio.open :
         p.sig < p.entered /\ p.bars <= SessionsHeld(p, portfolio.last) + forced
    /\ Cardinality({<<r.sym, r.entered>> : r \in Closes})
         = Len(tradeLedger) + Cardinality(Unwritten) + Cardinality(lost)

(* The daily log is in date order and never ahead of the portfolio, so     *)
(* what the health check passes was the newest date when it was processed. *)
LogFollowsPortfolio ==
  /\ \A j, k \in DOMAIN dailyLog : j < k => dailyLog[j].date <= dailyLog[k].date
  /\ portfolio # Torn /\ dailyLog # <<>> => dailyLog[Len(dailyLog)].date <= portfolio.last

LoggerAddsUp == PortfolioAddsUp /\ ClaimsHeld /\ LogFollowsPortfolio
==============================================================================
