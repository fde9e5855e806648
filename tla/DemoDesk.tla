------------------------------ MODULE DemoDesk ------------------------------
(***************************************************************************)
(* The retired demo desk: Drishti's hits become watchlist candidates, the  *)
(* monitor turns a triggered candidate into an order, refresh fills, marks *)
(* and closes, and learning keeps what became of each position.  Methods   *)
(* are synchronous, each database write a transaction of its own: "work"   *)
(* is what the running call has still to do, lost when the process dies.   *)
(* One instrument; session k is its k-th candle; 0 is an absent price.     *)
(***************************************************************************)
EXTENDS Integers, Sequences, FiniteSets, FiniteSetsExt, Functions

CONSTANTS Candles,     \* [open, high, low, close] a session may bring
          Reviews,     \* [decision, pullback, low, high, breakout, stop, target]
          AnchorLow, InitialCash, MaxHolding, ExpirySessions,
          MaxCandles, MaxHits, MaxOrders, MaxDeaths   \* bounds

VARIABLES
  candles,     \* daily_candles
  hits,        \* drishti_signal_hits: id -> trigger session
  candidates,  \* watchlist_candidates: hit -> candidate
  orders,      \* demo_orders: id -> order
  nextOrder,   \* AUTOINCREMENT of orders, and of positions
  positions,   \* demo_positions: id -> position
  account,     \* cash and realized pnl
  snapshots,   \* learning_decision_snapshots: hit -> candles seen
  outcomes,    \* learning_trade_outcomes: position -> outcome
  work, deaths, unlearned

deskVars == <<candles, hits, candidates, orders, nextOrder, positions, account,
              snapshots, outcomes, work, deaths, unlearned>>
ledger == <<orders, nextOrder, positions, account>>
learning == <<snapshots, outcomes, unlearned>>
market == <<candles, hits>>

Empty == [x \in {} |-> 0]
Put(f, x, v) == [y \in DOMAIN f \cup {x} |-> IF y = x THEN v ELSE f[y]]
Sorted(S, Before(_, _)) ==
  CHOOSE s \in [1 .. Cardinality(S) -> S] :
    \A j, k \in DOMAIN s : j < k => s[j] # s[k] /\ Before(s[j], s[k])
InOrder(S) == Sorted(S, <=)
Calls(what, ids) == [k \in DOMAIN ids |-> [do |-> what, id |-> ids[k]]]

------------------------------------------------------------------------------
(* The tables.                                                             *)
NewAccount == [cash |-> InitialCash, realized |-> 0]
NewCandidate(h, r) ==
  [date |-> hits[h], status |-> "active", review |-> r, expires |-> hits[h] + ExpirySessions,
   checked |-> hits[h], order |-> 0]
NewOrder(h, plan) ==
  [hit |-> h, date |-> hits[h], status |-> "pending_entry", plan |-> plan, filled |-> 0]
NewPosition(o, price, target) ==
  [entry |-> o.plan.after + 1, price |-> price, stop |-> o.plan.stop, target |-> target,
   status |-> "open", latest |-> 0, holding |-> 0, exit |-> 0, reason |-> "", date |-> o.date]

(* A session's candle; a hit of the scan on the stored candles.  A repeated *)
(* scan finds the same session again under a new id.                       *)
NewCandle(c) ==
  /\ work = <<>> /\ Len(candles) < MaxCandles /\ candles' = Append(candles, c)
  /\ UNCHANGED <<hits, candidates, ledger, learning, work, deaths>>

\* Bound: of the last candle no hit is followed, for nothing can follow it.
InsertHit(k) ==
  /\ work = <<>> /\ Cardinality(DOMAIN hits) < MaxHits /\ k < MaxCandles
  /\ hits' = Put(hits, Cardinality(DOMAIN hits) + 1, k)
  /\ UNCHANGED <<candles, candidates, ledger, learning, work, deaths>>

------------------------------------------------------------------------------
(* The watchlist.                                                          *)
EntryRule(r) ==
  CASE r.decision = "IGNORE" -> "ignore"
    [] r.decision = "ENTER" -> "enter_now"
    [] OTHER -> IF r.pullback THEN "wait_pullback" ELSE "wait_breakout"

upsert_from_review(h, r) ==
  LET same == {g \in DOMAIN candidates : candidates[g].date = hits[h]}
      status == IF r.decision = "IGNORE" THEN "ignored" ELSE "active" IN
  /\ work = <<>> /\ same \subseteq {h}
  /\ candidates' = Put(candidates, h,
       IF h \notin DOMAIN candidates THEN [NewCandidate(h, r) EXCEPT !.status = status]
       ELSE [candidates[h] EXCEPT !.review = r,
               !.status = IF @ \in {"entered", "expired", "invalidated"} THEN @ ELSE status])
  /\ UNCHANGED <<market, ledger, learning, work, deaths>>

(* Close strength 0.6 of the candle's range, which a flat one never has.   *)
EntryTriggered(r, c) ==
  CASE EntryRule(r) = "enter_now" -> TRUE
    [] EntryRule(r) = "wait_pullback" -> r.low # 0 /\ r.high # 0 /\ c.low <= r.high /\ c.high >= r.low
    [] EntryRule(r) = "wait_breakout" ->
         /\ r.breakout # 0 /\ c.close > r.breakout /\ c.high > c.low
         /\ 10 * (c.close - c.low) >= 6 * (c.high - c.low)
    [] OTHER -> FALSE

(* More than 5 % above the base price, or more than 8 % at risk, expected  *)
(* at the next open when it is stored already, else at the close.          *)
Chased(r, k) ==
  LET price == IF k < Len(candles) THEN candles[k + 1].open ELSE candles[k].close
      base == CASE EntryRule(r) = "wait_breakout" -> r.breakout
                [] EntryRule(r) = "wait_pullback" -> r.high
                [] OTHER -> IF r.high # 0 THEN r.high ELSE r.breakout IN
  \/ base # 0 /\ 100 * (price - base) > 5 * base
  \/ r.stop # 0 /\ 100 * (price - r.stop) > 8 * price

(* Limits are kept in hundredths of a price.                               *)
OrderPlan(r, k) ==
  LET breakout == EntryRule(r) = "wait_breakout" IN
  [low |-> 100 * (IF breakout THEN r.breakout ELSE r.low),
   high |-> IF breakout THEN Max({100 * r.high, 102 * candles[k].close, 102 * r.breakout})
            ELSE 100 * r.high,
   stop |-> IF r.stop # 0 THEN r.stop ELSE AnchorLow,
   target |-> IF breakout THEN 0 ELSE r.target, after |-> k]

ClientPlan(h) == [low |-> 0, high |-> 0, stop |-> AnchorLow, target |-> 0, after |-> hits[h]]

Close(h, status, k) == [candidates EXCEPT ![h] = [@ EXCEPT !.status = status, !.checked = k]]

active == {h \in DOMAIN candidates : candidates[h].status = "active"}
Earlier(g, h) == \/ candidates[g].date < candidates[h].date
                 \/ candidates[g].date = candidates[h].date /\ g < h
monitor_entries ==
  /\ work = <<>> /\ active # {}
  /\ work' = Calls("candidate", Sorted(active, Earlier))
  /\ UNCHANGED <<market, candidates, ledger, learning, deaths>>

Doing(what) == work # <<>> /\ Head(work).do = what
place(h, plan, then) == <<[do |-> "place", id |-> h, plan |-> plan, session |-> plan.after]>> \o then

CandidateStep ==
  LET h == Head(work).id  c == candidates[h]  k == c.checked + 1  r == c.review IN
  /\ Doing("candidate")
  /\ \/ k > Len(candles) /\ work' = Tail(work) /\ UNCHANGED candidates
     \/ /\ k <= Len(candles) /\ k > c.expires
        /\ candidates' = Close(h, "expired", k) /\ work' = Tail(work)
     \/ /\ k <= Len(candles) /\ k <= c.expires /\ r.stop # 0 /\ candles[k].low <= r.stop
        /\ candidates' = Close(h, "invalidated", k) /\ work' = Tail(work)
     \/ /\ k <= Len(candles) /\ k <= c.expires /\ ~(r.stop # 0 /\ candles[k].low <= r.stop)
        /\ IF EntryTriggered(r, candles[k]) /\ ~Chased(r, k)
           THEN /\ work' = place(h, OrderPlan(r, k), <<[do |-> "enter", id |-> h, session |-> k]>>) \o Tail(work)
                /\ UNCHANGED candidates
           ELSE candidates' = [candidates EXCEPT ![h] = [@ EXCEPT !.checked = k]] /\ work' = Tail(work)
  /\ UNCHANGED <<market, ledger, learning, deaths>>

\* Mutant of OrdersOf: a repeated scan's hit of the same signal is not looked for.
OrdersOfHit(h) == {i \in DOMAIN orders : orders[i].hit = h}

OrdersOf(h) ==
  LET own == {i \in DOMAIN orders : orders[i].hit = h} IN
  IF own # {} THEN own ELSE {i \in DOMAIN orders : orders[i].date = hits[h]}

mark_entered ==
  LET h == Head(work).id IN
  /\ Doing("enter")
  /\ candidates' = [Close(h, "entered", Head(work).session) EXCEPT
                      ![h] = [@ EXCEPT !.order = Max(OrdersOf(h) \cup {0})]]
  /\ work' = Tail(work) /\ UNCHANGED <<market, ledger, learning, deaths>>

------------------------------------------------------------------------------
(* Demo trading.  A hit has its order once: an order of the hit, or of the *)
(* same signal on the same session, is returned and the book refreshed.    *)
place_order(h) ==
  /\ work = <<>> /\ work' = place(h, ClientPlan(h), <<>>)
  /\ UNCHANGED <<market, candidates, ledger, learning, deaths>>

refresh == /\ work = <<>> /\ work' = <<[do |-> "refresh"]>>
           /\ UNCHANGED <<market, candidates, ledger, learning, deaths>>

PlaceStep ==
  LET h == Head(work).id  refreshed == <<[do |-> "refresh"]>> \o Tail(work) IN
  /\ Doing("place") /\ UNCHANGED <<market, candidates, positions, account, outcomes, unlearned, deaths>>
  /\ \/ /\ OrdersOf(h) # {} /\ work' = refreshed
        /\ UNCHANGED <<orders, nextOrder, snapshots>>
     \/ /\ OrdersOf(h) = {} /\ h \notin DOMAIN snapshots
        /\ snapshots' = Put(snapshots, h, Cardinality({k \in DOMAIN candles : k <= hits[h]}))
        /\ UNCHANGED <<orders, nextOrder, work>>
     \/ /\ OrdersOf(h) = {} /\ h \in DOMAIN snapshots /\ nextOrder <= MaxOrders
        /\ orders' = Put(orders, nextOrder, NewOrder(h, Head(work).plan))
        /\ nextOrder' = nextOrder + 1 /\ work' = refreshed /\ UNCHANGED snapshots

pending_orders == {i \in DOMAIN orders : orders[i].status = "pending_entry"}
open_positions == {i \in DOMAIN positions : positions[i].status = "open"}

RefreshStep ==
  /\ Doing("refresh")
  /\ work' = Calls("fill", InOrder(pending_orders)) \o <<[do |-> "positions"]>> \o Tail(work)
  /\ UNCHANGED <<market, candidates, ledger, learning, deaths>>

Earliest(i, j) == \/ positions[i].entry < positions[j].entry
                  \/ positions[i].entry = positions[j].entry /\ i < j
PositionsStep ==
  /\ Doing("positions")
  /\ work' = Calls("position", Sorted(open_positions, Earliest)) \o Tail(work)
  /\ UNCHANGED <<market, candidates, ledger, learning, deaths>>

FillStep ==
  LET i == Head(work).id  o == orders[i]  k == o.plan.after + 1  open == candles[k].open
      rejected == \/ o.plan.low # 0 /\ 100 * open < o.plan.low
                  \/ o.plan.high # 0 /\ 100 * open > o.plan.high
                  \/ open <= o.plan.stop \/ open > account.cash
      target == IF o.plan.target # 0 THEN o.plan.target ELSE open + 2 * (open - o.plan.stop) IN
  /\ Doing("fill") /\ work' = Tail(work)
  /\ IF k > Len(candles) THEN UNCHANGED ledger
     ELSE /\ UNCHANGED nextOrder
          /\ IF rejected
             THEN orders' = [orders EXCEPT ![i] = [@ EXCEPT !.status = "rejected"]] /\ UNCHANGED <<positions, account>>
             ELSE /\ orders' = [orders EXCEPT ![i] = [@ EXCEPT !.status = "filled", !.filled = k]]
                  /\ positions' = Put(positions, i, NewPosition(o, open, target))
                  /\ account' = [account EXCEPT !.cash = @ - open]
  /\ UNCHANGED <<market, candidates, learning, deaths>>

NextSession(p) == IF p.latest = 0 THEN p.entry ELSE p.latest + 1
Exit(p, c, held) ==
  CASE c.low <= p.stop -> [price |-> p.stop, reason |-> "STOP_LOSS"]
    [] c.low > p.stop /\ c.high >= p.target -> [price |-> p.target, reason |-> "TARGET"]
    [] c.low > p.stop /\ c.high < p.target /\ held >= MaxHolding -> [price |-> c.close, reason |-> "TIME_EXIT"]
    [] OTHER -> [price |-> 0, reason |-> ""]

(* One candle of one position: marked, or closed for what it paid.         *)
PositionStep ==
  LET i == Head(work).id  p == positions[i]  k == NextSession(p)
      held == p.holding + 1  x == Exit(p, candles[k], held)
      outcome == [do |-> "outcome", id |-> i] IN
  /\ Doing("position")
  /\ IF k > Len(candles) THEN work' = Tail(work) /\ UNCHANGED <<ledger, unlearned>>
     ELSE /\ UNCHANGED <<orders, nextOrder>>
          /\ IF x.reason = ""
             THEN /\ positions' = [positions EXCEPT ![i] = [@ EXCEPT !.latest = k, !.holding = held]]
                  /\ work' = (IF k < Len(candles) THEN <<Head(work)>> ELSE <<outcome>>) \o Tail(work)
                  /\ UNCHANGED <<account, unlearned>>
             ELSE /\ positions' = [positions EXCEPT ![i] =
                                     [@ EXCEPT !.latest = k, !.holding = held,
                                       !.status = "closed", !.exit = x.price, !.reason = x.reason]]
                  /\ account' = [cash |-> account.cash + x.price, realized |-> account.realized + x.price - p.price]
                  /\ work' = <<outcome>> \o Tail(work) /\ unlearned' = unlearned \cup {i}
  /\ UNCHANGED <<market, candidates, snapshots, outcomes, deaths>>

(* Learning looks at the candles from entry to exit again.                 *)
label_outcome(p) ==
  LET path == {candles[k] : k \in p.entry .. p.latest}
      hit == \E c \in path : c.high >= p.target
      stopped == \E c \in path : c.low <= p.stop IN
  CASE p.status # "closed" -> "open"
    [] p.reason = "TARGET" \/ (p.reason = "TIME_EXIT" /\ hit /\ ~stopped) -> "winner"
    [] p.reason = "STOP_LOSS" \/ (p.reason = "TIME_EXIT" /\ stopped /\ ~hit) -> "failure"
    [] OTHER -> IF p.exit > p.price THEN "neutral_positive"
                ELSE IF p.exit < p.price THEN "neutral_negative" ELSE "neutral"

upsert_trade_outcome ==
  LET i == Head(work).id IN
  /\ Doing("outcome") /\ work' = Tail(work)
  /\ outcomes' = Put(outcomes, i,
       [entry |-> IF i \in DOMAIN outcomes THEN outcomes[i].entry ELSE positions[i].entry,
        status |-> positions[i].status, label |-> label_outcome(positions[i])])
  /\ unlearned' = unlearned \ {i}
  /\ UNCHANGED <<market, candidates, ledger, snapshots, deaths>>

reset_ledger ==
  /\ work = <<>> /\ orders # Empty
  /\ orders' = Empty /\ positions' = Empty /\ account' = NewAccount
  /\ UNCHANGED <<market, candidates, nextOrder, learning, work, deaths>>

Dies == /\ work # <<>> /\ deaths < MaxDeaths /\ deaths' = deaths + 1 /\ work' = <<>>
        /\ UNCHANGED <<market, candidates, ledger, learning>>

Init ==
  /\ candles \in {<<c>> : c \in Candles} /\ hits = Empty /\ candidates = Empty
  /\ orders = Empty /\ nextOrder = 1 /\ positions = Empty /\ account = NewAccount
  /\ snapshots = Empty /\ outcomes = Empty /\ work = <<>> /\ deaths = 0 /\ unlearned = {}

Next ==
  \/ \E c \in Candles : NewCandle(c)
  \/ \E k \in DOMAIN candles : InsertHit(k)
  \/ \E h \in DOMAIN hits : place_order(h) \/ (\E r \in Reviews : upsert_from_review(h, r))
  \/ monitor_entries \/ CandidateStep \/ mark_entered \/ PlaceStep \/ refresh \/ RefreshStep
  \/ PositionsStep \/ FillStep \/ PositionStep \/ upsert_trade_outcome \/ reset_ledger \/ Dies

Spec == Init /\ [][Next]_deskVars
------------------------------------------------------------------------------
(* What the journal shows: an order joined with its position, its outcome  *)
(* and the candidate that entered it, which may multiply it.               *)
journal ==
  LET entered(i) == {h \in DOMAIN candidates : candidates[h].order = i} IN
  {<<i, h>> : i \in DOMAIN orders, h \in DOMAIN candidates \cup {0}} \cap
  UNION {IF entered(i) = {} THEN {<<i, 0>>} ELSE {i} \X entered(i) : i \in DOMAIN orders}
Closed(rows) == {t \in rows : t[1] \in DOMAIN positions /\ positions[t[1]].status = "closed"}
Label(i) == IF i \in DOMAIN outcomes THEN outcomes[i].label ELSE ""
Winners == {t \in Closed(journal) : Label(t[1]) = "winner" \/ positions[t[1]].reason = "TARGET"}
Failures == {t \in Closed(journal) : Label(t[1]) = "failure" \/ positions[t[1]].reason = "STOP_LOSS"}
Realized(rows) ==
  SumFunctionOnSet([t \in Closed(rows) |-> positions[t[1]].exit - positions[t[1]].price], Closed(rows))

(* Whichever calls died half-way: the account is the starting cash less    *)
(* what the open positions cost plus what the closed ones made, and the    *)
(* journal's summary shows that very sum, each order once.                 *)
JournalAddsUp ==
  /\ account.cash = InitialCash + account.realized
       - SumFunctionOnSet([i \in open_positions |-> positions[i].price], open_positions)
  /\ Realized(journal) = account.realized /\ Winners \cap Failures = {}

(* However often a scan, a review or a died monitor is repeated, a signal  *)
(* session is ordered once, and filled at an open after the candle that    *)
(* triggered the entry.                                                    *)
OneOrderPerSignal ==
  /\ \A i, j \in DOMAIN orders : orders[i].date = orders[j].date => i = j
  /\ \A i \in DOMAIN positions : positions[i].entry > orders[i].date

(* Refreshed late, twice or again after a death, a position has counted    *)
(* each session since its entry once and was not held past its limit.      *)
SessionsCountedOnce ==
  \A i \in DOMAIN positions :
    /\ positions[i].latest # 0 => positions[i].holding = positions[i].latest - positions[i].entry + 1
    /\ positions[i].holding <= MaxHolding
    /\ positions[i].status = "open" /\ positions[i].latest # 0 =>
         \A k \in positions[i].entry .. positions[i].latest :
           candles[k].low > positions[i].stop /\ candles[k].high < positions[i].target

(* What learning keeps of a position is about that position, its close     *)
(* included unless the process died between the two.                       *)
LearnsWhatHappened ==
  /\ \A i \in DOMAIN positions \cap DOMAIN outcomes :
       outcomes[i].entry = positions[i].entry
  /\ \A i \in DOMAIN positions :
       positions[i].status = "closed" /\ i \notin unlearned =>
         i \in DOMAIN outcomes /\ outcomes[i].status = "closed"

(* A candidate once entered, expired or invalidated stays that, whatever   *)
(* a later review says.                                                    *)
CandidatesFinal ==
  \A h \in DOMAIN candidates :
    candidates[h].status \in {"entered", "expired", "invalidated"} =>
      candidates'[h].status = candidates[h].status
=============================================================================
