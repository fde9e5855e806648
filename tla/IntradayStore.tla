---------------------------- MODULE IntradayStore ----------------------------
(***************************************************************************)
(* The one-minute store, one symbol-day of it: an operator ingests a day's *)
(* answer, reconciles it with the official daily candle and derives longer *)
(* candles, in any order and again with a corrected answer; a command may  *)
(* die between its transactions.  A candle is [minute, price, ok]: minute  *)
(* OutOfSession or OtherDate when it does not belong to the day, and ok is *)
(* "good", "invalid" (price, OHLC order or volume) or "unparsed".          *)
(***************************************************************************)
EXTENDS Integers, Sequences, FiniteSets, FiniteSetsExt

CONSTANTS Minutes,     \* length of the session (375)
          Intervals,   \* aggregation intervals; the longest is the day
          Answers      \* what the source may answer: [array, rows]

OutOfSession == 0
OtherDate == -1
Session == 1 .. Minutes

VARIABLES
  symbolDay,   \* symbol_days: status and candle count
  minute,      \* minute_candles of the day: minute -> price
  quarantine,  \* answers kept aside
  reconciled,  \* daily_reconciliation: [gate, status] or none
  derived,     \* derived_candles: set of candles of every interval
  command      \* the running command and the day it has loaded

intradayStoreVars == <<symbolDay, minute, quarantine, reconciled, derived, command>>

NoMinutes == [m \in {} |-> 0]
NotReconciled == [gate |-> FALSE, status |-> "none"]
Idle == [pc |-> "idle", loaded |-> NoMinutes]

------------------------------------------------------------------------------
(* The parsed rows of the day, by their place in the answer.               *)
OfDay(a) == {k \in DOMAIN a.rows : a.rows[k].ok # "unparsed" /\ a.rows[k].minute # OtherDate}
MinuteOf(a, k) == a.rows[k].minute

Defective(a) ==
  \/ \E k \in DOMAIN a.rows : a.rows[k].ok = "unparsed" \/ MinuteOf(a, k) = OtherDate
  \/ \E k \in OfDay(a) : a.rows[k].ok = "invalid" \/ MinuteOf(a, k) = OutOfSession
  \/ \E j, k \in OfDay(a) : j # k /\ MinuteOf(a, j) = MinuteOf(a, k)

Missing(a) == Session \ {MinuteOf(a, k) : k \in OfDay(a)}

validate_payload(a) ==
  CASE ~a.array -> "rejected"
    [] a.array /\ OfDay(a) = {} /\ ~(\E k \in DOMAIN a.rows : a.rows[k].ok = "unparsed") -> "unavailable"
    [] OTHER -> IF Defective(a) THEN "rejected"
                ELSE IF Missing(a) # {} THEN "warning" ELSE "accepted"

CandlesOf(a) == [m \in {MinuteOf(a, k) : k \in OfDay(a)} |->
                 a.rows[CHOOSE k \in OfDay(a) : MinuteOf(a, k) = m].price]

(* Buckets are counted from the start of the session.                      *)
Bucket(m, interval) == (m - 1) \div interval
aggregate(candles, interval) ==
  {LET in == {m \in DOMAIN candles : Bucket(m, interval) = b} IN
   [interval |-> interval, bucket |-> b, source |-> Cardinality(in),
    open |-> candles[Min(in)], close |-> candles[Max(in)],
    high |-> Max({candles[m] : m \in in}), low |-> Min({candles[m] : m \in in})]
   : b \in {Bucket(m, interval) : m \in DOMAIN candles}}

------------------------------------------------------------------------------
\* Mutant of store_day: what was derived of the day before the correction stays.
StoreOverDerived(a) ==
  LET status == validate_payload(a) IN
  /\ command = Idle
  /\ symbolDay' = [status |-> status, count |-> Cardinality(OfDay(a))]
  /\ minute' = IF status \in {"accepted", "warning"} THEN CandlesOf(a) ELSE NoMinutes
  /\ quarantine' = IF status = "rejected" THEN quarantine \cup {a} ELSE quarantine
  /\ UNCHANGED <<reconciled, derived, command>>

(* One transaction per day: the row, its minutes, what was derived before. *)
store_day(a) ==
  LET status == validate_payload(a) IN
  /\ command = Idle
  /\ symbolDay' = [status |-> status, count |-> Cardinality(OfDay(a))]
  /\ minute' = IF status \in {"accepted", "warning"} THEN CandlesOf(a) ELSE NoMinutes
  /\ derived' = {}
  /\ quarantine' = IF status = "rejected" THEN quarantine \cup {a} ELSE quarantine
  /\ UNCHANGED <<reconciled, command>>

(* An error of the call itself.                                            *)
StoreUnavailable ==
  /\ command = Idle
  /\ symbolDay' = [status |-> "unavailable", count |-> 0]
  /\ minute' = NoMinutes /\ derived' = {}
  /\ UNCHANGED <<quarantine, reconciled, command>>

load_stored_day(pc) ==
  /\ command = Idle /\ symbolDay.status = "accepted"
  /\ command' = [pc |-> pc, loaded |-> minute]
  /\ UNCHANGED <<symbolDay, minute, quarantine, reconciled, derived>>

(* The official candle is missing, agrees on open, high and low, or not.   *)
store_reconciliation ==
  /\ command.pc = "reconcile" /\ command' = Idle
  /\ \E status \in {"unavailable", "validated", "warning"} :
       reconciled' = [gate |-> status # "unavailable" /\ Cardinality(DOMAIN command.loaded) = Minutes,
                      status |-> status]
  /\ UNCHANGED <<symbolDay, minute, quarantine, derived>>

derive_day ==
  /\ command.pc = "aggregate" /\ command' = Idle
  /\ derived' = IF reconciled.gate
                THEN UNION {aggregate(command.loaded, i) : i \in Intervals} ELSE derived
  /\ UNCHANGED <<symbolDay, minute, quarantine, reconciled>>

Dies == /\ command # Idle /\ command' = Idle
        /\ UNCHANGED <<symbolDay, minute, quarantine, reconciled, derived>>

Init == /\ symbolDay = [status |-> "absent", count |-> 0] /\ minute = NoMinutes
        /\ quarantine = {} /\ reconciled = NotReconciled /\ derived = {} /\ command = Idle

Next == \/ \E a \in Answers : store_day(a)
        \/ StoreUnavailable \/ store_reconciliation \/ derive_day \/ Dies
        \/ \E pc \in {"reconcile", "aggregate"} : load_stored_day(pc)

Spec == Init /\ [][Next]_intradayStoreVars
------------------------------------------------------------------------------
(* Whatever was ingested, corrected, reconciled and derived in whichever   *)
(* order: derived candles are those of the minutes now stored, of a whole  *)
(* session, and a longer interval's candle says what the shorter ones say. *)
DerivedFromMinutes ==
  derived # {} =>
    /\ symbolDay.status = "accepted" /\ DOMAIN minute = Session
    /\ \A i \in Intervals : {c \in derived : c.interval = i} = aggregate(minute, i)

RollsUp ==
  \A i, j \in Intervals : \A c \in derived :
    c.interval = j /\ j % i = 0 =>
      LET parts == {d \in derived : d.interval = i /\ (d.bucket * i) \div j = c.bucket} IN
      /\ c.high = Max({d.high : d \in parts}) /\ c.low = Min({d.low : d \in parts})
      /\ \E first, last \in parts :
           /\ \A d \in parts : first.bucket <= d.bucket /\ d.bucket <= last.bucket
           /\ c.open = first.open /\ c.close = last.close

(* A rejected answer leaves nothing of its own nor of the day before it in *)
(* the tables, and is itself kept.                                         *)
NothingRejectedStored ==
  /\ symbolDay.status \in {"rejected", "unavailable"} => minute = NoMinutes
  /\ symbolDay.status = "rejected" =>
       \E a \in quarantine : Cardinality(OfDay(a)) = symbolDay.count
==============================================================================
