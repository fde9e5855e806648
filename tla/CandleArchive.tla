---------------------------- MODULE CandleArchive ----------------------------
(***************************************************************************)
(* What the daily candle fetch promises of its archive, whatever runs,     *)
(* retries, deaths and restarts it takes to get there: the candles kept    *)
(* for an instrument are a gapless stretch of what the source has          *)
(* published, growing at either end, and an instrument is declared         *)
(* complete only when the source has nothing older inside the window that  *)
(* every universe asks for.                                                *)
(***************************************************************************)
EXTENDS Integers, FiniteSets

CONSTANTS Instruments,   \* what candles are kept for
          Sessions,      \* the days the exchange trades
          Listing        \* first session of each instrument at the source

VARIABLES published,     \* last day whose candles the source serves
          floor,         \* first day that every window asks for
          candles,       \* days stored, per instrument
          complete       \* instruments whose history counts as complete

archiveVars == <<published, floor, candles, complete>>

Available(i) == {d \in Sessions : Listing[i] <= d /\ d <= published}

(* No session the source serves is missing between two stored ones.        *)
Gapless(i, S) == \A d \in Available(i) :
                   (\E e \in S : e <= d) /\ (\E e \in S : d <= e) => d \in S

(* Empty counts too: everything is asked for again from the floor.        *)
NothingOlder(i) ==
  \/ candles[i] = {}
  \/ \A d \in Available(i) : floor <= d => \E e \in candles[i] : e <= d

Init == /\ candles = [i \in Instruments |-> {}]
        /\ complete = {}

(* One instrument's stretch grows by sessions the source serves.           *)
Capture(i) == /\ candles' = [candles EXCEPT ![i] = @ \cup (candles'[i] \cap Available(i))]
              /\ Gapless(i, candles'[i])
              /\ UNCHANGED <<published, floor, complete>>

Declare(i) == /\ NothingOlder(i)
              /\ complete' = complete \cup {i}
              /\ UNCHANGED <<published, floor, candles>>

(* A day passes or the source catches up: neither touches the archive.     *)
Advance == /\ published' >= published /\ floor' >= floor
           /\ UNCHANGED <<candles, complete>>

(* Retention drops a prefix.                                               *)
Purge == /\ \A i \in Instruments :
              /\ candles'[i] \subseteq candles[i]
              /\ \A d \in candles[i] \ candles'[i] : \A e \in candles'[i] : d < e
         /\ UNCHANGED <<published, floor, complete>>

Next == Advance \/ Purge \/ \E i \in Instruments : Capture(i) \/ Declare(i)

Spec == Init /\ [][Next]_archiveVars
==============================================================================
