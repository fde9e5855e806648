--------------------------- MODULE OrderLifecycle ---------------------------
(***************************************************************************)
(* What the paper book promises of its orders, whatever files, locks and   *)
(* processes carry it: an order, named by its symbol and signal date, is   *)
(* placed once, then entered or missed once, then closed once; a symbol    *)
(* has one live order at a time and the book no more than MaxSlots.        *)
(* PaperEngine is shown to implement it.                                   *)
(***************************************************************************)
EXTENDS Integers, FiniteSets

CONSTANTS
  Symbols, Dates, MaxSlots,
  DayTrades   \* may one save both enter an order and close its position?

VARIABLE status   \* of every order the book could ever contain

Orders   == Symbols \X Dates
Statuses == {"none", "pending", "open", "closed", "missed"}
Live(st) == {o \in Orders : st[o] \in {"pending", "open"}}

\* The steps of one order's life. One save of the book may move several.
Edges == {<<"none", "pending">>, <<"pending", "open">>, <<"pending", "missed">>,
          <<"open", "closed">>}
         \cup (IF DayTrades THEN {<<"pending", "closed">>} ELSE {})

Allowed(st) ==
  /\ Cardinality(Live(st)) <= MaxSlots
  /\ \A o1, o2 \in Live(st) : o1[1] = o2[1] => o1 = o2

Init == /\ status = [o \in Orders |-> "none"]

Move ==
  /\ \A o \in Orders : status'[o] = status[o] \/ <<status[o], status'[o]>> \in Edges
  /\ Allowed(status')

Next == status' \in [Orders -> Statuses] /\ Move

Spec == Init /\ [][Next]_status
=============================================================================
