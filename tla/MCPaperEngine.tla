--------------------------- MODULE MCPaperEngine ---------------------------
(* Small instances of PaperEngine for TLC. *)
EXTENDS PaperEngine

CONSTANTS s1, s2

\* 76, 80 and 88 rupees: the v8 stop, entry and target of an 80-rupee fill.
MCPrices == {7600, 8000, 8800}
MCBars ==
  {[open |-> 8000, low |-> 8000, high |-> 8000, close |-> 8000],  \* quiet
   [open |-> 8000, low |-> 7600, high |-> 8000, close |-> 7600],  \* through the stop
   [open |-> 8000, low |-> 7600, high |-> 8800, close |-> 8000]}  \* ambiguous

MCLegacy ==
  {[sym |-> s2, sig |-> Legacy, entered |-> 0, shares |-> 1, cost |-> 8020,
    stop |-> 7600, target |-> 8800, bars |-> 0, rec |-> None]}
NoLegacy == {}

\* Below the base and at the target of an uptrend_sideways order.
EdgePrices == {7600, 8800}
=============================================================================
