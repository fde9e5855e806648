-------------------------- MODULE MCPaperContinuity --------------------------
(* Small instances of PaperContinuity for TLC. *)
EXTENDS PaperContinuity

CONSTANTS s1, s2, cron, manual

\* One symbol: no candle, a quiet one or one through a level; signal or not.
OneSymbol ==
  {[candles |-> c, crossed |-> x, signals |-> s] :
     c \in {{s1}}, x \in {{}, {s1}}, s \in {<<>>, <<s1>>}}
  \cup {[candles |-> {}, crossed |-> {}, signals |-> <<>>]}

\* Two symbols that both signal, in either rank.
TwoSymbols ==
  {[candles |-> {s1, s2}, crossed |-> x, signals |-> s] :
     x \in {{}, {s1}, {s1, s2}}, s \in {<<>>, <<s1>>, <<s1, s2>>, <<s2, s1>>}}
  \cup {[candles |-> {s2}, crossed |-> {}, signals |-> <<>>]}
=============================================================================
