------------------------------- MODULE ScanRuns -------------------------------
(***************************************************************************)
(* The research refreshes of the swing app: a run is created, the stocks   *)
(* are read in one query and scanned in order, each stock's findings are a *)
(* transaction of their own, and the run is finished with its counts.      *)
(* Kinds "moves" and "signal" insert rows of the run; kind "regimes"       *)
(* upserts one row per stock and day, whichever run wrote it before.  The  *)
(* handlers never yield, so refreshes do not overlap in the one process,   *)
(* which may die in the middle of one.                                     *)
(***************************************************************************)
EXTENDS Integers, Sequences, FiniteSets

CONSTANTS Universe,    \* the stocks, 1 .. n in the order of their symbols
          Kinds,       \* of {"moves", "signal", "regimes"}
          MaxScans     \* bound on the number of runs

VARIABLES scans,       \* the runs, a sequence of [kind, status, found, scanned]
          scanRows,    \* rows of moves and signal runs: [scan, stock]
          regimes,     \* stock -> the run that wrote its regime rows, 0 for none
          scanning     \* in memory: the refresh at work, [left, found, scanned]
scanVars == <<scans, scanRows, regimes, scanning>>

Idle == [left |-> {}, found |-> 0, scanned |-> 0, on |-> FALSE]
NewScan(kind) == [kind |-> kind, status |-> "running", found |-> 0, scanned |-> 0]
Latest == Len(scans)
Regime == scans[Latest].kind = "regimes"

Init == /\ scans = <<>> /\ scanRows = {} /\ scanning = Idle
        /\ regimes = [s \in Universe |-> 0]

(* create_run, then candle_groups.                                         *)
CreateScan(kind) ==
  /\ ~scanning.on /\ Latest < MaxScans
  /\ scans' = Append(scans, NewScan(kind))
  /\ scanning' = [Idle EXCEPT !.on = TRUE, !.left = Universe]
  /\ UNCHANGED <<scanRows, regimes>>

Stock == CHOOSE s \in scanning.left : \A t \in scanning.left : s <= t
Passed(found, enough) ==
  /\ scanning.on /\ scanning.left # {}
  /\ scanning' = [scanning EXCEPT !.left = @ \ {Stock}, !.found = @ + found,
                                  !.scanned = @ + (IF enough THEN 1 ELSE 0)]

(* Too few candles, or nothing found: no transaction.                      *)
NothingFound ==
  /\ \E enough \in BOOLEAN : Passed(0, enough) /\ (Regime => ~enough)
  /\ UNCHANGED <<scans, scanRows, regimes>>

(* insert_events, insert_hits: all rows of the stock in one transaction.   *)
InsertFound ==
  /\ Passed(1, TRUE) /\ ~Regime
  /\ scanRows' = scanRows \cup {[scan |-> Latest, stock |-> Stock]}
  /\ UNCHANGED <<scans, regimes>>

UpsertRegimes ==
  /\ Passed(1, TRUE) /\ Regime
  /\ regimes' = [regimes EXCEPT ![Stock] = Latest]
  /\ UNCHANGED <<scans, scanRows>>

Finish(status, found, scanned) ==
  /\ scans' = [scans EXCEPT ![Latest] = [@ EXCEPT !.status = status, !.found = found, !.scanned = scanned]]
  /\ scanning' = Idle
  /\ UNCHANGED <<scanRows, regimes>>

FinishScan == /\ scanning.on /\ scanning.left = {}
              /\ Finish("completed", scanning.found, scanning.scanned)

(* An exception (the database is locked) before that: what is inserted     *)
(* stays.  Moves and signals report zero, regimes what they had.           *)
FailScan == /\ scanning.on
            /\ IF Regime THEN Finish("failed", scanning.found, scanning.scanned)
                         ELSE Finish("failed", 0, 0)

ScanDies == /\ scanning.on /\ scanning' = Idle
            /\ UNCHANGED <<scans, scanRows, regimes>>

Next == \/ \E kind \in Kinds : CreateScan(kind)
        \/ NothingFound \/ InsertFound \/ UpsertRegimes \/ FinishScan \/ FailScan \/ ScanDies
Spec == Init /\ [][Next]_scanVars

(* The report is of the newest run of the kind, whatever its status.       *)
LatestScan(kind) == LET own == {s \in DOMAIN scans : scans[s].kind = kind} IN
                    {s \in own : \A t \in own : t <= s}
------------------------------------------------------------------------------
(* A completed run's count is the number of its rows, although every stock *)
(* was a transaction of its own; a run whose process died stays running    *)
(* and is shown as the latest.                                             *)
CountsAreRows ==
  \A s \in DOMAIN scans : scans[s].status = "completed" /\ scans[s].kind # "regimes" =>
    /\ scans[s].found = Cardinality({r \in scanRows : r.scan = s})
    /\ scans[s].found <= scans[s].scanned

(* When the newest regime refresh completed, the stored regimes of the     *)
(* stocks it classified are its own: none is left from a run before.       *)
RegimesOfOneRun ==
  \A s \in LatestScan("regimes") : scans[s].status = "completed" =>
    Cardinality({t \in Universe : regimes[t] = s}) = scans[s].scanned
ScansTruthful == CountsAreRows /\ RegimesOfOneRun

(* A run that ended stays as it ended, and its rows with it.               *)
EndedScansStay ==
  \A s \in DOMAIN scans : scans[s].status # "running" =>
    /\ scans'[s] = scans[s]
    /\ {r \in scanRows' : r.scan = s} = {r \in scanRows : r.scan = s}
==============================================================================
