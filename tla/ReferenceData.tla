---------------------------- MODULE ReferenceData ----------------------------
(***************************************************************************)
(* The two reference imports of the swing app: Dhan's instrument master    *)
(* and the constituents of Nifty 500.  A refresh downloads a file, records *)
(* a run, upserts the rows by natural key in one transaction, deactivates  *)
(* what the file no longer holds, and finishes the run.  Downloads of      *)
(* several requests overlap; what follows one does not yield, but the      *)
(* process may die between its transactions.  A symbol is fetched and      *)
(* studied while a constituent and an instrument of its ISIN are active.   *)
(***************************************************************************)
EXTENDS Integers, Sequences, FiniteSets, FiniteSetsExt

CONSTANTS InstrumentFiles, ConstituentFiles,   \* sequences of [key, hash], keys may repeat;
                        \* an instrument's natural key is a record [isin, segment]
          OldListings,  \* instruments an earlier version, which took every segment, imported
          SegmentFilter, MaxImports, MaxDownloads

VARIABLES instruments,  \* key -> [hash, active, first, last]: runs that first and last saw it
          constituents, \* ISIN -> the same
          imports,      \* runs: [table, done, error, seen, inserted, updated, unchanged, deactivated]
          downloads,    \* requests awaiting or holding a file: [table, file]
          importing     \* at work: its file and the lines left, the rows of its table as its
                        \* transaction sees them, the keys seen in it and what it counted
refVars == <<instruments, constituents, imports, downloads, importing>>

Tables == {"instruments", "constituents"}
NoStats == [seen |-> 0, inserted |-> 0, updated |-> 0, unchanged |-> 0, deactivated |-> 0]
Idle == [at |-> "idle", table |-> "instruments", file |-> <<>>, left |-> {}, run |-> 0,
         rows |-> <<>>, keys |-> {}, stats |-> NoStats]
Init == /\ instruments \in {<<>>, [k \in OldListings |-> [hash |-> 1, active |-> TRUE, first |-> 0, last |-> 0]]}
        /\ constituents = <<>> /\ imports = <<>> /\ downloads = {} /\ importing = Idle

RowsOf(table) == IF table = "instruments" THEN instruments ELSE constituents

(* parse_instrument_csv and parse_nifty_500_csv: the lines of the segment, *)
(* the lines with a name, a symbol and an industry (all of a file here).   *)
Own(table, key) == table = "constituents" \/ key.segment = SegmentFilter
Parsed(table, file) == {j \in DOMAIN file : Own(table, file[j].key)}

(* The request's await: the file it will get is the one of this moment.    *)
Download(table, file) ==
  /\ importing.at = "idle" /\ Cardinality(downloads) < MaxDownloads
  /\ downloads' = downloads \cup {[table |-> table, file |-> file]}
  /\ UNCHANGED <<instruments, constituents, imports, importing>>

DownloadFails(d) == /\ importing.at = "idle" /\ downloads' = downloads \ {d}
                    /\ UNCHANGED <<instruments, constituents, imports, importing>>

(* start_import.                                                           *)
StartImport(d) ==
  /\ importing.at = "idle" /\ Len(imports) < MaxImports
  /\ downloads' = downloads \ {d}
  /\ imports' = Append(imports, [table |-> d.table, done |-> FALSE, error |-> FALSE, stats |-> NoStats])
  /\ importing' = [Idle EXCEPT !.at = "begin", !.table = d.table, !.file = d.file,
                               !.left = Parsed(d.table, d.file), !.run = Len(imports) + 1]
  /\ UNCHANGED <<instruments, constituents>>

(* Insert, update or touch: the row is active and seen by this run; the    *)
(* first sight of a key stays.                                             *)
UpsertRow(rows, r, run) ==
  [k \in DOMAIN rows \cup {r.key} |->
     IF k # r.key THEN rows[k]
     ELSE [hash |-> r.hash, active |-> TRUE, last |-> run,
           first |-> IF k \in DOMAIN rows THEN rows[k].first ELSE run]]

Counted(s, rows, r) ==
  CASE r.key \notin DOMAIN rows -> [s EXCEPT !.seen = @ + 1, !.inserted = @ + 1]
    [] r.key \in DOMAIN rows /\ rows[r.key].hash # r.hash -> [s EXCEPT !.seen = @ + 1, !.updated = @ + 1]
    [] OTHER -> [s EXCEPT !.seen = @ + 1, !.unchanged = @ + 1]

SwitchedOff(rows, off) ==
  [k \in DOMAIN rows |-> IF k \in off THEN [rows[k] EXCEPT !.active = FALSE] ELSE rows[k]]

(* upsert_rows and upsert_constituents, a transaction: other segments are  *)
(* switched off first, ...                                                 *)
BeginUpsert ==
  LET rows == RowsOf(importing.table)
      foreign == {k \in DOMAIN rows : ~Own(importing.table, k) /\ rows[k].active} IN
  /\ importing.at = "begin"
  /\ importing' = [importing EXCEPT !.at = "upsert", !.rows = SwitchedOff(rows, foreign),
                                    !.stats = [@ EXCEPT !.deactivated = Cardinality(foreign)]]
  /\ UNCHANGED <<instruments, constituents, imports, downloads>>

(* ... then the lines are taken one by one, ...                            *)
UpsertLine ==
  LET r == importing.file[CHOOSE j \in importing.left : \A i \in importing.left : j <= i] IN
  /\ importing.at = "upsert" /\ importing.left # {}
  /\ importing' = [importing EXCEPT
       !.left = {j \in @ : \E i \in @ : i < j},
       !.rows = UpsertRow(@, r, importing.run), !.keys = @ \cup {r.key},
       !.stats = Counted(@, importing.rows, r)]
  /\ UNCHANGED <<instruments, constituents, imports, downloads>>

(* ... and what the file did not hold is switched off, unless it held      *)
(* nothing.  The instruments count every row switched off, also one that   *)
(* was off before, the constituents only active ones.                      *)
CommitRows ==
  LET old == importing.rows
      gone == IF importing.keys = {} THEN {}
              ELSE {k \in DOMAIN old : Own(importing.table, k) /\ k \notin importing.keys}
      off == IF importing.table = "instruments" THEN gone ELSE {k \in gone : old[k].active}
      new == SwitchedOff(old, gone) IN
  /\ importing.at = "upsert" /\ importing.left = {}
  /\ IF importing.table = "instruments"
     THEN instruments' = new /\ UNCHANGED constituents
     ELSE constituents' = new /\ UNCHANGED instruments
  /\ importing' = [importing EXCEPT !.at = "finish", !.rows = <<>>,
                                    !.stats = [@ EXCEPT !.deactivated = importing.stats.deactivated + Cardinality(off)]]
  /\ UNCHANGED <<imports, downloads>>

Finish(error, stats) ==
  /\ imports' = [imports EXCEPT ![importing.run] =
                   [@ EXCEPT !.done = TRUE, !.error = error, !.stats = stats]]
  /\ importing' = Idle
  /\ UNCHANGED <<instruments, constituents, downloads>>
FinishImport == importing.at = "finish" /\ Finish(FALSE, importing.stats)
(* The transaction is rolled back, its counts with it, and the run is      *)
(* finished with the error; so it is when finishing it failed.             *)
FailImport == \/ importing.at \in {"begin", "upsert"} /\ Finish(TRUE, NoStats)
              \/ importing.at = "finish" /\ Finish(TRUE, importing.stats)

ProcessDies == /\ downloads # {} \/ importing.at # "idle"
               /\ downloads' = {} /\ importing' = Idle
               /\ UNCHANGED <<instruments, constituents, imports>>

Next == \/ \E f \in InstrumentFiles : Download("instruments", f)
        \/ \E f \in ConstituentFiles : Download("constituents", f)
        \/ \E d \in downloads : DownloadFails(d) \/ StartImport(d)
        \/ BeginUpsert \/ UpsertLine \/ CommitRows \/ FinishImport \/ FailImport \/ ProcessDies
Spec == Init /\ [][Next]_refVars

(* What is fetched and studied: both tables joined by the ISIN.            *)
Studied == {k \in DOMAIN instruments : /\ instruments[k].active
                                       /\ k.isin \in DOMAIN constituents /\ constituents[k.isin].active}
------------------------------------------------------------------------------
(* In each table exactly the rows last seen by the newest import that      *)
(* committed rows are active, across failures, deaths, empty files, and    *)
(* symbols that leave and come back unchanged; once an import committed    *)
(* rows, no instrument of another segment is studied.                      *)
ActiveIsNewest(rows) ==
  LET newest == Max({0} \cup {rows[k].last : k \in DOMAIN rows}) IN
  \A k \in DOMAIN rows : /\ rows[k].active => rows[k].last = newest
                         /\ newest > 0 /\ rows[k].last = newest => rows[k].active

(* The counts of a finished import add up to the rows it read, and a count *)
(* of insertions is the number of keys first seen by it.                   *)
CountsAddUp ==
  \A r \in DOMAIN imports :
    LET run == imports[r]  s == run.stats  rows == RowsOf(run.table) IN
    /\ s.seen = s.inserted + s.updated + s.unchanged
    /\ run.done /\ ~run.error => s.inserted = Cardinality({k \in DOMAIN rows : rows[k].first = r})
ReferenceTruthful == /\ ActiveIsNewest(instruments) /\ ActiveIsNewest(constituents) /\ CountsAddUp
                     /\ \A k \in Studied : k.segment = SegmentFilter \/ instruments[k].last = 0

(* A key is never forgotten or given a new first sight, so candles keep    *)
(* the instrument they were stored for.                                    *)
KeysStay == \A table \in Tables : \A k \in DOMAIN RowsOf(table) :
              k \in DOMAIN RowsOf(table)' /\ RowsOf(table)'[k].first = RowsOf(table)[k].first
==============================================================================
