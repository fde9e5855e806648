----------------------------- MODULE CandleMirror -----------------------------
(***************************************************************************)
(* The candle mirror: a second host keeps a copy of matsya.ohlcv_daily.    *)
(* A timer starts sync processes that overlap unless the lock holds them   *)
(* off; each exports what was updated since the watermark, or a full       *)
(* snapshot, over ssh, applies it in one transaction and then moves the    *)
(* watermark.  A row carries the time its writing transaction began, and   *)
(* becomes visible when that transaction commits.                          *)
(***************************************************************************)
EXTENDS Integers, FiniteSets, FiniteSetsExt

CONSTANTS Rows, Syncs,
          MaxClock, MaxVersion, MaxFailures   \* bounds of the check

VARIABLES
  clock,
  source,     \* ohlcv_daily at the primary: version and updated_at per row
  writing,    \* rows in an open transaction, with its now()
  target,     \* the mirror's table
  watermark,  \* the state file; 0 when it is missing
  sync,       \* per sync process: [pc, replace, payload]
  straddled,  \* history: row versions whose transaction was open at an export
  syncFailures

candleMirrorVars == <<clock, source, writing, target, watermark, sync, straddled, syncFailures>>

None == [ver |-> 0, at |-> 0]
Started(p) == sync[p].pc # "idle"
Asleep == [pc |-> "idle", replace |-> FALSE, payload |-> [r \in Rows |-> None]]

(* The primary's writers.                                                  *)
Begin(r) == /\ writing[r] = 0 /\ source[r].ver < MaxVersion
            /\ writing' = [writing EXCEPT ![r] = clock]
            /\ UNCHANGED <<clock, source, target, watermark, sync, straddled, syncFailures>>
Commit(r) == /\ writing[r] > 0
             /\ source' = [source EXCEPT ![r] = [ver |-> @.ver + 1, at |-> writing[r]]]
             /\ writing' = [writing EXCEPT ![r] = 0]
             /\ UNCHANGED <<clock, target, watermark, sync, straddled, syncFailures>>

\* Mutant of Lock: without flock, a sync starts whatever others do.
LockShared(p) ==
  /\ ~Started(p)
  /\ \E full \in BOOLEAN :
       sync' = [sync EXCEPT ![p] = [pc |-> "locked", replace |-> full \/ watermark = 0,
                                    payload |-> Asleep.payload]]
  /\ UNCHANGED <<clock, source, writing, target, watermark, straddled, syncFailures>>

(* flock -n, then the mode: a snapshot without watermark or on request.    *)
Lock(p) ==
  /\ ~Started(p) /\ \A q \in Syncs : ~Started(q)
  /\ \E full \in BOOLEAN :
       sync' = [sync EXCEPT ![p] = [pc |-> "locked", replace |-> full \/ watermark = 0,
                                    payload |-> Asleep.payload]]
  /\ UNCHANGED <<clock, source, writing, target, watermark, straddled, syncFailures>>

(* primary-export.sh: snapshot, or everything updated since the watermark. *)
Export(p) ==
  /\ sync[p].pc = "locked"
  /\ sync' = [sync EXCEPT ![p].pc = "loaded", ![p].payload =
       [r \in Rows |-> IF sync[p].replace \/ source[r].at >= watermark THEN source[r] ELSE None]]
  /\ straddled' = straddled \cup
       {[row |-> r, ver |-> source[r].ver + 1] : r \in {q \in Rows : writing[q] > 0}}
  /\ UNCHANGED <<clock, source, writing, target, watermark, syncFailures>>

(* The transaction on the target: TRUNCATE for a snapshot, then upsert.    *)
Apply(p) ==
  /\ sync[p].pc = "loaded"
  /\ target' = [r \in Rows |-> IF sync[p].payload[r].ver > 0 THEN sync[p].payload[r]
                               ELSE IF sync[p].replace THEN None ELSE target[r]]
  /\ sync' = [sync EXCEPT ![p].pc = "applied"]
  /\ UNCHANGED <<clock, source, writing, watermark, straddled, syncFailures>>

MoveWatermark(p) ==
  /\ sync[p].pc = "applied"
  /\ LET newest == Max({target[r].at : r \in Rows}) IN
     watermark' = IF newest > 0 THEN newest ELSE watermark   \* an empty target fails
  /\ sync' = [sync EXCEPT ![p] = Asleep]
  /\ UNCHANGED <<clock, source, writing, target, straddled, syncFailures>>

(* ssh, gzip, docker or psql fail, or the process is killed.               *)
Fails(p) ==
  /\ Started(p) /\ syncFailures < MaxFailures
  /\ syncFailures' = syncFailures + 1 /\ sync' = [sync EXCEPT ![p] = Asleep]
  /\ UNCHANGED <<clock, source, writing, target, watermark, straddled>>

Elapse == /\ clock < MaxClock /\ clock' = clock + 1
          /\ UNCHANGED <<source, writing, target, watermark, sync, straddled, syncFailures>>

Init == /\ clock = 1 /\ watermark = 0 /\ straddled = {} /\ syncFailures = 0
        /\ source = [r \in Rows |-> None] /\ target = source
        /\ writing = [r \in Rows |-> 0] /\ sync = [p \in Syncs |-> Asleep]

Next == \/ Elapse \/ \E r \in Rows : Begin(r) \/ Commit(r)
        \/ \E p \in Syncs : Lock(p) \/ Export(p) \/ Apply(p) \/ MoveWatermark(p) \/ Fails(p)
Spec == Init /\ [][Next]_candleMirrorVars
------------------------------------------------------------------------------
(* Two syncs never undo each other: what the mirror holds of a row does    *)
(* not go back to an earlier version.                                      *)
NeverGoesBack == \A r \in Rows : target'[r].ver >= target[r].ver

(* What an incremental export leaves out for good (only a snapshot brings  *)
(* it) are the rows whose transaction was open across an export: of any    *)
(* other row the mirror has every version older than the watermark.        *)
OnlyStraddlersMissed ==
  \A r \in Rows :
    source[r].ver > target[r].ver /\ source[r].at < watermark
      => [row |-> r, ver |-> source[r].ver] \in straddled
==============================================================================
