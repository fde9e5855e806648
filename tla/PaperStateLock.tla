--------------------------- MODULE PaperStateLock ---------------------------
(***************************************************************************)
(* paper_state_lock: the lock file every process takes around a change of  *)
(* a ledger directory. Taking it is a loop of separate system calls: an    *)
(* exclusive create, and when the file exists a stat, then either an       *)
(* unlink of a file older than stale_seconds or a short sleep. Releasing   *)
(* it is an unlink of whatever file then has the name. A process may die   *)
(* at any call and leave its file behind.                                  *)
(***************************************************************************)
EXTENDS Naturals

CONSTANTS
  Procs,    \* the processes that share a ledger directory
  Stalls    \* may a live holder keep the lock longer than stale_seconds?

ASSUME LockAssumption == Stalls \in BOOLEAN /\ "none" \notin Procs

VARIABLES
  file,     \* the lock file: NoFile, or who created it and whether it is old
  pc,       \* where each process is in the loop
  late,     \* processes whose timeout_seconds have passed
  judged    \* history: some process has found the file stale

vars == <<file, pc, late, judged>>

NoFile == [owner |-> "none", stale |-> FALSE]
\* Mutant of NewFile: who created the file is not recorded.
NewFileAnonymous(p) == [owner |-> "unknown", stale |-> FALSE]
NewFile(p) == [owner |-> p, stale |-> FALSE]
Free == file = NoFile

Goto(p, label) == pc' = [pc EXCEPT ![p] = label]

\* The context manager is entered: the deadline is set.
Want(p) ==
  /\ pc[p] = "idle"
  /\ Goto(p, "create")
  /\ late' = late \ {p}
  /\ UNCHANGED <<file, judged>>

\* O_CREAT | O_EXCL succeeds only when the name is free.
Create(p) ==
  /\ pc[p] = "create" /\ Free
  /\ file' = NewFile(p)
  /\ Goto(p, "hold")
  /\ UNCHANGED <<late, judged>>

\* Mutant of Exists: the file is opened although it is there.
ExistsIgnored(p) ==
  /\ pc[p] = "create" /\ ~Free
  /\ file' = NewFile(p)
  /\ Goto(p, "hold")
  /\ UNCHANGED <<late, judged>>

Exists(p) ==
  /\ pc[p] = "create" /\ ~Free
  /\ Goto(p, "stat")
  /\ UNCHANGED <<file, late, judged>>

StatGone(p) ==
  /\ pc[p] = "stat" /\ Free
  /\ Goto(p, "create")
  /\ UNCHANGED <<file, late, judged>>

\* Mutant of StatStale: an old file is waited for like a new one.
StatStaleWaits(p) ==
  /\ pc[p] = "stat" /\ file.stale
  /\ Goto(p, "create")
  /\ UNCHANGED <<file, late, judged>>

StatStale(p) ==
  /\ pc[p] = "stat" /\ file.stale
  /\ Goto(p, "unlink")
  /\ judged' = TRUE
  /\ UNCHANGED <<file, late>>

\* Whatever file has the name by now, or none.
Unlink(p) ==
  /\ pc[p] = "unlink"
  /\ file' = NoFile
  /\ Goto(p, "create")
  /\ UNCHANGED <<late, judged>>

Sleep(p) ==
  /\ pc[p] = "stat" /\ ~Free /\ ~file.stale /\ p \notin late
  /\ Goto(p, "create")
  /\ UNCHANGED <<file, late, judged>>

\* TimeoutError: the caller gives up.
TimeOut(p) ==
  /\ pc[p] = "stat" /\ ~Free /\ ~file.stale /\ p \in late
  /\ Goto(p, "idle")
  /\ UNCHANGED <<file, late, judged>>

Release(p) ==
  /\ pc[p] = "hold"
  /\ file' = NoFile
  /\ Goto(p, "idle")
  /\ UNCHANGED <<late, judged>>

Crash(p) ==
  /\ pc[p] # "idle"
  /\ Goto(p, "idle")
  /\ UNCHANGED <<file, late, judged>>

Orphan == ~Free /\ pc[file.owner] # "hold"

\* stale_seconds pass: for a live holder only if it can stall that long.
GrowOld ==
  /\ ~Free /\ ~file.stale
  /\ Orphan \/ Stalls
  /\ file' = [file EXCEPT !.stale = TRUE]
  /\ UNCHANGED <<pc, late, judged>>

PassDeadline(p) ==
  /\ pc[p] \in {"create", "stat"} /\ p \notin late
  /\ late' = late \cup {p}
  /\ UNCHANGED <<file, pc, judged>>

Init ==
  /\ file = NoFile
  /\ pc = [p \in Procs |-> "idle"]
  /\ late = {}
  /\ judged = FALSE

\* The calls of the loop, which the operating system always completes.
Step(p) ==
  \/ Create(p) \/ Exists(p)
  \/ StatGone(p) \/ StatStale(p) \/ Unlink(p) \/ Sleep(p) \/ TimeOut(p)

Next ==
  \/ \E p \in Procs : Want(p) \/ Step(p) \/ Release(p) \/ Crash(p) \/ PassDeadline(p)
  \/ GrowOld

Spec == Init /\ [][Next]_vars

Fairness == (\A p \in Procs : WF_vars(Step(p))) /\ WF_vars(GrowOld)
FairSpec == Spec /\ Fairness

-----------------------------------------------------------------------------
(* Properties                                                                *)

Labels == {"idle", "create", "stat", "unlink", "hold"}
FileType == {NoFile} \cup [owner: Procs, stale: BOOLEAN]

\* The variables hold values of their types.
TypeOK ==
  /\ file \in FileType
  /\ pc \in [Procs -> Labels]
  /\ late \subseteq Procs
  /\ judged \in BOOLEAN

\* At most one process is inside the lock.
MutualExclusion ==
  \A p, q \in Procs : pc[p] = "hold" /\ pc[q] = "hold" => p = q

\* As long as no lock file has been taken for stale, crashes, timeouts and
\* slow holders never let two processes in, and the file a release removes
\* is the releasing process's own.
ExclusiveUntilTakeover ==
  ~judged => /\ MutualExclusion
             /\ \A p \in Procs : pc[p] = "hold" => file.owner = p

\* A file left behind by a process that died does not block the directory
\* for good: a process that keeps trying removes it, or gives up first.
OrphanRemoved ==
  \A p \in Procs : (Orphan /\ pc[p] = "create") ~> (~Orphan \/ pc[p] = "idle")
=============================================================================
