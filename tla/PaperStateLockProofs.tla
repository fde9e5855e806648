------------------------ MODULE PaperStateLockProofs ------------------------
(***************************************************************************)
(* For any set of processes: the lock file excludes until one of them has  *)
(* judged a lock file stale, whoever crashes, stalls or times out before.  *)
(***************************************************************************)
EXTENDS PaperStateLock, TLAPS

\* Until then nobody is about to unlink, and a holder's file is in place.
LockInv ==
  ~judged => /\ \A p \in Procs : pc[p] # "unlink"
             /\ \A p \in Procs : pc[p] = "hold" => file.owner = p

LEMMA FileOwner ==
  ASSUME NEW p \in Procs
  PROVE  NewFile(p) # NoFile /\ NewFile(p).owner = p /\ NoFile.owner \notin Procs
BY LockAssumption DEF NewFile, NoFile

\* Every state is well typed.
THEOREM TypeCorrect == Spec => []TypeOK
<1>1. Init => TypeOK
  BY DEF Init, TypeOK, FileType, Labels
<1>2. TypeOK /\ [Next]_vars => TypeOK'
  <2> SUFFICES ASSUME TypeOK, [Next]_vars PROVE TypeOK'
    OBVIOUS
  <2> USE DEF TypeOK, FileType, Labels, Goto, Free, NewFile, NoFile
  <2>1. CASE UNCHANGED vars
    BY <2>1 DEF vars
  <2>2. ASSUME NEW p \in Procs, Want(p) \/ Release(p) \/ Crash(p) \/ PassDeadline(p)
        PROVE  TypeOK'
    BY <2>2 DEF Want, Release, Crash, PassDeadline
  <2>3. ASSUME NEW p \in Procs, Create(p)
        PROVE  TypeOK'
    BY <2>3 DEF Create
  <2>4. ASSUME NEW p \in Procs,
               Exists(p) \/ StatGone(p) \/ StatStale(p) \/ Unlink(p) \/ Sleep(p) \/ TimeOut(p)
        PROVE  TypeOK'
    BY <2>4 DEF Exists, StatGone, StatStale, Unlink, Sleep, TimeOut
  <2>5. CASE GrowOld
    BY <2>5 DEF GrowOld
  <2> QED
    BY <2>1, <2>2, <2>3, <2>4, <2>5 DEF Next, Step
<1> QED
  BY <1>1, <1>2, PTL DEF Spec

\* The O_EXCL protocol is safe until its first takeover.
THEOREM Exclusive == Spec => []ExclusiveUntilTakeover
<1>1. Init => LockInv
  BY DEF Init, LockInv
<1>2. TypeOK /\ LockInv /\ [Next]_vars => LockInv'
  <2> SUFFICES ASSUME TypeOK, LockInv, [Next]_vars, ~judged' PROVE LockInv'
    BY DEF LockInv
  <2>0. ~judged
    BY DEF vars, Next, Step, Want, Create, Exists, StatGone, StatStale, Unlink, Sleep,
           TimeOut, Release, Crash, PassDeadline, GrowOld
  <2> USE <2>0 DEF LockInv, TypeOK, Goto, Free
  <2>1. CASE UNCHANGED vars
    BY <2>1 DEF vars
  <2>2. ASSUME NEW p \in Procs, Create(p)
        PROVE  LockInv'
    <3>1. \A q \in Procs : pc[q] # "hold"
      BY <2>2, LockAssumption DEF Create, NoFile
    <3> QED
      BY <2>2, <3>1, FileOwner DEF Create
  <2>3. ASSUME NEW p \in Procs, Release(p)
        PROVE  LockInv'
    BY <2>3 DEF Release
  <2>4. ASSUME NEW p \in Procs, Unlink(p)
        PROVE  LockInv'
    BY <2>4 DEF Unlink
  <2>5. ASSUME NEW p \in Procs,
               \/ Want(p) \/ Exists(p) \/ StatGone(p) \/ StatStale(p) \/ Sleep(p)
               \/ TimeOut(p) \/ Crash(p) \/ PassDeadline(p)
        PROVE  LockInv'
    BY <2>5 DEF Want, Exists, StatGone, StatStale, Sleep, TimeOut, Crash, PassDeadline
  <2>6. CASE GrowOld
    BY <2>6 DEF GrowOld, FileType
  <2> QED
    BY <2>1, <2>2, <2>3, <2>4, <2>5, <2>6 DEF Next, Step
<1>3. LockInv => ExclusiveUntilTakeover
  BY DEF LockInv, ExclusiveUntilTakeover, MutualExclusion
<1> QED
  BY <1>1, <1>2, <1>3, TypeCorrect, PTL DEF Spec
=============================================================================
