------------------------- MODULE PaperEngineProofs -------------------------
(***************************************************************************)
(* The paper engine's safety for every set of symbols, price grid, policy  *)
(* and horizon: type correctness, one claim per symbol under the merge of  *)
(* the trader's stale copy, and the slot limit; then the book, event log,  *)
(* ledger and cash tell one story, and the engine implements               *)
(* OrderLifecycle.                                                         *)
(***************************************************************************)
EXTENDS PaperEngine, DataLemmas

\* Prices stay integers through friction and the exit levels.
LEMMA PositionTyped ==
  ASSUME NEW o \in OrderType, NEW at \in Nat, NEW px \in Prices
  PROVE  PositionOf(o, at, px) \in PositionType
<1>1. px \in Nat /\ px > 0
  BY ConstantsAssumption
<1>2. EffectiveEntry(px) \in Nat /\ EffectiveEntry(px) > 0
  BY <1>1 DEF EffectiveEntry
<1>3. SharesFor(px) \in Nat
  <2>1. \A a, b \in Nat : b > 0 => a \div b \in Nat
    OBVIOUS
  <2> QED
    BY <2>1, <1>2, ConstantsAssumption DEF SharesFor
<1>4. SharesFor(px) * EffectiveEntry(px) \in Nat
  <2>1. \A a, b \in Nat : a * b \in Nat
    OBVIOUS
  <2> QED
    BY <1>2, <1>3, <2>1
<1>5. StopLevel(px) \in Nat /\ TargetLevel(px) \in Nat
  BY <1>1, ConstantsAssumption DEF StopLevel, TargetLevel
<1> QED
  BY <1>3, <1>4, <1>5 DEF PositionOf, PositionType, OrderType, None, Legacy

LEMMA DayTyped == \A t \in Nat : DayOf(t) \in Nat
BY ConstantsAssumption DEF DayOf

LEMMA RecountTyped ==
  ASSUME NEW p \in PositionType, NEW n \in Nat, NEW d \in Int
  PROVE  [p EXCEPT !.bars = n, !.rec = d] \in PositionType
BY DEF PositionType

LEMMA CountedTyped ==
  ASSUME NEW p \in PositionType, NEW cs, NEW d \in Int
  PROVE  /\ Counted(p, cs, d) \in PositionType
         /\ Counted(p, cs, d).sym = p.sym /\ Counted(p, cs, d).sig = p.sig
<1>1. CASE CandlesFor(cs, p) # {} /\ p.rec # d
  <2>1. Counted(p, cs, d) = [p EXCEPT !.bars = p.bars + 1, !.rec = d]
    BY <1>1 DEF Counted
  <2>2. p.bars + 1 \in Nat
    BY DEF PositionType
  <2>3. [p EXCEPT !.bars = p.bars + 1, !.rec = d] \in PositionType
    BY <2>2, RecountTyped
  <2>4. Counted(p, cs, d).sym = p.sym /\ Counted(p, cs, d).sig = p.sig
    BY <2>1 DEF PositionType
  <2> QED
    BY <2>1, <2>3, <2>4
<1>2. CASE ~(CandlesFor(cs, p) # {} /\ p.rec # d)
  <2>1. Counted(p, cs, d) = p
    BY <1>2 DEF Counted
  <2> QED
    BY <2>1
<1> QED
  BY <1>1, <1>2

LEMMA CountedImage ==
  ASSUME NEW S, IsFiniteSet(S), NEW cs, NEW d
  PROVE  /\ IsFiniteSet({Counted(p, cs, d) : p \in S})
         /\ Cardinality({Counted(p, cs, d) : p \in S}) <= Cardinality(S)
<1> DEFINE T == {Counted(p, cs, d) : p \in S}
           f == [p \in S |-> Counted(p, cs, d)]
<1>1. f \in [S -> T] /\ \A t \in T : \E s \in S : f[s] = t
  OBVIOUS
<1> QED
  BY <1>1, ImageFinite

LEMMA InitTyped == Init => TypeOK
<1> SUFFICES ASSUME Init PROVE TypeOK
  OBVIOUS
<1>1. open \subseteq PositionType /\ IsFiniteSet(open)
  <2>1. open = {} \/ \E p \in LegacyPositions : open = {p}
    BY DEF Init
  <2> QED
    BY <2>1, LegacyAssumption, FS_EmptySet, FS_Singleton
<1>2. pending \subseteq OrderType /\ IsFiniteSet(pending)
  BY FS_EmptySet DEF Init
<1>3. tr \in [pc: {"idle", "placed", "saved"}, pend: SUBSET OrderType,
             keys: SUBSET OrderType, held: SUBSET Symbols] /\ IsFiniteSet(tr.pend)
  BY FS_EmptySet DEF Init, NoRun
<1> QED
  BY <1>1, <1>2, <1>3, ConstantsAssumption DEF Init, TypeOK, None

\* What a tick may do to the book.
LEMMA TickTyped ==
  ASSUME TypeOK, NEW s \in Symbols, NEW at \in 0..now, NEW px \in Prices,
         ProcessTick(s, at, px)
  PROVE  TypeOK'
<1>1. at \in Nat /\ px \in Nat
  BY ConstantsAssumption DEF TypeOK
<1>2. /\ pending' \subseteq OrderType /\ IsFiniteSet(pending')
      /\ open' \subseteq PositionType /\ IsFiniteSet(open')
      /\ \A e \in events' : e.id \in EventIdType /\ e.type \in {"entry", "missed", "exit"}
  <2>1. CASE \E o \in EnterableAt(s, at) : EnterOrder(o, at, px)
    <3>1. PICK o \in EnterableAt(s, at) : EnterOrder(o, at, px)
      BY <2>1
    <3>2. o \in pending /\ o \in OrderType
      BY DEF EnterableAt, TypeOK
    <3>3. pending' \subseteq OrderType /\ IsFiniteSet(pending')
      BY <3>1, FS_RemoveElement DEF EnterOrder, TypeOK
    <3>4. open' \subseteq PositionType /\ IsFiniteSet(open')
      BY <3>1, <3>2, <1>1, PositionTyped, FS_AddElement DEF EnterOrder, TypeOK
    <3>5. EntryEvent(o).id \in EventIdType /\ EntryEvent(o).type = "entry"
      BY <3>2 DEF EntryEvent, EntryId, EventIdType, OrderType
    <3> QED
      BY <3>1, <3>3, <3>4, <3>5 DEF EnterOrder, RecordEvents, TypeOK
  <2>2. CASE \E o \in EnterableAt(s, at) : RefuseOrder(o, px)
    <3>1. PICK o \in EnterableAt(s, at) : RefuseOrder(o, px)
      BY <2>2
    <3>2. o \in pending /\ o \in OrderType
      BY DEF EnterableAt, TypeOK
    <3>3. pending' \subseteq OrderType /\ IsFiniteSet(pending')
      BY <3>1, FS_RemoveElement DEF RefuseOrder, TypeOK
    <3>4. RefusedEvent(o).id \in EventIdType /\ RefusedEvent(o).type = "missed"
      BY <3>2 DEF RefusedEvent, EntryId, EventIdType, OrderType
    <3> QED
      BY <3>1, <3>3, <3>4 DEF RefuseOrder, RecordEvents, TypeOK
  <2>3. CASE \E p \in HeldAs(s) : LiveExit(p, at, px)
    <3>1. PICK p \in HeldAs(s) : LiveExit(p, at, px)
      BY <2>3
    <3>2. p \in open /\ p \in PositionType
      BY DEF HeldAs, TypeOK
    <3>3. open' \subseteq PositionType /\ IsFiniteSet(open')
      BY <3>1, FS_RemoveElement DEF LiveExit, TypeOK
    <3>4. \A x : ExitEvent(p, x, at).id \in EventIdType /\ ExitEvent(p, x, at).type = "exit"
      BY <3>2 DEF ExitEvent, ExitId, EventIdType, PositionType
    <3> QED
      BY <3>1, <3>3, <3>4 DEF LiveExit, RecordEvents, TypeOK
  <2>4. CASE UNCHANGED <<pending, open, events>>
    BY <2>4 DEF TypeOK
  <2> QED
    BY <2>1, <2>2, <2>3, <2>4 DEF ProcessTick, RepeatEntry
<1>3. last' \in [Symbols -> [at: Int, px: Nat]]
  BY <1>1 DEF ProcessTick, TypeOK
<1> QED
  BY <1>2, <1>3 DEF ProcessTick, TypeOK

LEMMA ReconcileTyped ==
  ASSUME TypeOK, NEW cs, Reconcile(cs)
  PROVE  TypeOK'
<1> DEFINE d == DayOf(now)
           closing == Closing(cs, d)
<1>1. d \in Nat
  BY DayTyped DEF TypeOK
<1>2. open' = {Counted(p, cs, d) : p \in open \ closing}
  BY DEF Reconcile
<1>3. open' \subseteq PositionType
  BY <1>1, <1>2, CountedTyped DEF TypeOK
<1>4. IsFiniteSet(open')
  <2>1. IsFiniteSet(open \ closing)
    BY FS_Difference DEF TypeOK
  <2> QED
    BY <1>2, <2>1, CountedImage
<1>5. pending' \subseteq OrderType /\ IsFiniteSet(pending')
  BY FS_Difference DEF Reconcile, TypeOK
<1>6. \A p \in closing : /\ RecoveredExit(p, cs).id \in EventIdType
                         /\ RecoveredExit(p, cs).type = "exit"
  BY DEF Closing, RecoveredExit, ExitEvent, ExitId, EventIdType, PositionType, TypeOK
<1>7. \A o \in MissedOrders(d) : /\ MissedEvent(o).id \in EventIdType
                                /\ MissedEvent(o).type = "missed"
  BY DEF MissedOrders, MissedEvent, MissedId, EventIdType, OrderType, TypeOK
<1>8. \A e \in events' : e.id \in EventIdType /\ e.type \in {"entry", "missed", "exit"}
  BY <1>6, <1>7 DEF Reconcile, RecordEvents, TypeOK
<1>9. recon' \in [pc: {"idle", "fetching"}, targets: SUBSET Symbols, completed: Int]
  <2>1. recon' = [pc |-> "idle", targets |-> {}, completed |-> DayOf(now)]
    BY DEF Reconcile
  <2> QED
    BY <2>1, <1>1
<1> QED
  BY <1>3, <1>4, <1>5, <1>8, <1>9 DEF Reconcile, TypeOK

LEMMA PlacedFinite ==
  ASSUME NEW S \in SUBSET Symbols, NEW k
  PROVE  /\ IsFiniteSet({[sym |-> s, sig |-> k] : s \in S \ DesiredSymbols})
         /\ Cardinality({[sym |-> s, sig |-> k] : s \in S \ DesiredSymbols}) <= Cardinality(S)
<1> DEFINE R == S \ DesiredSymbols
           N == {[sym |-> s, sig |-> k] : s \in R}
           f == [s \in R |-> [sym |-> s, sig |-> k]]
<1>1. IsFiniteSet(S)
  BY ConstantsAssumption, FS_Subset
<1>2. IsFiniteSet(R) /\ Cardinality(R) <= Cardinality(S)
  BY <1>1, FS_Subset
<1>3. f \in [R -> N] /\ \A n \in N : \E s \in R : f[s] = n
  OBVIOUS
<1>4. IsFiniteSet(N) /\ Cardinality(N) <= Cardinality(R)
  BY <1>2, <1>3, ImageFinite
<1> HIDE DEF N, R
<1>5. Cardinality(N) \in Nat /\ Cardinality(R) \in Nat /\ Cardinality(S) \in Nat
  BY <1>1, <1>2, <1>4, FS_CardinalityType
<1>6. IsFiniteSet(N) /\ Cardinality(N) <= Cardinality(S)
  BY <1>2, <1>4, <1>5
<1> QED
  BY <1>6 DEF N, R

LEMMA TraderTyped ==
  ASSUME TypeOK, TraderSave \/ TraderReport \/ TraderDies
                 \/ \E S \in SUBSET Symbols : TraderPlace(S)
  PROVE  TypeOK'
<1>1. NextRunDate \in Nat
  BY DEF TypeOK, NextRunDate, None
<1>2. CASE TraderSave
  <2>1. NewOrders \subseteq OrderType
    BY DEF NewOrders, TypeOK
  <2>2. IsFiniteSet(NewOrders)
    BY FS_Subset DEF NewOrders, TypeOK
  <2> QED
    BY <1>2, <2>1, <2>2, FS_Union, FS_EmptySet DEF TraderSave, NoRun, TypeOK
<1>3. CASE TraderReport
  BY <1>1, <1>3, FS_EmptySet DEF TraderReport, stateFile, NoRun, TypeOK, None
<1>4. CASE TraderDies
  BY <1>4, FS_EmptySet DEF TraderDies, stateFile, NoRun, TypeOK
<1>5. CASE \E S \in SUBSET Symbols : TraderPlace(S)
  <2>1. PICK S \in SUBSET Symbols : TraderPlace(S)
    BY <1>5
  <2>2. {[sym |-> s, sig |-> NextRunDate] : s \in S \ DesiredSymbols} \subseteq OrderType
    BY <1>1 DEF OrderType
  <2>3. SymsOf(open) \subseteq Symbols
    BY DEF SymsOf, PositionType, TypeOK
  <2>4. IsFiniteSet(tr'.pend)
    <3>1. tr'.pend = pending \cup {[sym |-> s, sig |-> NextRunDate] : s \in S \ DesiredSymbols}
      BY <2>1 DEF TraderPlace
    <3>2. IsFiniteSet({[sym |-> s, sig |-> NextRunDate] : s \in S \ DesiredSymbols})
      BY PlacedFinite
    <3>3. IsFiniteSet(pending)
      BY DEF TypeOK
    <3> QED
      BY <3>1, <3>2, <3>3, FS_Union
  <2> QED
    BY <2>1, <2>2, <2>3, <2>4 DEF TraderPlace, stateFile, TypeOK
<1> QED
  BY <1>2, <1>3, <1>4, <1>5

LEMMA OthersTyped ==
  ASSUME TypeOK, Advance \/ SyncLedger \/ ReconcileFetch \/ ReconcileFail
                 \/ WorkerCrash \/ WorkerStart \/ BreakStaleLock
  PROVE  TypeOK'
<1>1. DesiredSymbols \subseteq Symbols
  BY DEF DesiredSymbols, SymsOf, OrderType, PositionType, TypeOK
<1>2. SyncedLedger \in [ExitIds -> Nat]
  BY DEF SyncedLedger, TypeOK
<1>3. CASE Advance
  BY <1>3, ConstantsAssumption DEF Advance, stateFile, TypeOK
<1>4. CASE SyncLedger
  BY <1>2, <1>4 DEF SyncLedger, stateFile, TypeOK
<1>5. CASE ReconcileFetch
  BY <1>1, <1>5 DEF ReconcileFetch, stateFile, TypeOK
<1>6. CASE ReconcileFail
  BY <1>6 DEF ReconcileFail, stateFile, TypeOK
<1>7. CASE WorkerCrash
  BY <1>7 DEF WorkerCrash, stateFile, TypeOK, None
<1>8. CASE WorkerStart
  BY <1>2, <1>8 DEF WorkerStart, stateFile, TypeOK
<1>9. CASE BreakStaleLock
  BY <1>9 DEF BreakStaleLock, stateFile, TypeOK
<1> QED
  BY <1>3, <1>4, <1>5, <1>6, <1>7, <1>8, <1>9

LEMMA NextTyped == TypeOK /\ [Next]_vars => TypeOK'
<1> SUFFICES ASSUME TypeOK, [Next]_vars PROVE TypeOK'
  OBVIOUS
<1>1. CASE Tick
  BY <1>1, TickTyped DEF Tick
<1>2. CASE ReconcileSession
  BY <1>2, ReconcileTyped DEF ReconcileSession
<1>3. CASE UNCHANGED vars
  BY <1>3 DEF vars, stateFile, TypeOK
<1> QED
  BY <1>1, <1>2, <1>3, TraderTyped, OthersTyped DEF Next

\* The state file, the ledger and both processes keep their types in every
\* reachable state of every instance.
THEOREM TypeCorrect == Spec => []TypeOK
BY InitTyped, NextTyped, PTL DEF Spec

-----------------------------------------------------------------------------
(* The merge                                                                 *)

\* Slots taken, with those the trader has given to orders not saved yet.
Reserved == IF tr.pc = "placed" THEN Cardinality(NewOrders) ELSE 0
SlotsReserved == Cardinality(pending) + Cardinality(open) + Reserved <= MaxSlots

MergeInv == OneClaimPerSymbol /\ StaleCopyCovers

\* What the worker may do to the book: claims move from orders to positions
\* or end, and none appears.
ClaimsOnlyShrink ==
  /\ pending' \subseteq pending
  /\ \A q \in open' : (\E o \in pending : o.sym = q.sym) \/ (\E p \in open : p.sym = q.sym)
  /\ OneClaimPerSymbol'

LEMMA EnterShrinks ==
  ASSUME TypeOK, OneClaimPerSymbol, NEW o \in pending, NEW at, NEW px, EnterOrder(o, at, px)
  PROVE  ClaimsOnlyShrink
<1>1. PositionOf(o, at, px).sym = o.sym
  BY DEF PositionOf
<1>2. pending' = pending \ {o} /\ open' = open \cup {PositionOf(o, at, px)}
  BY DEF EnterOrder
<1> QED
  BY <1>1, <1>2 DEF ClaimsOnlyShrink, OneClaimPerSymbol

LEMMA TickShrinks ==
  ASSUME TypeOK, OneClaimPerSymbol, NEW s, NEW at, NEW px, ProcessTick(s, at, px)
  PROVE  ClaimsOnlyShrink
<1>1. CASE \E o \in EnterableAt(s, at) : EnterOrder(o, at, px)
  BY <1>1, EnterShrinks DEF EnterableAt
<1>2. CASE \E o \in EnterableAt(s, at) : RefuseOrder(o, px)
  BY <1>2 DEF RefuseOrder, ClaimsOnlyShrink, OneClaimPerSymbol
<1>3. CASE \E p \in HeldAs(s) : LiveExit(p, at, px)
  BY <1>3 DEF LiveExit, ClaimsOnlyShrink, OneClaimPerSymbol
<1>4. CASE UNCHANGED <<pending, open>>
  BY <1>4 DEF ClaimsOnlyShrink, OneClaimPerSymbol
<1> QED
  BY <1>1, <1>2, <1>3, <1>4 DEF ProcessTick, RepeatEntry

LEMMA ReconcileShrinks ==
  ASSUME TypeOK, OneClaimPerSymbol, NEW cs, Reconcile(cs)
  PROVE  ClaimsOnlyShrink
<1> DEFINE d == DayOf(now)
<1>1. d \in Int
  BY DayTyped DEF TypeOK
<1>2. pending' \subseteq pending
  BY DEF Reconcile
<1>3. \A q \in open' : \E p \in open : q = Counted(p, cs, d) /\ q.sym = p.sym
  <2>1. open' = {Counted(p, cs, d) : p \in open \ Closing(cs, d)}
    BY DEF Reconcile
  <2> HIDE DEF d
  <2> QED
    BY <2>1, <1>1, CountedTyped DEF TypeOK
<1> QED
  BY <1>2, <1>3 DEF ClaimsOnlyShrink, OneClaimPerSymbol

LEMMA MergeStep == TypeOK /\ MergeInv /\ [Next]_vars => MergeInv'
<1> SUFFICES ASSUME TypeOK, MergeInv, [Next]_vars PROVE MergeInv'
  OBVIOUS
<1>1. ASSUME ClaimsOnlyShrink, UNCHANGED tr PROVE MergeInv'
  BY <1>1 DEF MergeInv, ClaimsOnlyShrink, StaleCopyCovers, LoadedSyms, NewOrders
<1>2. CASE Tick
  BY <1>1, <1>2, TickShrinks DEF Tick, ProcessTick, MergeInv
<1>3. CASE ReconcileSession
  BY <1>1, <1>3, ReconcileShrinks DEF ReconcileSession, Reconcile, MergeInv
<1>4. CASE TraderSave
  BY <1>4 DEF TraderSave, NoRun, MergeInv, OneClaimPerSymbol, StaleCopyCovers
<1>5. CASE \E S \in SUBSET Symbols : TraderPlace(S)
  <2>1. PICK S \in SUBSET Symbols : TraderPlace(S)
    BY <1>5
  <2>2. /\ tr'.keys = pending /\ tr'.held = SymsOf(open)
        /\ tr'.pend = pending \cup {[sym |-> s, sig |-> NextRunDate] : s \in S \ DesiredSymbols}
        /\ UNCHANGED <<pending, open>>
    BY <2>1 DEF TraderPlace, stateFile
  <2>3. LoadedSyms' = DesiredSymbols
    BY <2>2 DEF LoadedSyms, DesiredSymbols
  <2>4. \A n \in NewOrders' : \E s \in S \ DesiredSymbols : n = [sym |-> s, sig |-> NextRunDate]
    BY <2>2 DEF NewOrders
  <2>5. StaleCopyCovers'
    BY <2>2, <2>3, <2>4 DEF StaleCopyCovers, DesiredSymbols, SymsOf
  <2> QED
    BY <2>2, <2>5 DEF MergeInv, OneClaimPerSymbol
<1>6. CASE TraderReport \/ TraderDies
  BY <1>6 DEF TraderReport, TraderDies, NoRun, stateFile, MergeInv, OneClaimPerSymbol, StaleCopyCovers
<1>7. CASE UNCHANGED <<pending, open, tr>>
  BY <1>7 DEF MergeInv, OneClaimPerSymbol, StaleCopyCovers, LoadedSyms, NewOrders
<1>8. CASE Advance \/ SyncLedger \/ ReconcileFetch \/ ReconcileFail
           \/ WorkerCrash \/ WorkerStart \/ BreakStaleLock
  BY <1>7, <1>8 DEF Advance, SyncLedger, ReconcileFetch, ReconcileFail, WorkerCrash,
                    WorkerStart, BreakStaleLock, stateFile
<1>9. CASE UNCHANGED vars
  BY <1>7, <1>9 DEF vars, stateFile
<1> QED
  BY <1>2, <1>3, <1>4, <1>5, <1>6, <1>8, <1>9 DEF Next

\* One claim per symbol, however the worker's steps fall between the load and
\* the save of the trader, and whichever of the two dies.
THEOREM OneClaim == Spec => []OneClaimPerSymbol
<1>1. Init => MergeInv
  BY DEF Init, NoRun, MergeInv, OneClaimPerSymbol, StaleCopyCovers
<1>2. MergeInv => OneClaimPerSymbol
  BY DEF MergeInv
<1> QED
  BY <1>1, <1>2, TypeCorrect, MergeStep, PTL DEF Spec

-----------------------------------------------------------------------------
(* The slots                                                                 *)

\* The worker never takes a slot: an entry frees the one its order held.
SlotsOnlyFreed ==
  Cardinality(pending') + Cardinality(open') <= Cardinality(pending) + Cardinality(open)

LEMMA BookFinite ==
  ASSUME TypeOK
  PROVE  /\ IsFiniteSet(pending) /\ Cardinality(pending) \in Nat
         /\ IsFiniteSet(open) /\ Cardinality(open) \in Nat
         /\ IsFiniteSet(NewOrders) /\ Cardinality(NewOrders) \in Nat
<1>1. IsFiniteSet(NewOrders)
  BY FS_Subset DEF NewOrders, TypeOK
<1> QED
  BY <1>1, FS_CardinalityType DEF TypeOK

LEMMA TickFrees ==
  ASSUME TypeOK, NEW s, NEW at, NEW px, ProcessTick(s, at, px)
  PROVE  SlotsOnlyFreed
<1>1. CASE \E o \in EnterableAt(s, at) : EnterOrder(o, at, px)
  <2>1. PICK o \in EnterableAt(s, at) : EnterOrder(o, at, px)
    BY <1>1
  <2>2. o \in pending /\ pending' = pending \ {o} /\ open' = open \cup {PositionOf(o, at, px)}
    BY <2>1 DEF EnterableAt, EnterOrder
  <2>3. Cardinality(pending') = Cardinality(pending) - 1
    BY <2>2, BookFinite, FS_RemoveElement
  <2>4. Cardinality(open') = IF PositionOf(o, at, px) \in open
                              THEN Cardinality(open) ELSE Cardinality(open) + 1
    BY <2>2, BookFinite, FS_AddElement
  <2> QED
    BY <2>3, <2>4, BookFinite DEF SlotsOnlyFreed
<1>2. CASE \E o \in EnterableAt(s, at) : RefuseOrder(o, px)
  <2>1. PICK o \in EnterableAt(s, at) : RefuseOrder(o, px)
    BY <1>2
  <2>2. o \in pending /\ pending' = pending \ {o} /\ open' = open
    BY <2>1 DEF EnterableAt, RefuseOrder
  <2>3. Cardinality(pending') = Cardinality(pending) - 1
    BY <2>2, BookFinite, FS_RemoveElement
  <2> QED
    BY <2>2, <2>3, BookFinite DEF SlotsOnlyFreed
<1>3. CASE \E p \in HeldAs(s) : LiveExit(p, at, px)
  <2>1. PICK p \in HeldAs(s) : LiveExit(p, at, px)
    BY <1>3
  <2>2. p \in open /\ open' = open \ {p} /\ pending' = pending
    BY <2>1 DEF HeldAs, LiveExit
  <2>3. Cardinality(open') = Cardinality(open) - 1
    BY <2>2, BookFinite, FS_RemoveElement
  <2> QED
    BY <2>2, <2>3, BookFinite DEF SlotsOnlyFreed
<1>4. CASE UNCHANGED <<pending, open>>
  BY <1>4, BookFinite DEF SlotsOnlyFreed
<1> QED
  BY <1>1, <1>2, <1>3, <1>4 DEF ProcessTick, RepeatEntry

LEMMA ReconcileFrees ==
  ASSUME TypeOK, NEW cs, Reconcile(cs)
  PROVE  SlotsOnlyFreed
<1> DEFINE kept == open \ Closing(cs, DayOf(now))
<1>1. open' = {Counted(p, cs, DayOf(now)) : p \in kept}
  BY DEF Reconcile
<1>2. pending' \subseteq pending
  BY DEF Reconcile
<1>3. /\ Cardinality(pending') \in Nat
      /\ Cardinality(pending') <= Cardinality(pending)
  BY <1>2, BookFinite, FS_Subset, FS_CardinalityType
<1>4. /\ IsFiniteSet(kept)
      /\ Cardinality(kept) \in Nat
      /\ Cardinality(kept) <= Cardinality(open)
  BY BookFinite, FS_Subset, FS_CardinalityType
<1> HIDE DEF kept
<1>5. /\ Cardinality(open') \in Nat
      /\ Cardinality(open') <= Cardinality(kept)
  BY <1>1, <1>4, CountedImage, FS_CardinalityType
<1> QED
  BY <1>3, <1>4, <1>5, BookFinite DEF SlotsOnlyFreed

LEMMA SlotsStep == TypeOK /\ TypeOK' /\ SlotsReserved /\ [Next]_vars => SlotsReserved'
<1> SUFFICES ASSUME TypeOK, TypeOK', SlotsReserved, [Next]_vars PROVE SlotsReserved'
  OBVIOUS
<1>1. /\ IsFiniteSet(pending') /\ Cardinality(pending') \in Nat
      /\ IsFiniteSet(open') /\ Cardinality(open') \in Nat
      /\ IsFiniteSet(NewOrders') /\ Cardinality(NewOrders') \in Nat
  <2>1. IsFiniteSet(NewOrders')
    BY FS_Subset DEF NewOrders, TypeOK
  <2> QED
    BY <2>1, FS_CardinalityType DEF TypeOK
<1>2. MaxSlots \in Nat /\ Reserved \in Nat
  BY ConstantsAssumption, BookFinite DEF Reserved
<1>3. ASSUME SlotsOnlyFreed, UNCHANGED tr PROVE SlotsReserved'
  <2>1. Reserved' = Reserved
    BY <1>3 DEF Reserved, NewOrders
  <2> QED
    BY <1>1, <1>2, <1>3, <2>1, BookFinite DEF SlotsOnlyFreed, SlotsReserved
<1>4. CASE Tick
  BY <1>3, <1>4, TickFrees DEF Tick, ProcessTick
<1>5. CASE ReconcileSession
  BY <1>3, <1>5, ReconcileFrees DEF ReconcileSession, Reconcile
<1>6. CASE TraderSave
  <2>1. /\ pending' = pending \cup NewOrders /\ open' = open
        /\ Reserved = Cardinality(NewOrders) /\ Reserved' = 0
    BY <1>6 DEF TraderSave, NoRun, Reserved
  <2>2. Cardinality(pending') <= Cardinality(pending) + Cardinality(NewOrders)
    <3>1. IsFiniteSet(pending \cap NewOrders)
      BY BookFinite, FS_Subset
    <3>2. Cardinality(pending \cap NewOrders) \in Nat
      BY <3>1, FS_CardinalityType
    <3>3. Cardinality(pending \cup NewOrders)
            = Cardinality(pending) + Cardinality(NewOrders) - Cardinality(pending \cap NewOrders)
      BY BookFinite, FS_Union
    <3> QED
      BY <2>1, <3>2, <3>3, BookFinite
  <2> QED
    BY <2>1, <2>2, <1>1, <1>2, BookFinite DEF SlotsReserved
<1>7. CASE \E S \in SUBSET Symbols : TraderPlace(S)
  <2>1. PICK S \in SUBSET Symbols : TraderPlace(S)
    BY <1>7
  <2> DEFINE N == {[sym |-> s, sig |-> NextRunDate] : s \in S \ DesiredSymbols}
  <2>2. /\ UNCHANGED <<pending, open>> /\ tr'.pend = pending \cup N /\ tr'.keys = pending
        /\ tr'.pc = "placed" /\ Cardinality(S) <= SlotsAvailable
    BY <2>1 DEF TraderPlace, stateFile
  <2>3. NewOrders' \subseteq N
    BY <2>2 DEF NewOrders
  <2>4. IsFiniteSet(N) /\ Cardinality(N) <= Cardinality(S) /\ Cardinality(N) \in Nat
    BY PlacedFinite, FS_CardinalityType
  <2>5. Cardinality(S) \in Nat
    BY ConstantsAssumption, FS_Subset, FS_CardinalityType
  <2> HIDE DEF N
  <2>6. Cardinality(NewOrders') <= Cardinality(N)
    BY <2>3, <2>4, FS_Subset
  <2>7. Reserved' = Cardinality(NewOrders')
    BY <2>2 DEF Reserved
  <2>8. Cardinality(pending) + Cardinality(open) + SlotsAvailable <= MaxSlots
    BY <1>2, BookFinite DEF SlotsAvailable, SlotsReserved
  <2>9. SlotsAvailable \in Nat
    BY <1>2, BookFinite DEF SlotsAvailable
  <2> QED
    BY <2>2, <2>4, <2>5, <2>6, <2>7, <2>8, <2>9, <1>1, <1>2, BookFinite DEF SlotsReserved
<1>8. CASE TraderReport \/ TraderDies
  <2>1. UNCHANGED <<pending, open>> /\ Reserved' = 0
    BY <1>8 DEF TraderReport, TraderDies, NoRun, stateFile, Reserved
  <2> QED
    BY <2>1, <1>1, <1>2, BookFinite DEF SlotsReserved
<1>9. CASE UNCHANGED <<pending, open, tr>>
  BY <1>9 DEF SlotsReserved, Reserved, NewOrders
<1>10. CASE Advance \/ SyncLedger \/ ReconcileFetch \/ ReconcileFail
           \/ WorkerCrash \/ WorkerStart \/ BreakStaleLock
  BY <1>9, <1>10 DEF Advance, SyncLedger, ReconcileFetch, ReconcileFail, WorkerCrash,
                    WorkerStart, BreakStaleLock, stateFile
<1>11. CASE UNCHANGED vars
  BY <1>9, <1>11 DEF vars, stateFile
<1> QED
  BY <1>4, <1>5, <1>6, <1>7, <1>8, <1>10, <1>11 DEF Next

LEMMA SlotsInit == Init => SlotsReserved
<1> SUFFICES ASSUME Init PROVE SlotsReserved
  OBVIOUS
<1>1. Cardinality(pending) = 0 /\ Reserved = 0
  BY FS_EmptySet DEF Init, NoRun, Reserved
<1>2. MaxSlots \in Nat
  BY ConstantsAssumption
<1>3. CASE open = {}
  <2>1. Cardinality(open) = 0
    BY <1>3, FS_EmptySet
  <2> QED
    BY <1>1, <1>2, <2>1 DEF SlotsReserved
<1>4. CASE \E p \in LegacyPositions : open = {p}
  <2>1. Cardinality(open) = 1 /\ MaxSlots > 0
    BY <1>4, FS_Singleton, LegacyAssumption
  <2> QED
    BY <1>1, <1>2, <2>1 DEF SlotsReserved
<1> QED
  BY <1>3, <1>4 DEF Init

\* The book never exceeds MAX_SLOTS, although the trader counted the free
\* slots on a copy of the state that had aged when its orders were merged.
THEOREM Slots == Spec => []SlotsBounded
<1>1. TypeOK /\ SlotsReserved => SlotsBounded
  <2> SUFFICES ASSUME TypeOK, SlotsReserved PROVE SlotsBounded
    OBVIOUS
  <2>1. Reserved \in Nat /\ MaxSlots \in Nat
    BY ConstantsAssumption, BookFinite DEF Reserved
  <2> QED
    BY <2>1, BookFinite DEF SlotsReserved, SlotsBounded
<1> QED
  BY <1>1, SlotsInit, SlotsStep, TypeCorrect, PTL DEF Spec

-----------------------------------------------------------------------------
(* The log, the ledger, the cash and the refinement                          *)

Horizon == DayOf(MaxTime)

\* Dates stay within the horizon, and the clock is ahead of all that is known.
DatesInv ==
  /\ \A o \in pending \cup tr.pend : o.sig <= Horizon
  /\ \A p \in open : p.sig <= Horizon
  /\ \A s \in Symbols : last[s].at <= now
  /\ \A p \in open : p.entered <= now /\ (p.entered = 0 \/ p.entered <= last[p.sym].at)
  /\ \A p \in open : p.sig = Legacy => p.entered = 0

\* The log: an id's first part is its type but for a refusal, which takes the
\* entry's id; an exit has an entry; its id is one the ledger has a row for.
LogInv ==
  /\ \A e \in events : (e.type = "exit" <=> e.id[1] = "exit") /\ e.pnl \in Int
  /\ \A e \in ExitEvents : e.id \in ExitIds
  /\ \A e \in ExitEvents : e.id[3] # Legacy => <<"entry", e.id[2], e.id[3]>> \in EventIds
  /\ PositionsClosable

\* A position has at most one bar per session from its entry to the last
\* session that counted it, and fewer than the policy allows.
AgeInv ==
  \A p \in open :
    /\ p.bars < MaxBars
    /\ p.rec # None => DayOf(p.entered) <= p.rec /\ p.rec <= DayOf(now)
    /\ p.sig # Legacy => p.bars <= (IF p.rec = None THEN 0 ELSE p.rec - DayOf(p.entered) + 1)

CashInv == CashConserved /\ cash \in Int /\ IsFiniteSet(events)

\* Without a death between save and report, what is on record is of dates
\* already reported, or of the date about to be.
OnRecord(g) == g < NextRunDate \/ (tr.pc = "saved" /\ g = NextRunDate)
FreshInv ==
  /\ \A o \in pending : OnRecord(o.sig) /\ {EntryId(o), MissedId(o), ExitId(o)} \cap EventIds = {}
  /\ \A p \in open : OnRecord(p.sig)
  /\ \A id \in EventIds : OnRecord(id[3])
  /\ tr.pc = "placed" => \A n \in NewOrders : n.sig = NextRunDate

-----------------------------------------------------------------------------
(* What the steps do to the book                                             *)

LEMMA DayMonotone == \A a, b \in Nat : a <= b => DayOf(a) <= DayOf(b)
<1>1. \A a, b, k \in Nat : k > 0 /\ a <= b => a \div k <= b \div k
  OBVIOUS
<1> QED
  BY <1>1, ConstantsAssumption DEF DayOf

LEMMA RecordIds ==
  ASSUME NEW es, events' = RecordEvents(es)
  PROVE  EventIds' = EventIds \cup {e.id : e \in es}
BY DEF EventIds, RecordEvents

\* A tick moves one order into the book or out of it, or one position out.
LEMMA TickBook ==
  ASSUME TypeOK, NEW s \in Symbols, NEW at \in 0..now, NEW px \in Prices,
         ProcessTick(s, at, px)
  PROVE  /\ UNCHANGED <<now, ledger, recon, tr, lastReport>>
         /\ worker = "up" /\ worker' = "syncing"
         /\ at \in Nat /\ px \in Nat
         /\ last' = [last EXCEPT ![s] = [at |-> at, px |-> px]] /\ last[s].at <= at
         /\ \/ \E o \in pending : /\ o.sym = s /\ InSession(at) /\ EnterOrder(o, at, px)
            \/ \E o \in pending : o.sym = s /\ RefuseOrder(o, px)
            \/ \E p \in open : p.sym = s /\ LiveExit(p, at, px)
            \/ UNCHANGED <<cash, pending, open, events>>
<1>1. at \in Nat /\ px \in Nat
  BY ConstantsAssumption DEF TypeOK
<1>2. last[s].at <= at
  BY <1>1 DEF ProcessTick, OutOfOrder, TypeOK
<1> QED
  BY <1>1, <1>2 DEF ProcessTick, EnterableAt, Enterable, HeldAs, RepeatEntry

\* The candles a reconciliation sees are of the session it closes.
LEMMA CandlesTyped ==
  ASSUME TypeOK, NEW cs \in [recon.targets -> CandleSets(DayOf(now))], NEW p,
         NEW c \in CandlesFor(cs, p)
  PROVE  c.at \in 0..MaxTime /\ DayOf(c.at) = DayOf(now) /\ c.bar \in Bars
<1>1. p.sym \in recon.targets /\ c \in cs[p.sym]
  BY DEF CandlesFor
<1>2. cs[p.sym] \in CandleSets(DayOf(now))
  BY <1>1
<1>3. cs[p.sym] \subseteq Candles(DayOf(now))
  BY <1>2 DEF CandleSets, kSubset
<1> QED
  BY <1>1, <1>3 DEF Candles

LEMMA FirstLast ==
  ASSUME NEW C, C # {}, \A c \in C : c.at \in 0..MaxTime
  PROVE  FirstOf(C) \in C /\ LastOf(C) \in C /\ \A c \in C : c.at <= LastOf(C).at
<1> DEFINE T == {c.at : c \in C}
<1>1. T \in SUBSET Nat /\ T # {} /\ MaxTime \in Nat /\ \A t \in T : t <= MaxTime
  BY ConstantsAssumption
<1>2. PICK t \in T : \A u \in T : t <= u
  <2> HIDE DEF T
  <2> QED
    BY <1>1, LeastNatural
<1>3. PICK m \in T : \A u \in T : u <= m
  <2> HIDE DEF T
  <2> QED
    BY <1>1, GreatestNatural
<1>4. \E c \in C : \A e \in C : c.at <= e.at
  BY <1>2
<1>5. \E c \in C : \A e \in C : c.at >= e.at
  BY <1>1, <1>3
<1>6. FirstOf(C) \in C
  BY <1>4 DEF FirstOf
<1>7. LastOf(C) \in C /\ \A e \in C : LastOf(C).at >= e.at
  BY <1>5 DEF LastOf
<1> QED
  BY <1>1, <1>6, <1>7

-----------------------------------------------------------------------------
(* Dates                                                                     *)

LEMMA DatesStep == TypeOK /\ DatesInv /\ [Next]_vars => DatesInv'
<1> SUFFICES ASSUME TypeOK, DatesInv, [Next]_vars PROVE DatesInv'
  OBVIOUS
<1>1. now \in Nat /\ MaxTime \in Nat /\ now <= MaxTime /\ Horizon \in Nat
  BY ConstantsAssumption, DayTyped DEF TypeOK, Horizon
<1>2. ASSUME pending' \cup tr'.pend \subseteq pending \cup tr.pend, open' \subseteq open,
             UNCHANGED last, now' \in Nat, now <= now'
      PROVE  DatesInv'
  BY <1>1, <1>2 DEF DatesInv, Horizon, DayOf, TypeOK, PositionType
<1>3. CASE Tick
  <2>1. PICK s \in Symbols, at \in 0..now, px \in Prices : ProcessTick(s, at, px)
    BY <1>3 DEF Tick
  <2>2. /\ \A x \in Symbols : last'[x].at \in Int /\ last[x].at <= last'[x].at /\ last'[x].at <= now
        /\ last'[s].at = at /\ UNCHANGED <<now, tr>>
    BY <1>1, <2>1, TickBook DEF TypeOK, DatesInv
  <2>3. ASSUME pending' \subseteq pending, open' \subseteq open PROVE DatesInv'
    BY <1>1, <2>2, <2>3 DEF DatesInv, Horizon, DayOf, TypeOK, PositionType
  <2>4. CASE \E o \in pending : o.sym = s /\ InSession(at) /\ EnterOrder(o, at, px)
    <3>1. PICK o \in pending : o.sym = s /\ EnterOrder(o, at, px)
      BY <2>4
    <3> DEFINE q == PositionOf(o, at, px)
    <3>2. /\ pending' \subseteq pending /\ open' = open \cup {q}
          /\ q.sym = s /\ q.entered = at /\ q.sig = o.sig /\ q.sig # Legacy
      BY <3>1 DEF EnterOrder, PositionOf, TypeOK, OrderType, Legacy
    <3> HIDE DEF q
    <3> QED
      BY <1>1, <2>2, <3>2 DEF DatesInv, Horizon, DayOf, TypeOK, PositionType
  <2> QED
    BY <2>1, <2>3, <2>4, TickBook DEF RefuseOrder, LiveExit
<1>4. CASE ReconcileSession
  <2>1. PICK cs \in [recon.targets -> CandleSets(DayOf(now))] : Reconcile(cs)
    BY <1>4 DEF ReconcileSession
  <2>2. \A q \in open' : \E p \in open : q.sym = p.sym /\ q.sig = p.sig /\ q.entered = p.entered
    <3>1. DayOf(now) \in Int
      BY <1>1, DayTyped
    <3>2. \A p \in open : LET q == Counted(p, cs, DayOf(now)) IN
                            q.sym = p.sym /\ q.sig = p.sig /\ q.entered = p.entered
      BY DEF Counted, TypeOK, PositionType
    <3> QED
      BY <2>1, <3>2 DEF Reconcile
  <2>3. pending' \subseteq pending /\ UNCHANGED <<now, last, tr>>
    BY <2>1 DEF Reconcile
  <2> QED
    BY <2>2, <2>3 DEF DatesInv
<1>5. CASE \E S \in SUBSET Symbols : TraderPlace(S)
  <2>1. PICK S \in SUBSET Symbols : TraderPlace(S)
    BY <1>5
  <2>2. NextRunDate \in Nat /\ NextRunDate <= DayOf(now)
    BY <2>1, <1>1, DayTyped DEF TraderPlace, DayClosed, NextRunDate, None, TypeOK
  <2>3. NextRunDate <= Horizon
    <3>1. DayOf(now) <= Horizon /\ DayOf(now) \in Nat
      BY <1>1, DayMonotone, DayTyped DEF Horizon
    <3> QED
      BY <1>1, <2>2, <3>1
  <2>4. \A o \in tr'.pend : o \in pending \/ o.sig = NextRunDate
    BY <2>1 DEF TraderPlace
  <2> QED
    BY <2>1, <2>3, <2>4 DEF TraderPlace, stateFile, DatesInv, Horizon, DayOf
<1>6. CASE TraderSave \/ TraderReport \/ TraderDies
  BY <1>1, <1>2, <1>6 DEF TraderSave, TraderReport, TraderDies, NoRun, NewOrders, stateFile
<1>7. CASE Advance
  BY <1>1, <1>2, <1>7 DEF Advance, stateFile
<1>8. CASE SyncLedger \/ ReconcileFetch \/ ReconcileFail \/ WorkerCrash \/ WorkerStart
           \/ BreakStaleLock \/ UNCHANGED vars
  BY <1>1, <1>2, <1>8 DEF SyncLedger, ReconcileFetch, ReconcileFail, WorkerCrash, WorkerStart,
                          BreakStaleLock, vars, stateFile
<1> QED
  BY <1>3, <1>4, <1>5, <1>6, <1>7, <1>8 DEF Next

-----------------------------------------------------------------------------
(* Prices of the exits                                                       *)

LEMMA ProceedsNatural ==
  ASSUME NEW p \in PositionType, NEW px \in Nat
  PROVE  Proceeds(p, px) \in Nat
<1>1. EffectiveExit(px) \in Nat
  BY DEF EffectiveExit
<1>2. p.shares \in Nat
  BY DEF PositionType
<1>3. \A a, b \in Nat : a * b \in Nat
  OBVIOUS
<1> QED
  BY <1>1, <1>2, <1>3 DEF Proceeds

LEMMA LivePriceNatural ==
  ASSUME NEW p \in PositionType, NEW px \in Nat
  PROVE  LiveExitPrice(p, px) \in Nat
BY DEF LiveExitPrice, PositionType

\* A recovered exit is the exit of its position, at a price and an instant of
\* a candle of the session; it is dated before no entry.
LEMMA RecoveredTyped ==
  ASSUME TypeOK, NEW cs \in [recon.targets -> CandleSets(DayOf(now))],
         NEW p \in Closing(cs, DayOf(now))
  PROVE  \E px \in Nat, c \in CandlesFor(cs, p) :
           /\ RecoveredExit(p, cs) = ExitEvent(p, px, c.at)
           /\ Triggers(p, cs) # {} => p.sig = Legacy \/ c.at > p.entered
<1>1. p \in open /\ p \in PositionType
  BY DEF Closing, TypeOK
<1>2. CASE Triggers(p, cs) # {}
  <2> DEFINE c == FirstOf(Triggers(p, cs))
  <2>1. \A e \in Triggers(p, cs) :
          /\ e \in CandlesFor(cs, p) /\ e.at \in 0..MaxTime
          /\ p.sig = Legacy \/ e.at > p.entered
    BY CandlesTyped DEF Triggers
  <2>2. c \in Triggers(p, cs)
    BY <1>2, <2>1, FirstLast
  <2>3. c \in CandlesFor(cs, p) /\ c.bar \in Bars /\ (p.sig = Legacy \/ c.at > p.entered)
    BY <2>1, <2>2, CandlesTyped
  <2>4. TriggerPrice(p, c.bar) \in Nat
    BY <1>1, <2>3, ConstantsAssumption DEF TriggerPrice, PositionType
  <2>5. RecoveredExit(p, cs) = ExitEvent(p, TriggerPrice(p, c.bar), c.at)
    BY <1>2 DEF RecoveredExit
  <2> HIDE DEF c
  <2> QED
    BY <2>3, <2>4, <2>5
<1>3. CASE Triggers(p, cs) = {}
  <2> DEFINE c == LastOf(CandlesFor(cs, p))
  <2>1. CandlesFor(cs, p) # {}
    BY <1>3 DEF Closing
  <2>2. c \in CandlesFor(cs, p)
    BY <2>1, CandlesTyped, FirstLast
  <2>3. c.bar.close \in Nat
    BY <2>2, CandlesTyped, ConstantsAssumption
  <2>4. RecoveredExit(p, cs) = ExitEvent(p, c.bar.close, c.at)
    BY <1>3 DEF RecoveredExit
  <2> HIDE DEF c
  <2> QED
    BY <1>3, <2>2, <2>3, <2>4
<1> QED
  BY <1>2, <1>3

-----------------------------------------------------------------------------
(* The log                                                                   *)

\* A step that takes the positions out off the book with their exits, and
\* enters orders whose entry was not on record.
LEMMA LogKept ==
  ASSUME TypeOK, DatesInv, LogInv, OneClaimPerSymbol, NEW out \in SUBSET open, NEW es,
         events' = RecordEvents(es),
         \A e \in es : /\ e.pnl \in Int
                       /\ \/ e.type # "exit" /\ e.id[1] # "exit"
                          \/ \E p \in out : e.type = "exit" /\ e.id = ExitId(p),
         \A q \in open' :
           \/ \E p \in open \ out : q.sym = p.sym /\ q.sig = p.sig
           \/ \E o \in pending : /\ q.sym = o.sym /\ q.sig = o.sig
                                 /\ EntryId(o) \notin EventIds /\ EntryId(o) \in EventIds'
                                 /\ \A e \in es : e.id[1] # "exit"
  PROVE  LogInv'
<1>1. EventIds' = EventIds \cup {e.id : e \in es}
  BY RecordIds
<1>2. events' \subseteq events \cup es
  BY DEF RecordEvents
<1>3. \A e \in events' : (e.type = "exit" <=> e.id[1] = "exit") /\ e.pnl \in Int
  BY <1>2 DEF LogInv, ExitId
<1>4. ASSUME NEW p \in open
      PROVE  /\ ExitId(p) \in ExitIds /\ ExitId(p)[3] = p.sig /\ ExitId(p)[2] = p.sym
             /\ p.sig # Legacy => EntryId(p) \in EventIds
             /\ EntryId(p) = <<"entry", p.sym, p.sig>>
  <2>1. p \in PositionType /\ p.sig <= Horizon /\ Horizon \in Nat
    BY ConstantsAssumption, DayTyped DEF TypeOK, DatesInv, Horizon
  <2>2. p.sig \in (0..DayOf(MaxTime)) \cup {Legacy}
    BY <2>1 DEF PositionType, Horizon
  <2> QED
    BY <2>1, <2>2 DEF ExitId, EntryId, ExitIds, PositionType, LogInv, PositionsClosable
<1>5. \A e \in ExitEvents' : e \in ExitEvents \/ \E p \in out : e.id = ExitId(p)
  BY <1>2 DEF ExitEvents
<1>6. \A e \in ExitEvents' : e.id \in ExitIds
  BY <1>4, <1>5 DEF LogInv
<1>7. \A e \in ExitEvents' : e.id[3] # Legacy => <<"entry", e.id[2], e.id[3]>> \in EventIds'
  BY <1>1, <1>4, <1>5 DEF LogInv
<1>8. PositionsClosable'
  <2>1. ASSUME NEW q \in open', NEW p \in open \ out, q.sym = p.sym, q.sig = p.sig
        PROVE  (q.sig # Legacy => EntryId(q) \in EventIds') /\ ExitId(q) \notin EventIds'
    <3>1. EntryId(q) = EntryId(p) /\ ExitId(q) = ExitId(p)
      BY <2>1 DEF EntryId, ExitId
    <3>2. ExitId(p) \notin EventIds
      BY DEF LogInv, PositionsClosable
    <3>3. \A e \in es : e.id # ExitId(p)
      BY DEF ExitId, OneClaimPerSymbol
    <3> QED
      BY <1>1, <1>4, <2>1, <3>1, <3>2, <3>3
  <2>2. ASSUME NEW q \in open', NEW o \in pending, q.sym = o.sym, q.sig = o.sig,
               EntryId(o) \notin EventIds, EntryId(o) \in EventIds',
               \A e \in es : e.id[1] # "exit"
        PROVE  (q.sig # Legacy => EntryId(q) \in EventIds') /\ ExitId(q) \notin EventIds'
    <3>1. EntryId(q) = EntryId(o) /\ ExitId(q) = ExitId(o) /\ o.sig # Legacy
      BY <2>2 DEF EntryId, ExitId, TypeOK, OrderType, Legacy
    <3>2. ExitId(o) \notin EventIds
      <4>1. ExitId(o)[1] = "exit" /\ ExitId(o)[2] = o.sym /\ ExitId(o)[3] = o.sig
        BY DEF ExitId
      <4>2. \A e \in events : e.id = ExitId(o) => e \in ExitEvents
        BY <4>1 DEF LogInv, ExitEvents
      <4> QED
        BY <2>2, <3>1, <4>1, <4>2 DEF LogInv, EventIds, EntryId
    <3>3. \A e \in es : e.id # ExitId(o)
      BY <2>2 DEF ExitId
    <3> QED
      BY <1>1, <2>2, <3>1, <3>2, <3>3
  <2> QED
    BY <2>1, <2>2 DEF PositionsClosable
<1> QED
  BY <1>3, <1>6, <1>7, <1>8 DEF LogInv

LEMMA ExitForm ==
  ASSUME NEW p \in PositionType, NEW px \in Nat, NEW at
  PROVE  LET e == ExitEvent(p, px, at) IN
           /\ e.type = "exit" /\ e.id = ExitId(p) /\ e.at = at /\ e.entered = p.entered
           /\ e.pnl = Proceeds(p, px) - p.cost /\ e.pnl \in Int
<1>1. Proceeds(p, px) \in Int /\ p.cost \in Int
  BY ProceedsNatural DEF PositionType
<1> QED
  BY <1>1 DEF ExitEvent

\* An event id names its type, its symbol and its signal date.
LEMMA IdParts ==
  ASSUME NEW r
  PROVE  /\ EntryId(r) = <<"entry", r.sym, r.sig>> /\ EntryId(r)[1] = "entry"
         /\ MissedId(r) = <<"missed", r.sym, r.sig>> /\ MissedId(r)[1] = "missed"
         /\ ExitId(r) = <<"exit", r.sym, r.sig>> /\ ExitId(r)[1] = "exit"
BY DEF EntryId, MissedId, ExitId

LEMMA EventForms ==
  ASSUME NEW o
  PROVE  /\ EntryEvent(o).id = EntryId(o) /\ EntryEvent(o).type = "entry"
         /\ RefusedEvent(o).id = EntryId(o) /\ RefusedEvent(o).type = "missed"
         /\ MissedEvent(o).id = MissedId(o) /\ MissedEvent(o).type = "missed"
         /\ EntryEvent(o).pnl = 0 /\ RefusedEvent(o).pnl = 0 /\ MissedEvent(o).pnl = 0
BY DEF EntryEvent, RefusedEvent, MissedEvent

LEMMA TickLog ==
  ASSUME TypeOK, DatesInv, LogInv, OneClaimPerSymbol,
         NEW s \in Symbols, NEW at \in 0..now, NEW px \in Prices, ProcessTick(s, at, px)
  PROVE  LogInv'
<1>1. at \in Nat /\ px \in Nat
  BY TickBook
<1>2. CASE \E o \in pending : EnterOrder(o, at, px)
  <2>1. PICK o \in pending : EnterOrder(o, at, px)
    BY <1>2
  <2> DEFINE es == {EntryEvent(o)}
             none == {}
             q == PositionOf(o, at, px)
  <2>2. /\ events' = RecordEvents(es) /\ open' = open \cup {q}
        /\ EntryId(o) \notin EventIds
    BY <2>1 DEF EnterOrder
  <2>3. q.sym = o.sym /\ q.sig = o.sig
    BY DEF PositionOf
  <2>4. \A e \in es : /\ e.pnl \in Int /\ e.type # "exit" /\ e.id = EntryId(o)
                      /\ e.id[1] # "exit"
    <3>1. EntryId(o)[1] # "exit"
      BY IdParts
    <3> QED
      BY <3>1, EventForms
  <2>5. EntryId(o) \in EventIds'
    BY <2>2, RecordIds, EventForms
  <2>6. none \in SUBSET open /\ open \ none = open
    OBVIOUS
  <2> HIDE DEF es, none, q
  <2>7. \A x \in open' : \/ \E p \in open \ none : x.sym = p.sym /\ x.sig = p.sig
                         \/ /\ x.sym = o.sym /\ x.sig = o.sig
                            /\ EntryId(o) \notin EventIds /\ EntryId(o) \in EventIds'
                            /\ \A e \in es : e.id[1] # "exit"
    BY <2>2, <2>3, <2>4, <2>5, <2>6
  <2> QED
    BY <2>2, <2>4, <2>6, <2>7, LogKept
<1>3. CASE \E o \in pending : RefuseOrder(o, px)
  <2>1. PICK o \in pending : RefuseOrder(o, px)
    BY <1>3
  <2> DEFINE es == {RefusedEvent(o)}
             none == {}
  <2>2. events' = RecordEvents(es) /\ open' = open
    BY <2>1 DEF RefuseOrder
  <2>3. \A e \in es : e.pnl \in Int /\ e.type # "exit" /\ e.id[1] # "exit"
    <3>1. EntryId(o)[1] # "exit"
      BY IdParts
    <3> QED
      BY <3>1, EventForms
  <2>4. none \in SUBSET open /\ open \ none = open
    OBVIOUS
  <2> HIDE DEF es, none
  <2> QED
    BY <2>2, <2>3, <2>4, LogKept
<1>4. CASE \E p \in open : LiveExit(p, at, px)
  <2>1. PICK p \in open : LiveExit(p, at, px)
    BY <1>4
  <2> DEFINE es == {ExitEvent(p, LiveExitPrice(p, px), at)}
             out == {p}
  <2>2. events' = RecordEvents(es) /\ open' = open \ out
    BY <2>1 DEF LiveExit
  <2>3. p \in PositionType /\ LiveExitPrice(p, px) \in Nat
    BY <1>1, LivePriceNatural DEF TypeOK
  <2>4. \A e \in es : e.pnl \in Int /\ e.type = "exit" /\ e.id = ExitId(p)
    BY <2>3, ExitForm
  <2>5. out \in SUBSET open /\ p \in out
    OBVIOUS
  <2> HIDE DEF es, out
  <2> QED
    BY <2>2, <2>4, <2>5, LogKept
<1>5. CASE UNCHANGED <<open, events>>
  BY <1>5 DEF LogInv, PositionsClosable, EventIds, ExitEvents
<1> QED
  BY <1>2, <1>3, <1>4, <1>5, TickBook

\* What a reconciliation records: the exits of the positions it closes and
\* the misses of the orders it drops.
LEMMA ReconcileBook ==
  ASSUME TypeOK, NEW cs \in [recon.targets -> CandleSets(DayOf(now))], Reconcile(cs),
         NEW closing, closing = Closing(cs, DayOf(now))
  PROVE  /\ closing \subseteq open
         /\ \A p \in closing : /\ p \in PositionType /\ ExitId(p) \notin EventIds
                               /\ RecoveredExit(p, cs).type = "exit"
                               /\ RecoveredExit(p, cs).id = ExitId(p)
                               /\ RecoveredExit(p, cs).pnl \in Int
                               /\ RecoveredExit(p, cs).pnl + p.cost \in Nat
         /\ \A q \in open' : \E p \in open \ closing :
                q = Counted(p, cs, DayOf(now)) /\ q.sym = p.sym /\ q.sig = p.sig
<1>1. closing \subseteq open /\ \A p \in closing : ExitId(p) \notin EventIds
  BY DEF Closing
<1>2. ASSUME NEW p \in closing
      PROVE  /\ p \in PositionType
             /\ RecoveredExit(p, cs).type = "exit" /\ RecoveredExit(p, cs).id = ExitId(p)
             /\ RecoveredExit(p, cs).pnl \in Int /\ RecoveredExit(p, cs).pnl + p.cost \in Nat
  <2>1. p \in PositionType /\ p.cost \in Int
    BY <1>1 DEF TypeOK, PositionType
  <2>2. PICK px \in Nat, c \in CandlesFor(cs, p) : RecoveredExit(p, cs) = ExitEvent(p, px, c.at)
    BY RecoveredTyped
  <2>3. Proceeds(p, px) \in Nat
    BY <2>1, ProceedsNatural
  <2>4. Proceeds(p, px) - p.cost + p.cost = Proceeds(p, px)
    BY <2>1, <2>3
  <2> QED
    BY <2>1, <2>2, <2>3, <2>4, ExitForm
<1>3. ASSUME NEW q \in open'
      PROVE  \E p \in open \ closing :
                q = Counted(p, cs, DayOf(now)) /\ q.sym = p.sym /\ q.sig = p.sig
  <2>1. PICK p \in open \ closing : q = Counted(p, cs, DayOf(now))
    BY DEF Reconcile
  <2>2. p \in PositionType /\ DayOf(now) \in Int
    BY DayTyped DEF TypeOK
  <2> QED
    BY <2>1, <2>2, CountedTyped
<1> QED
  BY <1>1, <1>2, <1>3

LEMMA ReconcileLog ==
  ASSUME TypeOK, DatesInv, LogInv, OneClaimPerSymbol,
         NEW cs \in [recon.targets -> CandleSets(DayOf(now))], Reconcile(cs)
  PROVE  LogInv'
<1> DEFINE d == DayOf(now)
           out == Closing(cs, d)
           es == {RecoveredExit(p, cs) : p \in out} \cup {MissedEvent(o) : o \in MissedOrders(d)}
<1>1. events' = RecordEvents(es)
  BY DEF Reconcile
<1>2. out \in SUBSET open
  BY ReconcileBook
<1>3. \A e \in es : /\ e.pnl \in Int
                    /\ \/ e.type # "exit" /\ e.id[1] # "exit"
                       \/ \E p \in out : e.type = "exit" /\ e.id = ExitId(p)
  <2>1. ASSUME NEW o \in MissedOrders(d)
        PROVE  MissedEvent(o).pnl \in Int /\ MissedEvent(o).type # "exit" /\ MissedEvent(o).id[1] # "exit"
    <3>1. MissedId(o)[1] # "exit"
      BY IdParts
    <3> QED
      BY <3>1, EventForms
  <2>2. \A p \in out : /\ RecoveredExit(p, cs).pnl \in Int /\ RecoveredExit(p, cs).type = "exit"
                       /\ RecoveredExit(p, cs).id = ExitId(p)
    BY ReconcileBook
  <2> HIDE DEF out
  <2> QED
    BY <2>1, <2>2
<1>4. \A q \in open' : \E p \in open \ out : q.sym = p.sym /\ q.sig = p.sig
  BY ReconcileBook
<1> HIDE DEF out, es
<1> QED
  BY <1>1, <1>2, <1>3, <1>4, LogKept

LEMMA LogStep == TypeOK /\ DatesInv /\ LogInv /\ MergeInv /\ [Next]_vars => LogInv'
<1> SUFFICES ASSUME TypeOK, DatesInv, LogInv, MergeInv, [Next]_vars PROVE LogInv'
  OBVIOUS
<1>1. OneClaimPerSymbol
  BY DEF MergeInv
<1>2. CASE Tick
  BY <1>1, <1>2, TickLog DEF Tick
<1>3. CASE ReconcileSession
  BY <1>1, <1>3, ReconcileLog DEF ReconcileSession
<1>4. ASSUME UNCHANGED <<open, events>> PROVE LogInv'
  BY <1>4 DEF LogInv, PositionsClosable, EventIds, ExitEvents
<1> QED
  BY <1>2, <1>3, <1>4
     DEF Next, vars, stateFile, Advance, SyncLedger, ReconcileFetch, ReconcileFail, WorkerCrash,
         WorkerStart, BreakStaleLock, TraderPlace, TraderSave, TraderReport, TraderDies

-----------------------------------------------------------------------------
(* Ages and the dates of exits                                               *)

LEMMA CountedForm ==
  ASSUME NEW p \in PositionType, NEW cs, NEW d \in Int
  PROVE  LET q == Counted(p, cs, d) IN
           /\ q.entered = p.entered /\ q.cost = p.cost
           /\ \/ q.bars = p.bars /\ q.rec = p.rec
              \/ /\ CandlesFor(cs, p) # {} /\ p.rec # d
                 /\ q.bars = p.bars + 1 /\ q.rec = d
BY DEF Counted, PositionType

\* A reconciliation ages what it keeps by one bar at most, and by none when
\* the session was counted before.
LEMMA ReconcileAges ==
  ASSUME TypeOK, DatesInv, LogInv, AgeInv,
         NEW cs \in [recon.targets -> CandleSets(DayOf(now))], Reconcile(cs)
  PROVE  AgeInv'
<1> DEFINE d == DayOf(now)
<1>1. d \in Nat /\ now' = now /\ d' = d
  BY DayTyped DEF TypeOK, Reconcile, DayOf
<1>2. SUFFICES ASSUME NEW q \in open'
               PROVE  /\ q.bars < MaxBars
                      /\ q.rec # None => DayOf(q.entered) <= q.rec /\ q.rec <= d
                      /\ q.sig # Legacy =>
                           q.bars <= (IF q.rec = None THEN 0 ELSE q.rec - DayOf(q.entered) + 1)
  BY <1>1 DEF AgeInv, DayOf
<1>3. PICK p \in open \ Closing(cs, d) : q = Counted(p, cs, d) /\ q.sig = p.sig
  BY ReconcileBook
<1>4. /\ p \in PositionType /\ p.bars \in Nat /\ p.rec \in Int /\ p.entered \in Nat
      /\ p.bars < MaxBars /\ MaxBars \in Nat
  BY ConstantsAssumption DEF TypeOK, PositionType, AgeInv
<1>5. DayOf(p.entered) \in Nat /\ DayOf(p.entered) <= d
  BY <1>4, DayTyped, DayMonotone DEF TypeOK, DatesInv
<1>6. CandlesFor(cs, p) # {} => q.bars < MaxBars
  <2>1. ExitId(p) \notin EventIds
    BY DEF LogInv, PositionsClosable
  <2>2. q.bars \in Nat
    BY <1>1, <1>3, <1>4, CountedTyped DEF PositionType
  <2>3. CandlesFor(cs, p) # {} => ~(q.bars >= MaxBars)
    BY <1>3, <2>1 DEF Closing
  <2> QED
    BY <1>4, <2>2, <2>3
<1>7. /\ p.rec # None => DayOf(p.entered) <= p.rec /\ p.rec <= d
      /\ p.sig # Legacy => p.bars <= (IF p.rec = None THEN 0 ELSE p.rec - DayOf(p.entered) + 1)
  BY DEF AgeInv
<1>8. q.entered = p.entered
  BY <1>1, <1>3, <1>4, CountedForm
<1> HIDE DEF d
<1>9. CASE q.bars = p.bars /\ q.rec = p.rec
  BY <1>3, <1>4, <1>7, <1>8, <1>9
<1>10. CASE CandlesFor(cs, p) # {} /\ p.rec # d /\ q.bars = p.bars + 1 /\ q.rec = d
  BY <1>1, <1>3, <1>4, <1>5, <1>6, <1>7, <1>8, <1>10 DEF None
<1> QED
  BY <1>1, <1>3, <1>4, <1>9, <1>10, CountedForm

LEMMA AgeStep == TypeOK /\ DatesInv /\ LogInv /\ AgeInv /\ [Next]_vars => AgeInv'
<1> SUFFICES ASSUME TypeOK, DatesInv, LogInv, AgeInv, [Next]_vars PROVE AgeInv'
  OBVIOUS
<1>1. now \in Nat
  BY DEF TypeOK
<1>2. ASSUME open' \subseteq open, now' \in Nat, now <= now' PROVE AgeInv'
  <2>1. DayOf(now) <= DayOf(now') /\ DayOf(now) \in Nat /\ DayOf(now') \in Nat
    BY <1>1, <1>2, DayMonotone, DayTyped
  <2>2. DayOf(now') = DayOf(now)'
    BY DEF DayOf
  <2>3. \A p \in open : p.rec \in Int
    BY DEF TypeOK, PositionType
  <2>4. \A t : DayOf(t)' = DayOf(t')
    BY DEF DayOf
  <2> QED
    BY <1>2, <2>1, <2>2, <2>3 DEF AgeInv, DayOf
<1>3. CASE Tick
  <2>1. PICK s \in Symbols, at \in 0..now, px \in Prices : ProcessTick(s, at, px)
    BY <1>3 DEF Tick
  <2>2. now' = now
    BY <2>1, TickBook
  <2>3. CASE \E o \in pending : EnterOrder(o, at, px)
    <3>1. PICK o \in pending : EnterOrder(o, at, px)
      BY <2>3
    <3> DEFINE q == PositionOf(o, at, px)
    <3>2. open' = open \cup {q} /\ q.bars = 0 /\ q.rec = None
      BY <3>1 DEF EnterOrder, PositionOf
    <3> HIDE DEF q
    <3> QED
      BY <2>2, <3>2, ConstantsAssumption DEF AgeInv, DayOf
  <2>4. CASE open' \subseteq open
    BY <1>1, <1>2, <2>2, <2>4
  <2> QED
    BY <2>1, <2>3, <2>4, TickBook DEF RefuseOrder, LiveExit
<1>4. CASE ReconcileSession
  BY <1>4, ReconcileAges DEF ReconcileSession
<1>5. CASE Advance
  BY <1>1, <1>2, <1>5 DEF Advance, stateFile
<1>6. ASSUME UNCHANGED <<now, open>> PROVE AgeInv'
  BY <1>1, <1>2, <1>6
<1> QED
  BY <1>3, <1>4, <1>5, <1>6
     DEF Next, vars, stateFile, SyncLedger, ReconcileFetch, ReconcileFail, WorkerCrash,
         WorkerStart, BreakStaleLock, TraderPlace, TraderSave, TraderReport, TraderDies

\* An exit forced by the holding limit closes a position counted in an earlier
\* session, so its candle is of a later day than the entry.
LEMMA RecoveredDated ==
  ASSUME TypeOK, DatesInv, AgeInv,
         NEW cs \in [recon.targets -> CandleSets(DayOf(now))], NEW p \in Closing(cs, DayOf(now))
  PROVE  /\ RecoveredExit(p, cs).entered = p.entered
         /\ RecoveredExit(p, cs).at >= p.entered
<1> DEFINE d == DayOf(now)
<1>1. /\ p \in open /\ p \in PositionType /\ p.bars \in Nat /\ p.rec \in Int /\ p.entered \in Nat
      /\ p.bars < MaxBars /\ MaxBars \in Nat /\ MaxBars > 1 /\ d \in Nat
  BY ConstantsAssumption, DayTyped DEF TypeOK, PositionType, AgeInv, Closing
<1>2. PICK px \in Nat, c \in CandlesFor(cs, p) :
         /\ RecoveredExit(p, cs) = ExitEvent(p, px, c.at)
         /\ Triggers(p, cs) # {} => p.sig = Legacy \/ c.at > p.entered
  BY RecoveredTyped
<1>3. RecoveredExit(p, cs).entered = p.entered /\ RecoveredExit(p, cs).at = c.at
  BY <1>1, <1>2, ExitForm
<1>4. c.at \in Nat /\ DayOf(c.at) = d
  BY CandlesTyped
<1>5. CASE Triggers(p, cs) # {}
  <2>1. p.sig = Legacy => p.entered = 0
    BY <1>1 DEF DatesInv
  <2> QED
    BY <1>1, <1>2, <1>3, <1>4, <1>5, <2>1
<1>6. CASE Triggers(p, cs) = {}
  <2>1. Counted(p, cs, d).bars >= MaxBars
    BY <1>6 DEF Closing
  <2> HIDE DEF d
  <2>2. p.rec # d /\ p.bars >= 1
    BY <1>1, <2>1, CountedForm
  <2>3. CASE p.sig = Legacy
    BY <1>1, <1>3, <1>4, <2>3 DEF DatesInv
  <2>4. CASE p.sig # Legacy
    <3>1. p.rec # None
      BY <1>1, <2>2, <2>4 DEF AgeInv
    <3>2. DayOf(p.entered) <= p.rec /\ p.rec <= d
      BY <1>1, <3>1 DEF AgeInv, d
    <3>3. DayOf(p.entered) \in Nat /\ DayOf(p.entered) < DayOf(c.at)
      BY <1>1, <1>4, <2>2, <3>2, DayTyped
    <3>4. ~(c.at <= p.entered)
      BY <1>1, <1>4, <3>3, DayMonotone, DayTyped
    <3> QED
      BY <1>1, <1>3, <1>4, <3>4
  <2> QED
    BY <2>3, <2>4
<1> QED
  BY <1>3, <1>5, <1>6

LEMMA DatedStep ==
  TypeOK /\ DatesInv /\ AgeInv /\ ExitNotBeforeEntry /\ [Next]_vars => ExitNotBeforeEntry'
<1> SUFFICES ASSUME TypeOK, DatesInv, AgeInv, ExitNotBeforeEntry, [Next]_vars
             PROVE  ExitNotBeforeEntry'
  OBVIOUS
<1>1. ASSUME NEW es, events' = RecordEvents(es), \A e \in es : e.type = "exit" => e.at >= e.entered
      PROVE  ExitNotBeforeEntry'
  BY <1>1 DEF ExitNotBeforeEntry, ExitEvents, RecordEvents
<1>2. CASE Tick
  <2>1. PICK s \in Symbols, at \in 0..now, px \in Prices : ProcessTick(s, at, px)
    BY <1>2 DEF Tick
  <2>2. CASE \E o \in pending : EnterOrder(o, at, px) \/ RefuseOrder(o, px)
    <3>1. \A o : EntryEvent(o).type # "exit" /\ RefusedEvent(o).type # "exit"
      BY EventForms
    <3> QED
      BY <1>1, <2>2, <3>1 DEF EnterOrder, RefuseOrder
  <2>3. CASE \E p \in open : p.sym = s /\ LiveExit(p, at, px)
    <3>1. PICK p \in open : p.sym = s /\ LiveExit(p, at, px)
      BY <2>3
    <3>2. p \in PositionType /\ p.entered \in Nat /\ at \in Nat /\ last[s].at \in Int /\ last[s].at <= at
      BY <2>1, TickBook DEF TypeOK, PositionType
    <3>3. p.entered <= at
      BY <3>1, <3>2 DEF DatesInv
    <3>4. LiveExitPrice(p, px) \in Nat
      BY <3>2, <2>1, TickBook, LivePriceNatural
    <3> DEFINE e == ExitEvent(p, LiveExitPrice(p, px), at)
    <3>5. e.at >= e.entered
      BY <3>2, <3>3, <3>4, ExitForm
    <3>6. events' = RecordEvents({e})
      BY <3>1 DEF LiveExit
    <3> HIDE DEF e
    <3> QED
      BY <1>1, <3>5, <3>6
  <2>4. CASE UNCHANGED events
    BY <2>4 DEF ExitNotBeforeEntry, ExitEvents
  <2> QED
    BY <2>1, <2>2, <2>3, <2>4, TickBook
<1>3. CASE ReconcileSession
  <2>1. PICK cs \in [recon.targets -> CandleSets(DayOf(now))] : Reconcile(cs)
    BY <1>3 DEF ReconcileSession
  <2> DEFINE d == DayOf(now)
             es == {RecoveredExit(p, cs) : p \in Closing(cs, d)}
                     \cup {MissedEvent(o) : o \in MissedOrders(d)}
  <2>2. events' = RecordEvents(es)
    BY <2>1 DEF Reconcile
  <2>3. \A p \in Closing(cs, d) : RecoveredExit(p, cs).at >= RecoveredExit(p, cs).entered
    BY <2>1, RecoveredDated
  <2>4. \A o : MissedEvent(o).type # "exit"
    BY EventForms
  <2>5. \A e \in es : e.type = "exit" => e.at >= e.entered
    <3> HIDE DEF d
    <3> QED
      BY <2>3, <2>4
  <2> HIDE DEF es
  <2> QED
    BY <1>1, <2>2, <2>5
<1>4. ASSUME UNCHANGED events PROVE ExitNotBeforeEntry'
  BY <1>4 DEF ExitNotBeforeEntry, ExitEvents
<1> QED
  BY <1>2, <1>3, <1>4
     DEF Next, vars, stateFile, Advance, SyncLedger, ReconcileFetch, ReconcileFail, WorkerCrash,
         WorkerStart, BreakStaleLock, TraderPlace, TraderSave, TraderReport, TraderDies

-----------------------------------------------------------------------------
BookInv == TypeOK /\ MergeInv /\ DatesInv /\ LogInv /\ AgeInv /\ ExitNotBeforeEntry

LEMMA BookInit == Init => BookInv
<1> SUFFICES ASSUME Init PROVE BookInv
  OBVIOUS
<1>1. TypeOK /\ MergeInv
  BY InitTyped DEF Init, NoRun, MergeInv, OneClaimPerSymbol, StaleCopyCovers
<1>2. \A p \in open : p \in PositionType /\ p.sig = Legacy /\ p.entered = 0 /\ p.rec = None
                      /\ p.bars < MaxBars
  BY LegacyAssumption DEF Init
<1>3. Horizon \in Nat /\ now = 0
  BY ConstantsAssumption, DayTyped DEF Horizon, Init
<1>4. DatesInv
  BY <1>2, <1>3 DEF Init, NoRun, None, Legacy, DatesInv
<1>5. LogInv /\ ExitNotBeforeEntry
  BY <1>2 DEF Init, LogInv, ExitNotBeforeEntry, ExitEvents, PositionsClosable, EventIds
<1>6. AgeInv
  BY <1>2 DEF AgeInv
<1> QED
  BY <1>1, <1>4, <1>5, <1>6 DEF BookInv

LEMMA BookStep == BookInv /\ [Next]_vars => BookInv'
BY NextTyped, MergeStep, DatesStep, LogStep, AgeStep, DatedStep DEF BookInv

LEMMA BookKept == Spec => []BookInv
BY BookInit, BookStep, PTL DEF Spec

\* An open position can always be closed again, is closed in the very
\* reconciliation that fills its holding limit, and no exit, live or
\* recovered, is dated before its entry.
THEOREM Book == Spec => []BookConsistent
<1>1. BookInv => BookConsistent
  BY DEF BookInv, LogInv, AgeInv, BookConsistent, HoldingBounded
<1> QED
  BY <1>1, BookKept, PTL

\* However often a session is reconciled, a position ages by one bar for it.
THEOREM OneBar == Spec => []OneBarPerSession
<1>1. BookInv => OneBarPerSession
  <2> SUFFICES ASSUME BookInv, NEW p \in open, p.sig # Legacy
               PROVE  p.bars <= DayOf(now) - DayOf(p.entered) + 1
    BY DEF OneBarPerSession
  <2>1. p.bars \in Nat /\ p.rec \in Int /\ p.entered \in Nat /\ now \in Nat /\ p.entered <= now
    BY DEF BookInv, TypeOK, PositionType, DatesInv
  <2>2. DayOf(p.entered) \in Nat /\ DayOf(now) \in Nat /\ DayOf(p.entered) <= DayOf(now)
    BY <2>1, DayTyped, DayMonotone
  <2> QED
    BY <2>1, <2>2 DEF BookInv, AgeInv
<1> QED
  BY <1>1, BookKept, PTL

-----------------------------------------------------------------------------
(* The trade ledger                                                          *)

LEMMA LedgerStep ==
  TypeOK /\ LogInv /\ LedgerMatchesLog /\ [Next]_vars => LedgerMatchesLog'
<1> SUFFICES ASSUME TypeOK, LogInv, LedgerMatchesLog, [Next]_vars PROVE LedgerMatchesLog'
  OBVIOUS
<1>1. \A e \in ExitEvents : e.id \in ExitIds
  BY DEF LogInv
<1>2. ASSUME UNCHANGED events, ledger' = SyncedLedger PROVE LedgerMatchesLog'
  <2>1. ExitEvents' = ExitEvents
    BY <1>2 DEF ExitEvents
  <2>2. \A id \in ExitIds : /\ ledger[id] \in Nat /\ ledger[id] <= 1
                            /\ ledger'[id] = IF MissingRow(id) THEN 1 ELSE ledger[id]
    BY <1>2 DEF SyncedLedger, TypeOK, LedgerMatchesLog
  <2>3. ExitIds' = ExitIds
    BY DEF ExitIds, DayOf
  <2>4. \A id \in ExitIds : ledger'[id] <= 1
    BY <2>2
  <2>5. \A id \in ExitIds : ledger'[id] > 0 => \E e \in ExitEvents : e.id = id
    BY <2>2 DEF LedgerMatchesLog, MissingRow
  <2>6. \A e \in ExitEvents : ledger'[e.id] = 1
    BY <1>1, <2>2 DEF MissingRow
  <2> QED
    BY <2>1, <2>3, <2>4, <2>5, <2>6 DEF LedgerMatchesLog
<1>3. ASSUME UNCHANGED ledger, events \subseteq events', worker' # "up"
      PROVE  LedgerMatchesLog'
  BY <1>3 DEF LedgerMatchesLog, ExitEvents, ExitIds, DayOf
<1>4. ASSUME UNCHANGED <<ledger, events, worker>> PROVE LedgerMatchesLog'
  BY <1>4 DEF LedgerMatchesLog, ExitEvents, ExitIds, DayOf
<1>5. CASE Tick
  <2>1. PICK s \in Symbols, at \in 0..now, px \in Prices : ProcessTick(s, at, px)
    BY <1>5 DEF Tick
  <2>2. events \subseteq events'
    BY <2>1, TickBook DEF EnterOrder, RefuseOrder, LiveExit, RecordEvents
  <2> QED
    BY <1>3, <2>1, <2>2, TickBook
<1>6. CASE ReconcileSession
  BY <1>3, <1>6 DEF ReconcileSession, Reconcile, RecordEvents
<1>7. CASE SyncLedger \/ WorkerStart
  BY <1>2, <1>7 DEF SyncLedger, WorkerStart, stateFile
<1>8. CASE WorkerCrash
  BY <1>3, <1>8 DEF WorkerCrash, stateFile
<1> QED
  BY <1>4, <1>5, <1>6, <1>7, <1>8
     DEF Next, vars, stateFile, Advance, ReconcileFetch, ReconcileFail, BreakStaleLock,
         TraderPlace, TraderSave, TraderReport, TraderDies

\* The trade ledger has no row without a recorded exit and never two for one;
\* whenever the worker serves ticks it has a row for every exit, also after a
\* crash between the state file's replacement and the ledger's.
THEOREM LedgerComplete == Spec => []LedgerMatchesLog
<1>1. Init => LedgerMatchesLog
  BY DEF Init, LedgerMatchesLog, ExitEvents
<1>2. BookInv => TypeOK /\ LogInv
  BY DEF BookInv
<1> QED
  BY <1>1, <1>2, BookKept, LedgerStep, PTL DEF Spec

-----------------------------------------------------------------------------
(* Orders and positions leave with a record                                  *)

Dropped ==
  /\ \A o \in pending \ pending' : {EntryId(o), MissedId(o)} \cap EventIds' # {}
  /\ \A p \in open : (\A q \in open' : q.sym # p.sym) => ExitId(p) \in EventIds'

LEMMA RecordedLeaving == TypeOK /\ MergeInv /\ LogInv /\ [Next]_vars => Dropped
<1> SUFFICES ASSUME TypeOK, MergeInv, LogInv, [Next]_vars PROVE Dropped
  OBVIOUS
<1>1. CASE Tick
  <2>1. PICK s \in Symbols, at \in 0..now, px \in Prices : ProcessTick(s, at, px)
    BY <1>1 DEF Tick
  <2>2. CASE \E o \in pending : EnterOrder(o, at, px) \/ RefuseOrder(o, px)
    <3>1. PICK o \in pending : EnterOrder(o, at, px) \/ RefuseOrder(o, px)
      BY <2>2
    <3>2. pending \ pending' \subseteq {o} /\ open \subseteq open'
      BY <3>1 DEF EnterOrder, RefuseOrder
    <3>3. EntryId(o) \in EventIds'
      BY <3>1, RecordIds, EventForms DEF EnterOrder, RefuseOrder
    <3> QED
      BY <3>2, <3>3 DEF Dropped
  <2>3. CASE \E p \in open : LiveExit(p, at, px)
    <3>1. PICK p \in open : LiveExit(p, at, px)
      BY <2>3
    <3>2. pending' = pending /\ open' = open \ {p}
      BY <3>1 DEF LiveExit
    <3>3. ExitId(p) \in EventIds'
      <4> DEFINE e == ExitEvent(p, LiveExitPrice(p, px), at)
      <4>1. e.id = ExitId(p) /\ events' = RecordEvents({e})
        BY <3>1 DEF LiveExit, ExitEvent
      <4> HIDE DEF e
      <4> QED
        BY <4>1, RecordIds
    <3> QED
      BY <3>2, <3>3 DEF Dropped
  <2>4. CASE UNCHANGED <<pending, open>>
    BY <2>4 DEF Dropped
  <2> QED
    BY <2>1, <2>2, <2>3, <2>4, TickBook
<1>2. CASE ReconcileSession
  <2>1. PICK cs \in [recon.targets -> CandleSets(DayOf(now))] : Reconcile(cs)
    BY <1>2 DEF ReconcileSession
  <2> DEFINE d == DayOf(now)
             closing == Closing(cs, d)
             es == {RecoveredExit(p, cs) : p \in closing} \cup {MissedEvent(o) : o \in MissedOrders(d)}
  <2>2. EventIds' = EventIds \cup {e.id : e \in es}
    BY <2>1, RecordIds DEF Reconcile
  <2>3. \A o \in pending \ pending' : o \in MissedOrders(d)
    BY <2>1 DEF Reconcile
  <2>4. \A o \in MissedOrders(d) : MissedId(o) \in EventIds'
    BY <2>2, EventForms
  <2>5. \A p \in closing : ExitId(p) \in EventIds'
    BY <2>1, <2>2, ReconcileBook
  <2>6. \A p \in open \ closing : \E q \in open' : q.sym = p.sym
    <3>1. open' = {Counted(p, cs, d) : p \in open \ closing}
      BY <2>1 DEF Reconcile
    <3>2. \A p \in open : Counted(p, cs, d).sym = p.sym
      BY DEF Counted, TypeOK, PositionType
    <3> HIDE DEF closing, d
    <3> QED
      BY <3>1, <3>2
  <2> HIDE DEF closing, d
  <2> QED
    BY <2>3, <2>4, <2>5, <2>6 DEF Dropped
<1>3. CASE TraderSave
  BY <1>3 DEF TraderSave, Dropped
<1>4. ASSUME UNCHANGED <<pending, open>> PROVE Dropped
  BY <1>4 DEF Dropped
<1> QED
  BY <1>1, <1>2, <1>3, <1>4
     DEF Next, vars, stateFile, Advance, SyncLedger, ReconcileFetch, ReconcileFail, WorkerCrash,
         WorkerStart, BreakStaleLock, TraderPlace, TraderReport, TraderDies

\* An order leaves the pending list only with its entry or its miss on
\* record, a position leaves the book only with its exit.
THEOREM NoSilentDrop == Spec => NothingDropped
<1>1. BookInv /\ [Next]_vars => [Dropped]_vars
  BY RecordedLeaving DEF BookInv
<1>2. NothingDropped <=> [][Dropped]_vars
  BY DEF NothingDropped, Dropped
<1> QED
  BY <1>1, <1>2, BookKept, PTL DEF Spec

-----------------------------------------------------------------------------
(* Cash                                                                      *)

CostOf == [p \in PositionType |-> p.cost]

LEMMA CostSum ==
  ASSUME NEW S \in SUBSET PositionType, IsFiniteSet(S)
  PROVE  SumFunction([p \in S |-> p.cost]) = SumFunctionOnSet(CostOf, S)
<1> DEFINE f == [p \in S |-> p.cost]
<1>1. DOMAIN f = S /\ \A p \in S : f[p] = CostOf[p]
  BY DEF CostOf
<1>2. SumFunction(f) = SumFunctionOnSet(CostOf, S)
  <2> HIDE DEF f
  <2> QED
    BY <1>1, SumSame DEF SumFunction
<1> QED
  BY <1>2

LEMMA PnlSum ==
  ASSUME NEW U, NEW S \in SUBSET U, IsFiniteSet(S)
  PROVE  SumFunction([e \in S |-> e.pnl]) = SumFunctionOnSet([e \in U |-> e.pnl], S)
<1> DEFINE f == [e \in S |-> e.pnl]
           g == [e \in U |-> e.pnl]
<1>1. DOMAIN f = S /\ \A e \in S : f[e] = g[e]
  OBVIOUS
<1>2. SumFunction(f) = SumFunctionOnSet(g, S)
  <2> HIDE DEF f, g
  <2> QED
    BY <1>1, SumSame DEF SumFunction
<1> QED
  BY <1>2

LEMMA CostTyped ==
  /\ \A p \in PositionType : CostOf[p] = p.cost /\ p.cost \in Nat
BY DEF CostOf, PositionType

\* Recording the exits es adds their results to the realised sum.
LEMMA PnlRecorded ==
  ASSUME IsFiniteSet(events), LogInv, NEW es, IsFiniteSet(es), events' = RecordEvents(es),
         NEW X, X = {e \in es : e.type = "exit"},
         \A e \in X : e.id \notin EventIds /\ e.pnl \in Int
  PROVE  /\ IsFiniteSet(events')
         /\ SumFunction([e \in ExitEvents |-> e.pnl])' =
              SumFunction([e \in ExitEvents |-> e.pnl]) + SumFunction([e \in X |-> e.pnl])
         /\ SumFunction([e \in ExitEvents |-> e.pnl]) \in Int
<1> DEFINE U == events \cup es
           f == [e \in U |-> e.pnl]
<1>1. IsFiniteSet(events') /\ IsFiniteSet(ExitEvents) /\ IsFiniteSet(X) /\ IsFiniteSet(ExitEvents')
  <2>1. IsFiniteSet(events \cup {e \in es : e.id \notin EventIds})
    BY FS_Union, FS_Subset
  <2>2. IsFiniteSet(events')
    BY <2>1 DEF RecordEvents
  <2> QED
    BY <2>2, FS_Subset DEF ExitEvents
<1>2. ExitEvents' = ExitEvents \cup X /\ ExitEvents \cap X = {}
  BY DEF ExitEvents, RecordEvents, EventIds
<1>3. ExitEvents \subseteq U /\ X \subseteq U /\ ExitEvents' \subseteq U
  BY <1>2 DEF ExitEvents
<1>4. \A e \in ExitEvents \cup X : f[e] = e.pnl /\ f[e] \in Int
  BY <1>3 DEF LogInv, ExitEvents
<1>5. SumFunctionOnSet(f, ExitEvents') = SumFunctionOnSet(f, ExitEvents) + SumFunctionOnSet(f, X)
  <2> HIDE DEF f
  <2> QED
    BY <1>1, <1>2, <1>4, SumUnion
<1>6. SumFunctionOnSet(f, ExitEvents) \in Int
  <2> HIDE DEF f
  <2> QED
    BY <1>1, <1>4, SumTyped
<1>7. /\ SumFunction([e \in ExitEvents |-> e.pnl]) = SumFunctionOnSet(f, ExitEvents)
      /\ SumFunction([e \in X |-> e.pnl]) = SumFunctionOnSet(f, X)
      /\ SumFunction([e \in ExitEvents' |-> e.pnl]) = SumFunctionOnSet(f, ExitEvents')
  <2> HIDE DEF U
  <2> QED
    BY <1>1, <1>3, PnlSum
<1>8. SumFunction([e \in ExitEvents |-> e.pnl])' = SumFunction([e \in ExitEvents' |-> e.pnl])
  BY DEF SumFunction, SumFunctionOnSet, FoldFunctionOnSet, MapThenFoldSet
<1> HIDE DEF f
<1> QED
  BY <1>1, <1>5, <1>6, <1>7, <1>8

LEMMA PaidIs ==
  ASSUME TypeOK
  PROVE  Paid = SumFunctionOnSet(CostOf, open) /\ Paid \in Int
<1>1. IsFiniteSet(open) /\ open \subseteq PositionType
  BY DEF TypeOK
<1>2. Paid = SumFunctionOnSet(CostOf, open)
  BY <1>1, CostSum DEF Paid
<1>3. \A p \in open : CostOf[p] \in Int
  BY <1>1, CostTyped
<1> QED
  BY <1>1, <1>2, <1>3, SumTyped

LEMMA CashTick ==
  ASSUME TypeOK, TypeOK', LogInv, OneClaimPerSymbol, CashInv,
         NEW s \in Symbols, NEW at \in 0..now, NEW px \in Prices, ProcessTick(s, at, px)
  PROVE  CashInv'
<1> DEFINE Pnl == SumFunction([e \in ExitEvents |-> e.pnl])
<1>1. /\ cash + Paid = StartCash + Pnl /\ cash \in Int /\ cash >= 0
      /\ IsFiniteSet(events) /\ StartCash \in Nat
      /\ IsFiniteSet(open) /\ open \subseteq PositionType /\ open' \subseteq PositionType
      /\ px \in Nat /\ at \in Nat
  BY ConstantsAssumption, TickBook DEF CashInv, CashConserved, TypeOK
<1>2. /\ Paid = SumFunctionOnSet(CostOf, open) /\ Paid \in Int
      /\ Paid' = SumFunctionOnSet(CostOf, open')
  <2>1. IsFiniteSet(open')
    BY DEF TypeOK
  <2>2. Paid' = SumFunction([p \in open' |-> p.cost])
    BY DEF Paid, SumFunction, SumFunctionOnSet, FoldFunctionOnSet, MapThenFoldSet
  <2> QED
    BY <1>1, <2>1, <2>2, PaidIs, CostSum
<1>3. \A p \in open \cup open' : CostOf[p] = p.cost /\ CostOf[p] \in Int
  BY <1>1, CostTyped
<1>4. ASSUME NEW es, IsFiniteSet(es), events' = RecordEvents(es), \A e \in es : e.type # "exit"
      PROVE  IsFiniteSet(events') /\ Pnl' = Pnl /\ Pnl \in Int
  <2> DEFINE X == {e \in es : e.type = "exit"}
  <2>1. X = {} /\ \A e \in X : e.id \notin EventIds /\ e.pnl \in Int
    BY <1>4
  <2>2. ExitEvents' = ExitEvents
    BY <1>4 DEF RecordEvents, ExitEvents
  <2>3. IsFiniteSet(events') /\ Pnl \in Int
    BY <1>1, <1>4, <2>1, PnlRecorded
  <2> QED
    BY <2>2, <2>3 DEF SumFunction, SumFunctionOnSet, FoldFunctionOnSet, MapThenFoldSet
<1>5. CASE \E o \in pending : EnterOrder(o, at, px)
  <2>1. PICK o \in pending : EnterOrder(o, at, px)
    BY <1>5
  <2> DEFINE q == PositionOf(o, at, px)
             es == {EntryEvent(o)}
  <2>2. /\ open' = open \cup {q} /\ q.sym = o.sym /\ events' = RecordEvents(es)
        /\ cash' = cash - q.cost /\ q.cost <= cash
    BY <2>1 DEF EnterOrder, PositionOf
  <2>3. q \notin open
    <3>1. \A p \in open : p.sym # o.sym
      BY DEF OneClaimPerSymbol
    <3> HIDE DEF q
    <3> QED
      BY <2>2, <3>1
  <2>4. IsFiniteSet(es) /\ \A e \in es : e.type # "exit"
    BY FS_Singleton, EventForms
  <2> HIDE DEF q, es
  <2>5. q.cost \in Nat /\ CostOf[q] = q.cost
    BY <1>1, <2>2, CostTyped
  <2>6. Paid' = q.cost + Paid
    BY <1>1, <1>2, <1>3, <2>2, <2>3, <2>5, SumAdd
  <2>7. IsFiniteSet(events') /\ Pnl' = Pnl /\ Pnl \in Int
    BY <1>4, <2>2, <2>4
  <2> HIDE DEF Pnl
  <2>8. cash' + Paid' = StartCash + Pnl' /\ cash' \in Int /\ cash' >= 0
    BY <1>1, <1>2, <2>2, <2>5, <2>6, <2>7
  <2> QED
    BY <2>7, <2>8 DEF CashInv, CashConserved, Pnl
<1>6. CASE \E o \in pending : RefuseOrder(o, px)
  <2>1. PICK o \in pending : RefuseOrder(o, px)
    BY <1>6
  <2> DEFINE es == {RefusedEvent(o)}
  <2>2. events' = RecordEvents(es) /\ UNCHANGED <<cash, open>>
    BY <2>1 DEF RefuseOrder
  <2>3. IsFiniteSet(es) /\ \A e \in es : e.type # "exit"
    BY FS_Singleton, EventForms
  <2> HIDE DEF es
  <2>4. IsFiniteSet(events') /\ Pnl' = Pnl
    BY <1>4, <2>2, <2>3
  <2>5. Paid' = Paid
    BY <1>2, <2>2
  <2> QED
    BY <1>1, <2>2, <2>4, <2>5 DEF CashInv, CashConserved
<1>7. CASE \E p \in open : LiveExit(p, at, px)
  <2>1. PICK p \in open : LiveExit(p, at, px)
    BY <1>7
  <2> DEFINE c == LiveExitPrice(p, px)
             e == ExitEvent(p, c, at)
             es == {e}
  <2>2. /\ events' = RecordEvents(es) /\ open' = open \ {p}
        /\ cash' = cash + Proceeds(p, c) /\ ExitId(p) \notin EventIds
    BY <2>1 DEF LiveExit, ExitDue
  <2>3. p \in PositionType /\ c \in Nat
    BY <1>1, LivePriceNatural
  <2>4. /\ e.type = "exit" /\ e.id = ExitId(p) /\ e.pnl = Proceeds(p, c) - p.cost /\ e.pnl \in Int
        /\ Proceeds(p, c) \in Nat /\ p.cost \in Nat
    BY <2>3, ExitForm, ProceedsNatural, CostTyped
  <2>5. SumFunction([x \in {e} |-> x.pnl]) = e.pnl
    <3> DEFINE g == [x \in {e} |-> x.pnl]
    <3>1. DOMAIN g = {e} /\ g[e] = e.pnl
      OBVIOUS
    <3> HIDE DEF e
    <3>2. SumFunctionOnSet(g, {e}) = g[e]
      <4> HIDE DEF g
      <4> QED
        BY <2>4, <3>1, SumOne
    <3> QED
      BY <3>1, <3>2 DEF SumFunction
  <2> HIDE DEF e, c
  <2>6. {x \in es : x.type = "exit"} = {e} /\ IsFiniteSet(es)
    BY <2>4, FS_Singleton
  <2>7. /\ IsFiniteSet(events') /\ Pnl' = Pnl + e.pnl /\ Pnl \in Int
    <3>1. \A x \in {e} : x.id \notin EventIds /\ x.pnl \in Int
      BY <2>2, <2>4
    <3> HIDE DEF es
    <3> QED
      BY <1>1, <2>2, <2>5, <2>6, <3>1, PnlRecorded
  <2>8. Paid = p.cost + Paid'
    BY <1>1, <1>2, <1>3, <2>2, SumRemove
  <2>9. Paid' \in Int
    BY <1>1, <1>2, <1>3, <2>2, FS_RemoveElement, SumTyped
  <2> HIDE DEF Pnl
  <2>10. cash' + Paid' = StartCash + Pnl' /\ cash' \in Int /\ cash' >= 0
    BY <1>1, <1>2, <2>2, <2>4, <2>7, <2>8, <2>9
  <2> QED
    BY <2>7, <2>10 DEF CashInv, CashConserved, Pnl
<1>8. CASE UNCHANGED <<cash, open, events>>
  <2>1. Paid' = Paid /\ Pnl' = Pnl
    BY <1>8 DEF Paid, ExitEvents, SumFunction, SumFunctionOnSet, FoldFunctionOnSet, MapThenFoldSet
  <2> QED
    BY <1>8, <2>1 DEF CashInv, CashConserved
<1> QED
  BY <1>5, <1>6, <1>7, <1>8, TickBook

\* A reconciliation pays out what its exits are worth: each result with the
\* cost that leaves the book.
LEMMA CashReconcile ==
  ASSUME TypeOK, TypeOK', LogInv, OneClaimPerSymbol, CashInv,
         NEW cs \in [recon.targets -> CandleSets(DayOf(now))], Reconcile(cs)
  PROVE  CashInv'
<1> DEFINE d == DayOf(now)
           closing == Closing(cs, d)
           kept == open \ closing
           Pnl == SumFunction([e \in ExitEvents |-> e.pnl])
           exits == {RecoveredExit(p, cs) : p \in closing}
           es == exits \cup {MissedEvent(o) : o \in MissedOrders(d)}
           pnlOf == [p \in closing |-> RecoveredExit(p, cs).pnl]
           value == [p \in closing |-> RecoveredExit(p, cs).pnl + p.cost]
<1>1. /\ cash + Paid = StartCash + Pnl /\ cash \in Int /\ cash >= 0
      /\ IsFiniteSet(events) /\ StartCash \in Nat
      /\ IsFiniteSet(open) /\ open \subseteq PositionType /\ d \in Int
  BY ConstantsAssumption, DayTyped DEF CashInv, CashConserved, TypeOK
<1>2. /\ open' = {Counted(p, cs, d) : p \in kept}
      /\ events' = RecordEvents(es) /\ cash' = cash + SumFunction(value)
  BY DEF Reconcile
<1>3. /\ closing \subseteq open
      /\ \A p \in closing : /\ RecoveredExit(p, cs).type = "exit"
                            /\ RecoveredExit(p, cs).id = ExitId(p)
                            /\ ExitId(p) \notin EventIds
                            /\ RecoveredExit(p, cs).pnl \in Int
                            /\ RecoveredExit(p, cs).pnl + p.cost \in Nat
  BY ReconcileBook
<1>4. /\ IsFiniteSet(closing) /\ IsFiniteSet(kept) /\ kept \cup closing = open
      /\ kept \cap closing = {} /\ kept \subseteq PositionType
  <2> HIDE DEF closing
  <2> QED
    BY <1>1, <1>3, FS_Subset
<1>5. \A p \in open : CostOf[p] = p.cost /\ CostOf[p] \in Int
  BY <1>1, CostTyped
\* The realised sum grows by the results of the exits.
<1>6. IsFiniteSet(es) /\ exits = {e \in es : e.type = "exit"}
  <2>1. IsFiniteSet(exits)
    <3> DEFINE g == [p \in closing |-> RecoveredExit(p, cs)]
    <3>1. g \in [closing -> exits] /\ \A e \in exits : \E p \in closing : g[p] = e
      OBVIOUS
    <3> HIDE DEF g, exits, closing
    <3> QED
      BY <1>4, <3>1, ImageFinite
  <2>2. IsFiniteSet({MissedEvent(o) : o \in MissedOrders(d)})
    <3> DEFINE M == MissedOrders(d)
               T == {MissedEvent(o) : o \in M}
               g == [o \in M |-> MissedEvent(o)]
    <3>1. IsFiniteSet(M)
      BY FS_Subset DEF MissedOrders, TypeOK
    <3>2. g \in [M -> T] /\ \A e \in T : \E o \in M : g[o] = e
      OBVIOUS
    <3>3. IsFiniteSet(T)
      <4> HIDE DEF M, T, g
      <4> QED
        BY <3>1, <3>2, ImageFinite
    <3> QED
      BY <3>3
  <2>3. exits = {e \in es : e.type = "exit"}
    <3>1. \A o : MissedEvent(o).type # "exit"
      BY EventForms
    <3> HIDE DEF closing, d
    <3> QED
      BY <1>3, <3>1
  <2> HIDE DEF exits
  <2> QED
    BY <2>1, <2>2, <2>3, FS_Union
<1>7. /\ IsFiniteSet(events') /\ Pnl' = Pnl + SumFunction([e \in exits |-> e.pnl])
      /\ Pnl \in Int
  <2>1. \A e \in exits : e.id \notin EventIds /\ e.pnl \in Int
    <3> HIDE DEF closing
    <3> QED
      BY <1>3
  <2> HIDE DEF es, exits
  <2> QED
    BY <1>1, <1>2, <1>6, <2>1, PnlRecorded
<1>8. SumFunction([e \in exits |-> e.pnl]) = SumFunctionOnSet(pnlOf, closing)
  <2> DEFINE f == [e \in exits |-> e.pnl]
             g == [p \in closing |-> RecoveredExit(p, cs)]
  <2>1. exits = {g[p] : p \in closing} /\ DOMAIN f = exits
    OBVIOUS
  <2>2. \A p \in closing : pnlOf[p] = f[g[p]] /\ pnlOf[p] \in Int
    <3> HIDE DEF closing
    <3> QED
      BY <1>3
  <2>3. \A p, q \in closing : g[p] = g[q] => p = q
    <3> SUFFICES ASSUME NEW p \in closing, NEW q \in closing, g[p] = g[q] PROVE p = q
      OBVIOUS
    <3>1. ExitId(p) = ExitId(q)
      <4> HIDE DEF closing
      <4> QED
        BY <1>3
    <3>2. p.sym = q.sym /\ p \in open /\ q \in open
      BY <1>3, <3>1 DEF ExitId
    <3> QED
      BY <3>2 DEF OneClaimPerSymbol
  <2>4. SumFunctionOnSet(f, {g[p] : p \in closing}) = SumFunctionOnSet(pnlOf, closing)
    <3> HIDE DEF f, g, pnlOf, closing
    <3> QED
      BY <1>4, <2>2, <2>3, SumImage
  <2>5. SumFunction(f) = SumFunctionOnSet(f, exits)
    <3> HIDE DEF f
    <3> QED
      BY <2>1 DEF SumFunction
  <2>6. SumFunctionOnSet(f, exits) = SumFunctionOnSet(f, {g[p] : p \in closing})
    <3> HIDE DEF f
    <3> QED
      BY <2>1
  <2> QED
    BY <2>4, <2>5, <2>6
\* Cash grows by the results and the costs.
<1>9. /\ SumFunction(value) = SumFunctionOnSet(pnlOf, closing) + SumFunctionOnSet(CostOf, closing)
      /\ SumFunction(value) \in Nat
      /\ SumFunctionOnSet(pnlOf, closing) \in Int /\ SumFunctionOnSet(CostOf, closing) \in Int
  <2>1. DOMAIN value = closing
    OBVIOUS
  <2>2. \A p \in closing : /\ pnlOf[p] \in Int /\ CostOf[p] \in Int /\ value[p] \in Nat
                           /\ value[p] = pnlOf[p] + CostOf[p]
    <3> HIDE DEF closing
    <3> QED
      BY <1>3, <1>5
  <2>3. SumFunction(value) = SumFunctionOnSet(value, closing)
    <3> HIDE DEF value
    <3> QED
      BY <2>1 DEF SumFunction
  <2> HIDE DEF closing, value, pnlOf
  <2> QED
    BY <1>4, <2>2, <2>3, SumPlus, SumNatural, SumTyped
\* The book loses the costs of what it closed.
<1>10. /\ Paid = SumFunctionOnSet(CostOf, kept) + SumFunctionOnSet(CostOf, closing)
       /\ SumFunctionOnSet(CostOf, kept) \in Int
  <2>1. Paid = SumFunctionOnSet(CostOf, kept \cup closing)
    <3> HIDE DEF kept, closing
    <3> QED
      BY <1>4, PaidIs
  <2>2. \A p \in kept \cup closing : CostOf[p] \in Int
    BY <1>4, <1>5
  <2> HIDE DEF kept, closing
  <2> QED
    BY <1>4, <2>1, <2>2, SumUnion, SumTyped
<1>11. Paid' = SumFunctionOnSet(CostOf, kept)
  <2> DEFINE g == [p \in kept |-> Counted(p, cs, d)]
             h == [p \in kept |-> CostOf[p]]
  <2>1. open' = {g[p] : p \in kept}
    BY <1>2
  <2>2. \A p \in kept : g[p].sym = p.sym /\ h[p] = CostOf[g[p]] /\ h[p] \in Int
    <3> SUFFICES ASSUME NEW p \in kept
                 PROVE  g[p].sym = p.sym /\ h[p] = CostOf[g[p]] /\ h[p] \in Int
      OBVIOUS
    <3>1. p \in PositionType /\ p \in open
      BY <1>1
    <3>2. g[p] = Counted(p, cs, d)
      OBVIOUS
    <3> HIDE DEF d, g
    <3>3. g[p] \in PositionType /\ g[p].sym = p.sym /\ g[p].cost = p.cost
      BY <1>1, <3>1, <3>2, CountedTyped, CountedForm
    <3> QED
      BY <1>5, <3>1, <3>3, CostTyped
  <2>3. \A p, q \in kept : g[p] = g[q] => p = q
    <3> HIDE DEF g
    <3> QED
      BY <2>2 DEF OneClaimPerSymbol
  <2>4. SumFunctionOnSet(CostOf, open') = SumFunctionOnSet(h, kept)
    <3>1. \A p \in kept : h[p] = CostOf[g[p]] /\ h[p] \in Int
      BY <2>2
    <3>2. SumFunctionOnSet(CostOf, {g[p] : p \in kept}) = SumFunctionOnSet(h, kept)
      <4> HIDE DEF g, h, kept
      <4> QED
        BY <1>4, <2>3, <3>1, SumImage
    <3> HIDE DEF g
    <3> QED
      BY <2>1, <3>2
  <2>5. SumFunctionOnSet(h, kept) = SumFunctionOnSet(CostOf, kept)
    <3>1. \A p \in kept : h[p] = CostOf[p]
      OBVIOUS
    <3> HIDE DEF h, kept
    <3> QED
      BY <1>4, <3>1, SumSame
  <2>6. Paid' = SumFunctionOnSet(CostOf, open')
    <3>1. IsFiniteSet(open') /\ open' \subseteq PositionType
      BY DEF TypeOK
    <3>2. Paid' = SumFunction([p \in open' |-> p.cost])
      BY DEF Paid, SumFunction, SumFunctionOnSet, FoldFunctionOnSet, MapThenFoldSet
    <3> QED
      BY <3>1, <3>2, CostSum
  <2> QED
    BY <2>4, <2>5, <2>6
<1> HIDE DEF Pnl, pnlOf, value, kept, closing, exits
<1>12. cash' + Paid' = StartCash + Pnl' /\ cash' \in Int /\ cash' >= 0
  BY <1>1, <1>2, <1>7, <1>8, <1>9, <1>10, <1>11
<1> QED
  BY <1>7, <1>12 DEF CashInv, CashConserved, Pnl

LEMMA CashStep == BookInv /\ CashInv /\ [Next]_vars => CashInv'
<1> SUFFICES ASSUME BookInv, CashInv, [Next]_vars PROVE CashInv'
  OBVIOUS
<1>1. TypeOK /\ TypeOK' /\ LogInv /\ OneClaimPerSymbol
  BY NextTyped DEF BookInv, MergeInv
<1>2. CASE Tick
  BY <1>1, <1>2, CashTick DEF Tick
<1>3. CASE ReconcileSession
  BY <1>1, <1>3, CashReconcile DEF ReconcileSession
<1>4. ASSUME UNCHANGED <<cash, open, events>> PROVE CashInv'
  <2>1. ExitEvents' = ExitEvents
    BY <1>4 DEF ExitEvents
  <2>2. CashConserved' = CashConserved
    BY <1>4, <2>1 DEF CashConserved, Paid, SumFunction, SumFunctionOnSet, FoldFunctionOnSet, MapThenFoldSet
  <2> QED
    BY <1>4, <2>2 DEF CashInv
<1> QED
  BY <1>2, <1>3, <1>4
     DEF Next, vars, stateFile, Advance, SyncLedger, ReconcileFetch, ReconcileFail, WorkerCrash,
         WorkerStart, BreakStaleLock, TraderPlace, TraderSave, TraderReport, TraderDies

LEMMA CashInit == Init => CashInv
<1> SUFFICES ASSUME Init PROVE CashInv
  OBVIOUS
<1>1. events = {} /\ cash = StartCash - Paid /\ StartCash \in Nat
  BY ConstantsAssumption DEF Init
<1>2. Paid \in Nat /\ Paid <= StartCash
  <2>1. Paid = SumFunctionOnSet(CostOf, open)
    BY InitTyped, PaidIs
  <2>2. CASE open = {}
    BY <1>1, <2>1, <2>2, SumEmpty
  <2>3. CASE \E p \in LegacyPositions : open = {p}
    <3>1. PICK p \in LegacyPositions : open = {p}
      BY <2>3
    <3>2. p \in PositionType /\ p.cost <= StartCash
      BY LegacyAssumption
    <3>3. CostOf[p] = p.cost /\ p.cost \in Nat
      BY <3>2, CostTyped
    <3>4. SumFunctionOnSet(CostOf, {p}) = CostOf[p]
      BY <3>3, SumOne
    <3> QED
      BY <1>1, <2>1, <3>1, <3>2, <3>3, <3>4
  <2> QED
    BY <2>2, <2>3 DEF Init
<1>3. SumFunction([e \in ExitEvents |-> e.pnl]) = 0
  <2> DEFINE f == [e \in ExitEvents |-> e.pnl]
  <2>1. DOMAIN f = {}
    BY <1>1 DEF ExitEvents
  <2>2. SumFunction(f) = 0
    <3> HIDE DEF f
    <3> QED
      BY <2>1, SumEmpty DEF SumFunction
  <2> QED
    BY <2>2
<1>4. IsFiniteSet(events)
  BY <1>1, FS_EmptySet
<1> QED
  BY <1>1, <1>2, <1>3, <1>4 DEF CashInv, CashConserved

\* Cash and the cost of the open positions always add up to the starting
\* equity and the realised results, and the account is never overdrawn.
THEOREM Cash == Spec => []CashConserved
<1>1. CashInv => CashConserved
  BY DEF CashInv
<1> QED
  BY <1>1, CashInit, CashStep, BookKept, PTL DEF Spec

-----------------------------------------------------------------------------
(* The engine implements OrderLifecycle                                      *)

SameOrder(a, b) == a.sym = b.sym /\ a.sig = b.sig

LEMMA IdsApart ==
  /\ \A a, b : EntryId(a) = EntryId(b) <=> SameOrder(a, b)
  /\ \A a, b : MissedId(a) = MissedId(b) <=> SameOrder(a, b)
  /\ \A a, b : ExitId(a) = ExitId(b) <=> SameOrder(a, b)
  /\ \A a, b : /\ EntryId(a) # ExitId(b) /\ MissedId(a) # ExitId(b)
               /\ EntryId(a) # MissedId(b)
  /\ \A a : EntryId(a)[3] = a.sig /\ MissedId(a)[3] = a.sig /\ ExitId(a)[3] = a.sig
BY DEF EntryId, MissedId, ExitId, SameOrder

\* What the worker's steps have in common: orders become positions or leave
\* with a record, positions leave with their exit, nothing else is recorded.
WorkerMove ==
  /\ pending' \subseteq pending /\ UNCHANGED <<tr, lastReport>>
  /\ EventIds \subseteq EventIds'
  /\ \A q \in open' : (\E p \in open : SameOrder(q, p))
                      \/ (\E o \in pending \ pending' : SameOrder(q, o))
  /\ \A p \in open : (\E q \in open' : SameOrder(q, p)) \/ ExitId(p) \in EventIds'
  /\ \A o \in pending \ pending' : {EntryId(o), MissedId(o)} \cap EventIds' # {}
  /\ \A id \in EventIds' \ EventIds :
       (\E p \in open : id = ExitId(p))
       \/ (\E o \in pending \ pending' : id \in {EntryId(o), MissedId(o)})

LEMMA WorkerSteps ==
  ASSUME TypeOK, Tick \/ ReconcileSession
  PROVE  WorkerMove
<1>1. CASE Tick
  <2>1. PICK s \in Symbols, at \in 0..now, px \in Prices : ProcessTick(s, at, px)
    BY <1>1 DEF Tick
  <2>2. UNCHANGED <<tr, lastReport>>
    BY <2>1, TickBook
  <2>3. ASSUME NEW o \in pending, NEW e, e.id = EntryId(o), events' = RecordEvents({e}),
               pending' = pending \ {o}, open' = open \/ \E q : open' = open \cup {q} /\ SameOrder(q, o)
        PROVE  WorkerMove
    <3>1. EventIds' = EventIds \cup {EntryId(o)}
      BY <2>3, RecordIds
    <3> QED
      BY <2>2, <2>3, <3>1 DEF WorkerMove, SameOrder
  <2>4. CASE \E o \in pending : EnterOrder(o, at, px)
    <3>1. PICK o \in pending : EnterOrder(o, at, px)
      BY <2>4
    <3>2. SameOrder(PositionOf(o, at, px), o)
      BY DEF PositionOf, SameOrder
    <3> QED
      BY <2>3, <3>1, <3>2, EventForms DEF EnterOrder
  <2>5. CASE \E o \in pending : RefuseOrder(o, px)
    BY <2>3, <2>5, EventForms DEF RefuseOrder
  <2>6. CASE \E p \in open : LiveExit(p, at, px)
    <3>1. PICK p \in open : LiveExit(p, at, px)
      BY <2>6
    <3> DEFINE e == ExitEvent(p, LiveExitPrice(p, px), at)
    <3>2. e.id = ExitId(p) /\ events' = RecordEvents({e})
      BY <3>1 DEF LiveExit, ExitEvent
    <3> HIDE DEF e
    <3>3. EventIds' = EventIds \cup {ExitId(p)}
      BY <3>2, RecordIds
    <3>4. pending' = pending /\ open' = open \ {p}
      BY <3>1 DEF LiveExit
    <3> QED
      BY <2>2, <3>3, <3>4 DEF WorkerMove, SameOrder
  <2>7. CASE UNCHANGED <<pending, open, events>>
    BY <2>2, <2>7 DEF WorkerMove, SameOrder, EventIds
  <2> QED
    BY <2>1, <2>4, <2>5, <2>6, <2>7, TickBook
<1>2. CASE ReconcileSession
  <2>1. PICK cs \in [recon.targets -> CandleSets(DayOf(now))] : Reconcile(cs)
    BY <1>2 DEF ReconcileSession
  <2> DEFINE d == DayOf(now)
             closing == Closing(cs, d)
             es == {RecoveredExit(p, cs) : p \in closing} \cup {MissedEvent(o) : o \in MissedOrders(d)}
  <2>2. EventIds' = EventIds \cup {e.id : e \in es}
    BY <2>1, RecordIds DEF Reconcile
  <2>3. pending' = pending \ MissedOrders(d) /\ MissedOrders(d) \subseteq pending
        /\ UNCHANGED <<tr, lastReport>>
    BY <2>1 DEF Reconcile, MissedOrders
  <2>4. \A p \in closing : p \in open /\ RecoveredExit(p, cs).id = ExitId(p)
    BY <2>1, ReconcileBook
  <2>5. EventIds' = EventIds \cup {ExitId(p) : p \in closing}
                             \cup {MissedId(o) : o \in MissedOrders(d)}
    <3>1. \A o : MissedEvent(o).id = MissedId(o)
      BY EventForms
    <3> HIDE DEF closing, d
    <3> QED
      BY <2>2, <2>4, <3>1
  <2>6. \A q \in open' : \E p \in open : SameOrder(q, p)
    BY <2>1, ReconcileBook DEF SameOrder
  <2>7. \A p \in open \ closing : \E q \in open' : SameOrder(q, p)
    <3>1. open' = {Counted(p, cs, d) : p \in open \ closing}
      BY <2>1 DEF Reconcile
    <3>2. \A p \in open : SameOrder(Counted(p, cs, d), p)
      BY DEF Counted, TypeOK, PositionType, SameOrder
    <3> HIDE DEF closing, d
    <3> QED
      BY <3>1, <3>2
  <2> HIDE DEF closing, d
  <2> QED
    BY <2>3, <2>4, <2>5, <2>6, <2>7 DEF WorkerMove
<1> QED
  BY <1>1, <1>2

LEMMA FreshStep ==
  ASSUME ~ReportCrash, TypeOK, MergeInv, FreshInv, [Next]_vars
  PROVE  FreshInv'
<1>1. lastReport \in Int /\ NextRunDate \in Int
  BY DEF TypeOK, NextRunDate
<1>2. ASSUME WorkerMove PROVE FreshInv'
  <2>1. \A g : OnRecord(g)' <=> OnRecord(g)
    BY <1>2 DEF WorkerMove, OnRecord, NextRunDate
  <2>2. \A o \in pending' : {EntryId(o), MissedId(o), ExitId(o)} \cap EventIds' = {}
    <3> SUFFICES ASSUME NEW o \in pending', NEW id \in {EntryId(o), MissedId(o), ExitId(o)},
                        id \in EventIds'
                 PROVE  FALSE
      OBVIOUS
    <3>1. o \in pending /\ id \notin EventIds
      BY <1>2 DEF WorkerMove, FreshInv
    <3>2. (\E p \in open : SameOrder(o, p)) \/ (\E b \in pending \ pending' : SameOrder(o, b))
      <4>1. CASE \E p \in open : id = ExitId(p)
        BY <4>1, IdsApart
      <4>2. CASE \E b \in pending \ pending' : id \in {EntryId(b), MissedId(b)}
        <5>1. PICK b \in pending \ pending' : id \in {EntryId(b), MissedId(b)}
          BY <4>2
        <5>2. CASE id = EntryId(b)
          <6>1. id = EntryId(o)
            BY <5>2, IdsApart
          <6> QED
            BY <5>2, <6>1, IdsApart
        <5>3. CASE id = MissedId(b)
          <6>1. id = MissedId(o)
            BY <5>3, IdsApart
          <6> QED
            BY <5>3, <6>1, IdsApart
        <5> QED
          BY <5>1, <5>2, <5>3
      <4> QED
        BY <1>2, <3>1, <4>1, <4>2 DEF WorkerMove
    <3> QED
      BY <3>1, <3>2 DEF SameOrder, MergeInv, OneClaimPerSymbol
  <2>3. \A p \in open' : OnRecord(p.sig)'
    BY <1>2, <2>1 DEF WorkerMove, FreshInv, SameOrder
  <2>4. \A id \in EventIds' : OnRecord(id[3])'
    <3> SUFFICES ASSUME NEW id \in EventIds' PROVE OnRecord(id[3])
      BY <2>1
    <3>1. CASE id \in EventIds
      BY <3>1 DEF FreshInv
    <3>2. CASE \E p \in open : id = ExitId(p)
      <4>1. PICK p \in open : id = ExitId(p)
        BY <3>2
      <4>2. id[3] = p.sig
        BY <4>1, IdsApart
      <4> QED
        BY <4>1, <4>2 DEF FreshInv
    <3>3. CASE \E o \in pending : id \in {EntryId(o), MissedId(o)}
      <4>1. PICK o \in pending : id \in {EntryId(o), MissedId(o)}
        BY <3>3
      <4>2. EntryId(o)[3] = o.sig /\ MissedId(o)[3] = o.sig
        BY IdsApart
      <4>3. id[3] = o.sig
        BY <4>1, <4>2
      <4> QED
        BY <4>1, <4>3 DEF FreshInv
    <3> QED
      BY <1>2, <3>1, <3>2, <3>3 DEF WorkerMove
  <2>5. \A o \in pending' : OnRecord(o.sig)'
    BY <1>2, <2>1 DEF WorkerMove, FreshInv
  <2>6. tr'.pc = "placed" => \A n \in NewOrders' : n.sig = NextRunDate'
    BY <1>2 DEF WorkerMove, FreshInv, NewOrders, NextRunDate
  <2> QED
    BY <2>2, <2>3, <2>4, <2>5, <2>6 DEF FreshInv
<1>3. CASE TraderSave
  <2>1. /\ pending' = pending \cup NewOrders /\ UNCHANGED <<open, events, lastReport>>
        /\ tr.pc = "placed" /\ tr'.pc = "saved"
    BY <1>3 DEF TraderSave, NoRun
  <2>2. /\ EventIds' = EventIds /\ NextRunDate' = NextRunDate
        /\ \A g : (OnRecord(g) => g < NextRunDate) /\ (OnRecord(g) => OnRecord(g)')
        /\ OnRecord(NextRunDate)'
    BY <2>1 DEF EventIds, NextRunDate, OnRecord
  <2>3. \A n \in NewOrders : n.sig = NextRunDate
    BY <2>1 DEF FreshInv
  <2>4. \A n \in NewOrders : {EntryId(n), MissedId(n), ExitId(n)} \cap EventIds = {}
    <3>1. \A id \in EventIds : id[3] < NextRunDate
      BY <2>2 DEF FreshInv
    <3>2. ~(NextRunDate < NextRunDate)
      BY <1>1
    <3>3. ASSUME NEW n \in NewOrders
          PROVE  /\ EntryId(n)[3] = NextRunDate /\ MissedId(n)[3] = NextRunDate
                 /\ ExitId(n)[3] = NextRunDate
      BY <2>3, IdsApart
    <3> QED
      BY <3>1, <3>2, <3>3
  <2> QED
    BY <2>1, <2>2, <2>3, <2>4 DEF FreshInv
<1>4. CASE \E S \in SUBSET Symbols : TraderPlace(S)
  <2>1. PICK S \in SUBSET Symbols : TraderPlace(S)
    BY <1>4
  <2>2. /\ tr.pc = "idle" /\ tr'.pc = "placed" /\ UNCHANGED <<pending, open, events, lastReport>>
        /\ \A n \in NewOrders' : n.sig = NextRunDate
    BY <2>1 DEF TraderPlace, stateFile, NewOrders
  <2>3. EventIds' = EventIds /\ NextRunDate' = NextRunDate /\ \A g : OnRecord(g)' <=> OnRecord(g)
    BY <2>2 DEF EventIds, NextRunDate, OnRecord
  <2> QED
    BY <2>2, <2>3 DEF FreshInv
<1>5. CASE TraderReport
  <2>1. /\ tr.pc = "saved" /\ tr'.pc = "idle" /\ lastReport' = NextRunDate
        /\ UNCHANGED <<pending, open, events>>
    BY <1>5 DEF TraderReport, stateFile, NoRun
  <2>2. NextRunDate' = NextRunDate + 1 /\ EventIds' = EventIds
    BY <2>1 DEF NextRunDate, EventIds
  <2>3. \A g \in Int : OnRecord(g) => OnRecord(g)'
    BY <1>1, <2>1, <2>2 DEF OnRecord
  <2>4. /\ \A o \in pending : o.sig \in Int
        /\ \A p \in open : p.sig \in Int
        /\ \A id \in EventIds : id[3] \in Int
    BY DEF TypeOK, OrderType, PositionType, EventIds, EventIdType, Legacy
  <2> QED
    BY <2>1, <2>2, <2>3, <2>4 DEF FreshInv
<1>6. CASE TraderDies
  <2>1. /\ tr.pc = "placed" /\ tr'.pc = "idle" /\ UNCHANGED <<pending, open, events, lastReport>>
    BY <1>6 DEF TraderDies, stateFile, NoRun
  <2>2. EventIds' = EventIds /\ \A g : OnRecord(g)' <=> OnRecord(g)
    BY <2>1 DEF EventIds, NextRunDate, OnRecord
  <2> QED
    BY <2>1, <2>2 DEF FreshInv
<1>7. ASSUME UNCHANGED <<pending, open, events, tr, lastReport>> PROVE FreshInv'
  <2>1. /\ EventIds' = EventIds /\ NextRunDate' = NextRunDate /\ NewOrders' = NewOrders
        /\ \A g : OnRecord(g)' <=> OnRecord(g)
    BY <1>7 DEF EventIds, NextRunDate, OnRecord, NewOrders
  <2> QED
    BY <1>7, <2>1 DEF FreshInv
<1>8. CASE Tick \/ ReconcileSession
  BY <1>2, <1>8, WorkerSteps
<1> QED
  BY <1>3, <1>4, <1>5, <1>6, <1>7, <1>8
     DEF Next, vars, stateFile, Advance, SyncLedger, ReconcileFetch, ReconcileFail, WorkerCrash,
         WorkerStart, BreakStaleLock

OrderKeys == Symbols \X Dates
RowOf(o) == [sym |-> o[1], sig |-> o[2]]

\* The status of an order, read off the book and the log.
LEMMA StatusIs ==
  ASSUME TypeOK, NEW o \in OrderKeys, NEW r, r = RowOf(o)
  PROVE  /\ \A p \in open : SameOrder(p, r) => OrderStatus(o) = "open"
         /\ (\A p \in open : ~SameOrder(p, r)) =>
              /\ r \in pending => OrderStatus(o) = "pending"
              /\ r \notin pending =>
                   /\ ExitId(r) \in EventIds => OrderStatus(o) = "closed"
                   /\ ExitId(r) \notin EventIds =>
                        OrderStatus(o) = IF {EntryId(r), MissedId(r)} \cap EventIds # {}
                                         THEN "missed" ELSE "none"
BY DEF OrderStatus, RowOf, SameOrder

LEMMA OrderIsRow ==
  ASSUME TypeOK, NEW r, NEW b \in pending, SameOrder(b, r),
         NEW o \in OrderKeys, r = RowOf(o)
  PROVE  r \in pending
<1>1. b \in OrderType /\ b.sym = r.sym /\ b.sig = r.sig
  BY DEF TypeOK, SameOrder
<1>2. r = [sym |-> r.sym, sig |-> r.sig]
  BY DEF RowOf
<1>3. b = [sym |-> b.sym, sig |-> b.sig]
  BY <1>1 DEF OrderType
<1> QED
  BY <1>1, <1>2, <1>3

Moved(a, b) == a = b \/ <<a, b>> \in Lifecycle!Edges

LEMMA MovedEdges ==
  /\ \A a : Moved(a, a)
  /\ Moved("none", "pending") /\ Moved("pending", "open") /\ Moved("pending", "missed")
  /\ Moved("open", "closed")
BY DEF Moved, Lifecycle!Edges

\* A step of the worker moves every order along an edge of the lifecycle.
LEMMA WorkerEdges ==
  ASSUME TypeOK, TypeOK', MergeInv, FreshInv, WorkerMove, NEW o \in OrderKeys
  PROVE  Moved(OrderStatus(o), OrderStatus(o)')
<1> DEFINE r == RowOf(o)
<1>1. /\ \A b \in pending : SameOrder(b, r) => b = r
      /\ r \in pending => SameOrder(r, r)
  <2>1. r = [sym |-> r.sym, sig |-> r.sig]
    BY DEF RowOf
  <2>2. \A b \in pending : b = [sym |-> b.sym, sig |-> b.sig]
    BY DEF TypeOK, OrderType
  <2> QED
    BY <2>1, <2>2 DEF SameOrder
<1>2. /\ \A p \in open : SameOrder(p, r) => OrderStatus(o) = "open"
      /\ (\A p \in open : ~SameOrder(p, r)) =>
              /\ r \in pending => OrderStatus(o) = "pending"
              /\ r \notin pending =>
                   /\ ExitId(r) \in EventIds => OrderStatus(o) = "closed"
                   /\ ExitId(r) \notin EventIds =>
                        OrderStatus(o) = IF {EntryId(r), MissedId(r)} \cap EventIds # {}
                                         THEN "missed" ELSE "none"
  BY StatusIs
<1>3. /\ \A p \in open' : SameOrder(p, r) => OrderStatus(o)' = "open"
      /\ (\A p \in open' : ~SameOrder(p, r)) =>
              /\ r \in pending' => OrderStatus(o)' = "pending"
              /\ r \notin pending' =>
                   /\ ExitId(r) \in EventIds' => OrderStatus(o)' = "closed"
                   /\ ExitId(r) \notin EventIds' =>
                        OrderStatus(o)' = IF {EntryId(r), MissedId(r)} \cap EventIds' # {}
                                          THEN "missed" ELSE "none"
  BY DEF OrderStatus, RowOf, SameOrder, EventIds, EntryId, MissedId, ExitId
<1> HIDE DEF r
\* An exit recorded in this step is that of an open position, any other record
\* that of an order leaving the list.
<1>4. ASSUME \A p \in open : ~SameOrder(p, r), ExitId(r) \in EventIds'
      PROVE  ExitId(r) \in EventIds
  <2>1. \A p \in open : ExitId(r) # ExitId(p)
    BY <1>4, IdsApart DEF SameOrder
  <2>2. \A b : ExitId(r) # EntryId(b) /\ ExitId(r) # MissedId(b)
    BY IdsApart
  <2> QED
    BY <1>4, <2>1, <2>2 DEF WorkerMove
<1>5. ASSUME r \notin pending, NEW id \in {EntryId(r), MissedId(r)}, id \in EventIds'
      PROVE  id \in EventIds
  <2>1. \A p \in open : id # ExitId(p)
    BY IdsApart
  <2>2. ASSUME NEW b \in pending, id = EntryId(b) PROVE FALSE
    <3>1. id = EntryId(r)
      BY <2>2, IdsApart
    <3>2. SameOrder(b, r)
      BY <2>2, <3>1, IdsApart
    <3> QED
      BY <1>1, <1>5, <3>2
  <2>3. ASSUME NEW b \in pending, id = MissedId(b) PROVE FALSE
    <3>1. id = MissedId(r)
      BY <2>3, IdsApart
    <3>2. SameOrder(b, r)
      BY <2>3, <3>1, IdsApart
    <3> QED
      BY <1>1, <1>5, <3>2
  <2> QED
    BY <1>5, <2>1, <2>2, <2>3 DEF WorkerMove
<1>6. CASE \E p \in open : SameOrder(p, r)
  <2>1. PICK p \in open : SameOrder(p, r)
    BY <1>6
  <2>2. OrderStatus(o) = "open"
    BY <1>2, <2>1
  <2>3. r \notin pending'
    BY <2>1 DEF WorkerMove, SameOrder, MergeInv, OneClaimPerSymbol
  <2>4. CASE \E q \in open' : SameOrder(q, r)
    BY <1>3, <2>2, <2>4, MovedEdges
  <2>5. CASE \A q \in open' : ~SameOrder(q, r)
    <3>1. \A q \in open' : ~SameOrder(q, p)
      BY <2>1, <2>5 DEF SameOrder
    <3>2. ExitId(p) \in EventIds' /\ ExitId(p) = ExitId(r)
      BY <2>1, <3>1, IdsApart DEF WorkerMove
    <3> QED
      BY <1>3, <2>2, <2>3, <2>5, <3>2, MovedEdges
  <2> QED
    BY <2>4, <2>5
<1>7. CASE r \in pending /\ \A p \in open : ~SameOrder(p, r)
  <2>1. OrderStatus(o) = "pending"
    BY <1>2, <1>7
  <2>2. CASE \E q \in open' : SameOrder(q, r)
    BY <1>3, <2>1, <2>2, MovedEdges
  <2>3. CASE r \in pending' /\ \A q \in open' : ~SameOrder(q, r)
    BY <1>3, <2>1, <2>3, MovedEdges
  <2>4. CASE r \notin pending' /\ \A q \in open' : ~SameOrder(q, r)
    <3>1. {EntryId(r), MissedId(r)} \cap EventIds' # {}
      BY <1>7, <2>4 DEF WorkerMove
    <3>2. ExitId(r) \notin EventIds'
      BY <1>4, <1>7 DEF FreshInv
    <3> QED
      BY <1>3, <2>1, <2>4, <3>1, <3>2, MovedEdges
  <2> QED
    BY <2>2, <2>3, <2>4
<1>8. CASE r \notin pending /\ \A p \in open : ~SameOrder(p, r)
  <2>1. \A q \in open' : ~SameOrder(q, r)
    <3> SUFFICES ASSUME NEW q \in open', SameOrder(q, r) PROVE FALSE
      OBVIOUS
    <3> QED
      BY <1>1, <1>8 DEF WorkerMove, SameOrder
  <2>2. r \notin pending'
    BY <1>8 DEF WorkerMove
  <2>3. ExitId(r) \in EventIds <=> ExitId(r) \in EventIds'
    BY <1>4, <1>8 DEF WorkerMove
  <2>4. ({EntryId(r), MissedId(r)} \cap EventIds # {}) <=> ({EntryId(r), MissedId(r)} \cap EventIds' # {})
    BY <1>5, <1>8 DEF WorkerMove
  <2>5. OrderStatus(o)' = OrderStatus(o)
    BY <1>2, <1>3, <1>8, <2>1, <2>2, <2>3, <2>4
  <2> QED
    BY <2>5, MovedEdges
<1> QED
  BY <1>6, <1>7, <1>8

\* Merging the trader's orders places each of them for the first time.
LEMMA SaveEdges ==
  ASSUME TypeOK, TypeOK', MergeInv, FreshInv, TraderSave, NEW o \in OrderKeys
  PROVE  Moved(OrderStatus(o), OrderStatus(o)')
<1> DEFINE r == RowOf(o)
<1>1. /\ pending' = pending \cup NewOrders /\ UNCHANGED <<open, events>>
      /\ tr.pc = "placed" /\ EventIds' = EventIds
  BY DEF TraderSave, EventIds
<1>2. CASE r \in NewOrders /\ r \notin pending
  <2>1. \A p \in open : p.sym # r.sym
    BY <1>1, <1>2 DEF MergeInv, StaleCopyCovers
  <2>2. /\ OnRecord(r.sig) => r.sig < NextRunDate
        /\ r.sig = NextRunDate /\ NextRunDate \in Int
    BY <1>1, <1>2 DEF FreshInv, OnRecord, TypeOK, NextRunDate
  <2>3. ~OnRecord(r.sig)
    BY <2>2
  <2>4. EntryId(r)[3] = r.sig /\ MissedId(r)[3] = r.sig /\ ExitId(r)[3] = r.sig
    BY IdsApart
  <2>5. {EntryId(r), MissedId(r), ExitId(r)} \cap EventIds = {}
    BY <2>3, <2>4 DEF FreshInv
  <2>6. OrderStatus(o) = "none"
    <3> HIDE DEF r
    <3> QED
      BY <1>2, <2>1, <2>5, StatusIs DEF SameOrder, r
  <2>7. OrderStatus(o)' = "pending"
    BY <1>1, <1>2, <2>1 DEF OrderStatus, RowOf
  <2> QED
    BY <2>6, <2>7, MovedEdges
<1>3. CASE r \in pending \/ r \notin NewOrders
  <2>1. r \in pending' <=> r \in pending
    BY <1>1, <1>3
  <2>2. OrderStatus(o)' = OrderStatus(o)
    BY <1>1, <2>1 DEF OrderStatus, RowOf, EntryId, MissedId, ExitId
  <2> QED
    BY <2>2, MovedEdges
<1> QED
  BY <1>2, <1>3

LEMMA StatusEdges ==
  ASSUME TypeOK, TypeOK', MergeInv, FreshInv, [Next]_vars, NEW o \in OrderKeys
  PROVE  Moved(OrderStatus(o), OrderStatus(o)')
<1>1. CASE Tick \/ ReconcileSession
  BY <1>1, WorkerSteps, WorkerEdges
<1>2. CASE TraderSave
  BY <1>2, SaveEdges
<1>3. ASSUME UNCHANGED <<pending, open, events>> PROVE Moved(OrderStatus(o), OrderStatus(o)')
  <2>1. OrderStatus(o)' = OrderStatus(o)
    BY <1>3 DEF OrderStatus, EventIds, EntryId, MissedId, ExitId
  <2> QED
    BY <2>1, MovedEdges
<1> QED
  BY <1>1, <1>2, <1>3
     DEF Next, vars, stateFile, Advance, SyncLedger, ReconcileFetch, ReconcileFail, WorkerCrash,
         WorkerStart, BreakStaleLock, TraderPlace, TraderReport, TraderDies

LEMMA SameCount == \A S : Lifecycle!Cardinality(S) = Cardinality(S)
BY DEF Lifecycle!Cardinality, Cardinality

\* When the live orders are among the rows P of the pending list and Q of the
\* book, their number and their symbols are within what the lifecycle allows.
LEMMA LiveOrders ==
  ASSUME NEW P, NEW Q, IsFiniteSet(P), IsFiniteSet(Q),
         Cardinality(P) + Cardinality(Q) <= MaxSlots,
         \A a, b \in P \cup Q : a.sym = b.sym => a = b,
         NEW st,
         \A o \in OrderKeys : st[o] \in {"pending", "open"} =>
            \E r \in P \cup Q : SameOrder(r, RowOf(o))
  PROVE  Lifecycle!Allowed(st)
<1> DEFINE L == {o \in OrderKeys : st[o] \in {"pending", "open"}}
           key == [r \in P \cup Q |-> <<r.sym, r.sig>>]
<1>1. \A o \in OrderKeys : o = <<o[1], o[2]>> /\ RowOf(o).sym = o[1] /\ RowOf(o).sig = o[2]
  BY DEF OrderKeys, RowOf
<1>2. ASSUME NEW o \in L PROVE \E r \in P \cup Q : key[r] = o /\ r.sym = o[1]
  <2>1. PICK r \in P \cup Q : SameOrder(r, RowOf(o))
    OBVIOUS
  <2>2. key[r] = <<o[1], o[2]>> /\ r.sym = o[1]
    BY <1>1, <2>1 DEF SameOrder
  <2> QED
    BY <1>1, <2>1, <2>2
<1>3. DOMAIN key = P \cup Q
  OBVIOUS
<1>4. Lifecycle!Live(st) = L
  BY DEF Lifecycle!Live, Lifecycle!Orders, OrderKeys
<1> HIDE DEF key, L
<1>5. Cardinality(L) <= MaxSlots
  <2>1. MaxSlots \in Nat
    BY ConstantsAssumption
  <2>2. \A o \in L : \E r \in P \cup Q : key[r] = o
    BY <1>2
  <2> QED
    BY <1>3, <2>1, <2>2, CoveredFinite
<1>6. \A o1, o2 \in L : o1[1] = o2[1] => o1 = o2
  BY <1>2
<1> QED
  BY <1>4, <1>5, <1>6, SameCount DEF Lifecycle!Allowed

\* The engine implements OrderLifecycle: an order is placed once, entered or
\* missed once and closed once, whatever the two processes interleave and
\* whichever of them dies, as long as the trader does not die between its save
\* and its report row (else the date is run again and its orders placed anew).
THEOREM Implements == ASSUME ~ReportCrash PROVE Spec => ImplementsLifecycle
<1>1. Init => FreshInv /\ Lifecycle!Init
  <2> SUFFICES ASSUME Init PROVE FreshInv /\ Lifecycle!Init
    OBVIOUS
  <2>1. /\ pending = {} /\ EventIds = {} /\ tr.pc = "idle" /\ NextRunDate = 0
        /\ \A p \in open : p.sig = Legacy
    BY LegacyAssumption DEF Init, EventIds, NoRun, NextRunDate, None
  <2>2. FreshInv
    BY <2>1 DEF FreshInv, OnRecord, Legacy
  <2>3. ASSUME NEW o \in Symbols \X Dates PROVE OrderStatus(o) = "none"
    <3>1. o[2] # Legacy
      <4>1. Dates \subseteq Nat
        BY DEF Dates
      <4> QED
        BY <4>1 DEF Legacy
    <3> QED
      BY <2>1, <3>1 DEF OrderStatus
  <2>4. [o \in Symbols \X Dates |-> OrderStatus(o)] = [o \in Symbols \X Dates |-> "none"]
    BY <2>3
  <2> QED
    BY <2>2, <2>4 DEF Lifecycle!Init, Lifecycle!Orders
<1>2. BookInv /\ FreshInv /\ [Next]_vars => FreshInv'
  BY FreshStep DEF BookInv
<1>3. BookInv /\ BookInv' /\ FreshInv /\ SlotsReserved' /\ [Next]_vars => Lifecycle!Next
  <2> SUFFICES ASSUME BookInv, BookInv', FreshInv, SlotsReserved', [Next]_vars
               PROVE  Lifecycle!Next
    OBVIOUS
  <2> DEFINE st == [o \in OrderKeys |-> OrderStatus(o)']
  <2>1. \A o \in OrderKeys : Moved(OrderStatus(o), st[o])
    BY StatusEdges DEF BookInv
  <2>2. \A o \in OrderKeys : st[o] \in {"pending", "open"} =>
           \E r \in pending' \cup open' : SameOrder(r, RowOf(o))
    BY DEF OrderStatus, RowOf, SameOrder
  <2>3. /\ IsFiniteSet(pending') /\ IsFiniteSet(open')
        /\ \A a, b \in pending' \cup open' : a.sym = b.sym => a = b
    BY DEF BookInv, TypeOK, MergeInv, OneClaimPerSymbol
  <2>4. Cardinality(pending') + Cardinality(open') <= MaxSlots
    <3>1. /\ Cardinality(pending') \in Nat /\ Cardinality(open') \in Nat
          /\ IsFiniteSet(NewOrders') /\ Cardinality(NewOrders') \in Nat /\ MaxSlots \in Nat
      <4>1. IsFiniteSet(NewOrders')
        BY FS_Subset DEF NewOrders, BookInv, TypeOK
      <4> QED
        BY <2>3, <4>1, ConstantsAssumption, FS_CardinalityType
    <3>2. Reserved' \in Nat
      BY <3>1 DEF Reserved
    <3> QED
      BY <3>1, <3>2 DEF SlotsReserved
  <2>5. st \in [Symbols \X Dates -> Lifecycle!Statuses]
    BY DEF OrderKeys, OrderStatus, Lifecycle!Statuses
  <2> HIDE DEF st
  <2>6. Lifecycle!Allowed(st)
    BY <2>2, <2>3, <2>4, LiveOrders
  <2>7. \A o \in OrderKeys : \/ st[o] = OrderStatus(o)
                             \/ <<OrderStatus(o), st[o]>> \in Lifecycle!Edges
    BY <2>1 DEF Moved
  <2>8. [o \in Symbols \X Dates |-> OrderStatus(o)]' = st
    BY DEF st, OrderKeys, Dates, DayOf
  <2> QED
    BY <2>5, <2>6, <2>7, <2>8 DEF Lifecycle!Next, Lifecycle!Move, Lifecycle!Orders, OrderKeys
<1>4. Spec => []SlotsReserved
  BY SlotsInit, SlotsStep, TypeCorrect, PTL DEF Spec
<1> QED
  BY <1>1, <1>2, <1>3, <1>4, BookKept, PTL DEF Spec, ImplementsLifecycle, Lifecycle!Spec
=============================================================================
