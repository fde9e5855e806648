----------------------- MODULE PaperContinuityProofs -----------------------
(***************************************************************************)
(* The continuity wrapper and the end-of-day trader for every set of       *)
(* symbols, dates, session contents and runners.                           *)
(***************************************************************************)
EXTENDS PaperContinuity, DataLemmas

USE DEF Resting

-----------------------------------------------------------------------------
(* Least and greatest dates                                                  *)

\* A set of dates that is not empty has a least one.
LEMMA MinDate ==
  ASSUME NEW S \in SUBSET Days, S # {}
  PROVE  Min(S) \in S /\ \A d \in S : Min(S) <= d
BY LeastNatural, TraderAssumption DEF Min

\* The dates are bounded, so it has a greatest one too.
LEMMA MaxDate ==
  ASSUME NEW S \in SUBSET Days, S # {}
  PROVE  Max(S) \in S /\ \A d \in S : d <= Max(S)
<1>1. PICK n \in Days : \A d \in Days : d <= n
  BY TraderAssumption
<1>2. S \subseteq Nat /\ n \in Nat /\ \A d \in S : d <= n
  BY <1>1, TraderAssumption
<1>3. PICK m \in S : \A d \in S : d <= m
  BY <1>2, GreatestNatural
<1>4. \A d \in S : m >= d
  BY <1>2, <1>3
<1>5. Max(S) \in S /\ \A d \in S : Max(S) >= d
  BY <1>4 DEF Max
<1> QED
  BY <1>2, <1>5

-----------------------------------------------------------------------------
(* Type correctness                                                          *)

\* A runner's list holds stored sessions, and its trader works on one of them.
Dated ==
  \A r \in Runners : /\ run[r].todo \subseteq Stored
                     /\ run[r].pc \notin Resting => run[r].todo # {}
TypeInv == TypeOK /\ Dated

LEMMA DateTyped ==
  ASSUME TypeOK, NEW r \in Runners, run[r].todo # {}
  PROVE  /\ Date(r) \in run[r].todo /\ Date(r) \in Days
         /\ \A d \in run[r].todo : Date(r) <= d
<1>1. run[r].todo \in SUBSET Days
  BY DEF TypeOK, RunType
<1> QED
  BY <1>1, MinDate DEF Date

LEMMA ReportedTyped == TypeOK => Reported \in SUBSET Days
BY DEF TypeOK, Reported, Range

LEMMA PlanTyped ==
  ASSUME TypeOK, Stored # {}
  PROVE  Plan.label \in Labels /\ Plan.label # "reconstructed" /\ Plan.dates \in SUBSET Stored
<1>1. Stored \in SUBSET Days
  BY DEF TypeOK
<1>2. Max(Stored) \in Stored
  BY <1>1, MaxDate
<1>3. Trailing \in SUBSET Stored
  BY <1>1 DEF Trailing, Missing
<1> QED
  BY <1>2, <1>3 DEF Plan, Labels

LEMMA AgedTyped ==
  ASSUME NEW p \in PositionType, NEW d
  PROVE  /\ Aged(p, d) \in PositionType
         /\ Aged(p, d).sym = p.sym
BY DEF Aged, PositionType

LEMMA OpenedTyped ==
  ASSUME NEW F \in SUBSET OrderType, NEW d \in Days
  PROVE  Opened(F, d) \in SUBSET PositionType
BY DEF Opened, OrderType, PositionType

\* What the trader holds in memory after fills and exits.
LEMMA ProcessTyped ==
  ASSUME NEW b \in BookType, NEW F \in SUBSET b.pending, NEW d \in Days, NEW closed,
         NEW held, held = {Aged(p, d) : p \in b.open \cup Opened(F, d)}
  PROVE  /\ held \in SUBSET PositionType
         /\ [pending |-> b.pending \ F, open |-> held \ closed] \in BookType
<1>1. b.pending \in SUBSET OrderType /\ b.open \in SUBSET PositionType
  BY DEF BookType
<1>2. b.open \cup Opened(F, d) \in SUBSET PositionType
  BY <1>1, OpenedTyped
<1>3. held \in SUBSET PositionType
  BY <1>2, AgedTyped
<1> QED
  BY <1>1, <1>3 DEF BookType

LEMMA SelectedTyped ==
  ASSUME TypeOK, NEW b, NEW d \in Stored
  PROVE  Selected(b, d) \subseteq Symbols
<1>1. sessions[d] \in SessionData
  BY DEF TypeOK, Range, Stored
<1>2. sessions[d].signals \in Seq(Symbols)
  BY <1>1, TraderAssumption
<1> QED
  BY <1>2 DEF Selected

\* What a runner's record needs to stay typed over a step of its trader.
LEMMA RunTyped ==
  ASSUME TypeInv, NEW r \in Runners, run[r].todo # {}, UNCHANGED sessions,
         NEW pc \in {"processed", "placed", "saved"}, NEW b \in BookType,
         run' = [run EXCEPT ![r].pc = pc, ![r].copy = b]
  PROVE  run' \in [Runners -> RunType] /\ Dated'
<1>1. run \in [Runners -> RunType] /\ Stored' = Stored
  BY DEF TypeInv, TypeOK, Stored
<1>2. run' \in [Runners -> RunType]
  BY <1>1 DEF RunType
<1>3. \A q \in Runners : run'[q].todo = run[q].todo /\ (q # r => run'[q] = run[q])
  BY <1>1 DEF RunType
<1> QED
  BY <1>1, <1>2, <1>3 DEF Dated, TypeInv

LEMMA TraderTyped ==
  ASSUME TypeInv, NEW r \in Runners, TraderStep(r)
  PROVE  /\ book' \in BookType
         /\ BagToSet(trades') \subseteq TradeType
         /\ report' \in Seq(Days)
         /\ run' \in [Runners -> RunType]
         /\ Dated'
         /\ UNCHANGED sessions
<1>1. run[r].pc # "idle" /\ run[r].todo # {}
  BY DEF TraderStep, Process, Place, Save, Report, TypeInv, Dated
<1>2. Date(r) \in Days
  BY <1>1, DateTyped DEF TypeInv
<1>3. run \in [Runners -> RunType] /\ run[r] \in RunType
  BY DEF TypeInv, TypeOK
<1> DEFINE d == Date(r)
<1>4. CASE Process(r)
  <2>1. PICK F \in SUBSET Fillable(book, d) :
          LET held   == {Aged(p, d) : p \in book.open \cup Opened(F, d)}
              closed == {p \in held : MustClose(p, d)}
          IN  /\ trades' = trades (+) SetToBag({TradeRow(p, d) : p \in closed})
              /\ run' = [run EXCEPT ![r].pc = "processed",
                                    ![r].copy = [pending |-> book.pending \ F,
                                                 open |-> held \ closed]]
    BY <1>4 DEF Process
  <2> DEFINE held   == {Aged(p, d) : p \in book.open \cup Opened(F, d)}
             closed == {p \in held : MustClose(p, d)}
             rows   == {TradeRow(p, d) : p \in closed}
             copy   == [pending |-> book.pending \ F, open |-> held \ closed]
  <2>2. F \in SUBSET book.pending /\ book \in BookType
    BY DEF Fillable, TypeInv, TypeOK
  <2>3. held \in SUBSET PositionType /\ copy \in BookType
    <3> HIDE DEF closed, d
    <3> QED
      BY <2>2, <1>2, ProcessTyped DEF d
  <2>4. rows \in SUBSET TradeType
    <3>1. closed \in SUBSET PositionType
      BY <2>3
    <3> HIDE DEF closed, held
    <3> QED
      BY <3>1, <1>2 DEF TradeRow, PositionType, TradeType
  <2>5. trades' = trades (+) SetToBag(rows) /\ run' = [run EXCEPT ![r].pc = "processed", ![r].copy = copy]
    BY <2>1
  <2> HIDE DEF copy, rows, closed, held, d
  <2>6. BagToSet(trades') \subseteq TradeType
    BY <2>4, <2>5 DEF BagToSet, SetToBag, (+), TypeInv, TypeOK
  <2>7. run' \in [Runners -> RunType] /\ Dated'
    BY <2>3, <2>5, <1>1, <1>4, RunTyped DEF Process
  <2> QED
    BY <2>6, <2>7, <1>4 DEF Process, TypeInv, TypeOK
<1>5. CASE Place(r)
  <2> DEFINE new == {[sym |-> s, sig |-> d] : s \in Selected(run[r].copy, d) \ Claimed(run[r].copy)}
             copy == [run[r].copy EXCEPT !.pending = @ \cup new]
  <2>1. Selected(run[r].copy, d) \subseteq Symbols
    BY <1>1, DateTyped, SelectedTyped DEF TypeInv, Dated
  <2>2. new \in SUBSET OrderType
    BY <2>1, <1>2 DEF OrderType
  <2>3. copy \in BookType
    <3> HIDE DEF new
    <3> QED
      BY <2>2, <1>3 DEF RunType, BookType
  <2>4. run' = [run EXCEPT ![r].pc = "placed", ![r].copy = copy]
    BY <1>5, <1>3 DEF Place, RunType, BookType
  <2> HIDE DEF copy, new
  <2>5. run' \in [Runners -> RunType] /\ Dated'
    BY <2>3, <2>4, <1>1, <1>5, RunTyped DEF Place
  <2> QED
    BY <2>5, <1>5 DEF Place, files, TypeInv, TypeOK
<1>6. CASE Save(r)
  <2>1. book' \in BookType
    BY <1>6, <1>3 DEF Save, RunType, TypeInv, TypeOK
  <2>2. run' \in [Runners -> RunType] /\ Dated'
    BY <1>6, <1>1, <1>3 DEF Save, RunType, Dated, TypeInv, Stored
  <2> QED
    BY <1>6, <2>1, <2>2 DEF Save, TypeInv, TypeOK
<1>7. CASE Report(r)
  <2>1. report' \in Seq(Days)
    BY <1>7, <1>2 DEF Report, TypeInv, TypeOK
  <2>2. run' = [run EXCEPT ![r].pc = "next", ![r].todo = @ \ {d}, ![r].copy = EmptyBook]
    BY <1>7 DEF Report
  <2>3. EmptyBook \in BookType
    BY DEF EmptyBook, BookType
  <2> HIDE DEF d
  <2>4. run' \in [Runners -> RunType] /\ Stored' = Stored
    <3>1. run[r].todo \ {d} \in SUBSET Days
      BY <1>3 DEF RunType
    <3>2. run' \in [Runners -> RunType]
      BY <2>2, <2>3, <3>1, <1>3 DEF RunType
    <3> QED
      BY <3>2, <1>7 DEF Report, Stored
  <2>5. \A q \in Runners : /\ run'[q].todo \subseteq run[q].todo
                           /\ IF q = r THEN run'[q].pc = "next" ELSE run'[q] = run[q]
    BY <2>2, <1>3 DEF RunType
  <2>6. Dated'
    BY <2>4, <2>5 DEF Dated, TypeInv
  <2> QED
    BY <1>7, <2>1, <2>4, <2>6 DEF Report, TypeInv, TypeOK
<1> QED
  BY <1>4, <1>5, <1>6, <1>7 DEF TraderStep

LEMMA StoreTyped ==
  ASSUME TypeInv, StoreSession
  PROVE  TypeInv'
<1>1. PICK d \in Days, data \in SessionData : Store(d, data) /\ UNCHANGED <<status, batched, deaths>>
  BY DEF StoreSession
<1>2. Stored' = Stored \cup {d} /\ \A e \in Stored' : sessions'[e] = IF e = d THEN data ELSE sessions[e]
  BY <1>1 DEF Store, Stored
<1>3. Stored' \subseteq Days /\ Range(sessions)' \subseteq SessionData
  BY <1>1, <1>2 DEF TypeInv, TypeOK, Stored, Range
<1>4. UNCHANGED <<files, run, status, batched, deaths>>
  BY <1>1 DEF Store
<1>5. Dated'
  BY <1>2, <1>4 DEF TypeInv, Dated
<1> QED
  BY <1>3, <1>4, <1>5 DEF TypeInv, TypeOK, files

\* A runner without a trader keeps nothing of the one it had.
Rested(rec) == rec.pc \in Resting /\ rec.todo = {} /\ rec.copy = EmptyBook

LEMMA RestedTyped ==
  ASSUME TypeInv, NEW r \in Runners, NEW rec \in RunType, Rested(rec),
         run' = [run EXCEPT ![r] = rec], UNCHANGED sessions
  PROVE  run' \in [Runners -> RunType] /\ Dated'
<1>1. run \in [Runners -> RunType]
  BY DEF TypeInv, TypeOK
<1>2. run' \in [Runners -> RunType] /\ \A q \in Runners : run'[q] = IF q = r THEN rec ELSE run[q]
  BY <1>1
<1> QED
  BY <1>2 DEF Rested, Dated, TypeInv, Stored

LEMMA IdleTyped == Idle \in RunType /\ Rested(Idle)
BY DEF Idle, Rested, RunType, Labels, EmptyBook, BookType

\* The record of a runner about to write its label.
Begun(l, R) == [pc |-> "label", todo |-> {}, replayed |-> status.replayed \cup R,
                label |-> l, copy |-> EmptyBook]

LEMMA BegunTyped ==
  ASSUME TypeOK, NEW l \in Labels, NEW R \in SUBSET Days
  PROVE  Begun(l, R) \in RunType /\ Rested(Begun(l, R))
<1>1. status.replayed \cup R \in SUBSET Days
  BY DEF TypeOK
<1>2. EmptyBook \in BookType
  BY DEF EmptyBook, BookType
<1> QED
  BY <1>1, <1>2 DEF Begun, Rested, RunType

\* The steps of the wrapper that start no trader.
LEMMA RestSteps ==
  ASSUME TypeInv, NEW r \in Runners,
         \/ Start(r) /\ ~Valid(Plan.label)
         \/ Finish(r) \/ WriteContinuity(r) \/ GateFails(r) \/ TraderDies(r) \/ RunnerDies(r)
  PROVE  /\ \E rec \in RunType : Rested(rec) /\ run' = [run EXCEPT ![r] = rec]
         /\ UNCHANGED <<sessions, files, batched>>
<1>1. run[r].label \in Labels /\ run[r].replayed \in SUBSET Days /\ Plan.label \in Labels
  BY DEF TypeInv, TypeOK, RunType, Plan, Labels
<1>2. ASSUME NEW l \in Labels, NEW R \in SUBSET Days, BeginWrite(r, l, R)
      PROVE  \E rec \in RunType : Rested(rec) /\ run' = [run EXCEPT ![r] = rec]
  <2>1. run' = [run EXCEPT ![r] = Begun(l, R)]
    BY <1>2 DEF BeginWrite, Begun
  <2> QED
    BY <2>1, BegunTyped DEF TypeInv
<1>3. CASE Start(r) /\ ~Valid(Plan.label)
  <2>1. BeginWrite(r, Plan.label, {}) /\ UNCHANGED <<sessions, files, batched>>
    BY <1>3 DEF Start
  <2> QED
    BY <1>1, <1>2, <2>1
<1>4. CASE Finish(r)
  <2>1. BeginWrite(r, Plan.label, run[r].replayed) /\ UNCHANGED <<sessions, files, batched>>
    BY <1>4 DEF Finish
  <2> QED
    BY <1>1, <1>2, <2>1
<1>5. CASE GateFails(r) \/ TraderDies(r)
  <2>1. BeginWrite(r, run[r].label, {}) /\ UNCHANGED <<sessions, files, batched>>
    BY <1>5 DEF GateFails, TraderDies, GiveUp
  <2> QED
    BY <1>1, <1>2, <2>1
<1>6. CASE WriteContinuity(r) \/ RunnerDies(r)
  <2>1. run' = [run EXCEPT ![r] = Idle] /\ UNCHANGED <<sessions, files, batched>>
    BY <1>6 DEF WriteContinuity, RunnerDies
  <2> QED
    BY <2>1, IdleTyped
<1> QED
  BY <1>3, <1>4, <1>5, <1>6

\* Every step keeps the types: one case per action.
LEMMA TypeStep == TypeInv /\ [Next]_vars => TypeInv'
<1> SUFFICES ASSUME TypeInv, [Next]_vars
             PROVE  TypeInv'
  OBVIOUS
<1>0. CASE StoreSession
  BY <1>0, StoreTyped
<1>1. ASSUME NEW r \in Runners,
             \/ Start(r) /\ ~Valid(Plan.label)
             \/ Finish(r) \/ WriteContinuity(r) \/ GateFails(r) \/ TraderDies(r) \/ RunnerDies(r)
      PROVE  run' \in [Runners -> RunType] /\ Dated' /\ UNCHANGED <<sessions, files, batched>>
  BY <1>1, RestSteps, RestedTyped
<1>2. ASSUME NEW r \in Runners, Start(r)
      PROVE  TypeInv'
  <2>1. Stored # {} /\ UNCHANGED <<sessions, files, status, batched, deaths>>
    BY <1>2 DEF Start
  <2>2. Plan.label \in Labels /\ Plan.dates \in SUBSET Stored /\ Plan.dates \in SUBSET Days
    BY <2>1, PlanTyped DEF TypeInv, TypeOK
  <2>3. CASE Valid(Plan.label)
    <3> DEFINE rec == [pc |-> "next", todo |-> Plan.dates, label |-> Plan.label,
                       replayed |-> IF Cardinality(Plan.dates) > 1 THEN Plan.dates ELSE {},
                       copy |-> EmptyBook]
    <3>1. run' = [run EXCEPT ![r] = rec]
      BY <1>2, <2>3 DEF Start
    <3>2. rec \in RunType
      BY <2>2 DEF RunType, EmptyBook, BookType
    <3>3. rec.pc = "next" /\ rec.todo \subseteq Stored
      BY <2>2
    <3> HIDE DEF rec
    <3>4. run \in [Runners -> RunType]
      BY DEF TypeInv, TypeOK
    <3>5. run' \in [Runners -> RunType] /\ \A q \in Runners : run'[q] = IF q = r THEN rec ELSE run[q]
      BY <3>1, <3>2, <3>4
    <3>6. Dated'
      BY <3>3, <3>5, <2>1 DEF Dated, TypeInv, Stored
    <3> QED
      BY <3>1, <3>5, <3>6, <2>1 DEF TypeInv, TypeOK, Stored, files
  <2>4. CASE ~Valid(Plan.label)
    BY <1>1, <1>2, <2>1, <2>4 DEF TypeInv, TypeOK, Stored, files
  <2> QED
    BY <2>3, <2>4
<1>3. ASSUME NEW r \in Runners, TraderRuns(r)
      PROVE  TypeInv'
  <2>1. TraderStep(r) /\ UNCHANGED <<status, deaths>>
    BY <1>3 DEF TraderRuns
  <2>2. run[r].todo # {}
    BY <2>1 DEF TraderStep, Process, Place, Save, Report, TypeInv, Dated
  <2>3. Date(r) \in Days
    BY <2>2, DateTyped DEF TypeInv
  <2>4. batched' \subseteq Days
    BY <1>3, <2>3 DEF TraderRuns, TypeInv, TypeOK
  <2> QED
    BY <2>1, <2>4, TraderTyped DEF TypeInv, TypeOK, Stored
<1>4. ASSUME NEW r \in Runners, GateFails(r) \/ Finish(r)
      PROVE  TypeInv'
  <2>1. UNCHANGED <<status, deaths>>
    BY <1>4 DEF GateFails, GiveUp, Finish
  <2> QED
    BY <1>1, <1>4, <2>1 DEF TypeInv, TypeOK, Stored, files
<1>5. ASSUME Die
      PROVE  deaths' \in 0..MaxDeaths
  BY <1>5, ContinuityAssumption DEF Die, TypeInv, TypeOK
<1>6. ASSUME NEW r \in Runners, TraderDies(r) \/ RunnerDies(r)
      PROVE  TypeInv'
  <2>1. UNCHANGED status /\ deaths' \in 0..MaxDeaths
    BY <1>5, <1>6 DEF TraderDies, RunnerDies, GiveUp
  <2> QED
    BY <1>1, <1>6, <2>1 DEF TypeInv, TypeOK, Stored, files
<1>7. ASSUME NEW r \in Runners, WriteContinuity(r)
      PROVE  TypeInv'
  <2>1. run[r].label \in Labels /\ run[r].replayed \in SUBSET Days
    BY DEF TypeInv, TypeOK, RunType
  <2>2. status' \in [label: Labels, replayed: SUBSET Days] /\ UNCHANGED deaths
    BY <1>7, <2>1 DEF WriteContinuity, Labels
  <2> QED
    BY <1>1, <1>7, <2>2 DEF TypeInv, TypeOK, Stored, files
<1>10. CASE UNCHANGED vars
  BY <1>10 DEF vars, files, TypeInv, TypeOK, Dated, Stored
<1> QED
  BY <1>0, <1>2, <1>3, <1>4, <1>6, <1>7, <1>10 DEF Next

LEMMA TypeInit == Init => TypeInv
<1> SUFFICES ASSUME Init
             PROVE  TypeInv
  OBVIOUS
<1>1. sessions = <<>> /\ Stored = {} /\ Range(sessions) = {}
  BY DEF Init, TraderInit, Stored, Range
<1>2. book \in BookType /\ Idle \in RunType
  BY DEF Init, TraderInit, EmptyBook, BookType, Idle, RunType, Labels
<1>3. run \in [Runners -> RunType] /\ Dated
  BY <1>2 DEF Init, TraderInit, Dated, Idle
<1>4. BagToSet(trades) \subseteq TradeType /\ report \in Seq(Days)
  BY DEF Init, TraderInit, EmptyBag, BagToSet, SetToBag
<1> QED
  BY <1>1, <1>2, <1>3, <1>4, ContinuityAssumption DEF Init, TypeInv, TypeOK, Labels

\* The wrapper and its traders keep the types of their files and of the
\* process memory, for any number of runners.
THEOREM TypeCorrect == Spec => []TypeOK
<1>1. Spec => []TypeInv
  BY TypeInit, TypeStep, PTL DEF Spec
<1> QED
  BY <1>1, PTL DEF TypeInv

-----------------------------------------------------------------------------
(* The books of a state: the file, and the copy each trader has in memory.   *)
(* A step keeps one of them, or makes one by filling or by placing orders.   *)

Books == {book, EmptyBook} \cup {run[r].copy : r \in Runners}

Filled(b, F, d, closed) ==
  [pending |-> b.pending \ F, open |-> {Aged(p, d) : p \in b.open \cup Opened(F, d)} \ closed]
New(b, d) == {[sym |-> s, sig |-> d] : s \in Selected(b, d) \ Claimed(b)}
Placed(b, d) == [b EXCEPT !.pending = @ \cup New(b, d)]

LEMMA BooksTyped == TypeInv => Books \subseteq BookType
BY DEF Books, TypeInv, TypeOK, RunType, EmptyBook, BookType

LEMMA NextBooks ==
  ASSUME TypeInv, [Next]_vars, NEW b \in Books'
  PROVE  \/ b \in Books
         \/ \E F \in SUBSET book.pending, d \in Stored : \E closed : b = Filled(book, F, d, closed)
         \/ \E c \in Books, d \in Stored : b = Placed(c, d)
<1> USE DEF Books
<1>1. run \in [Runners -> RunType]
  BY DEF TypeInv, TypeOK
<1>2. CASE UNCHANGED <<book, run>>
  BY <1>2 DEF EmptyBook
<1>3. ASSUME NEW r \in Runners, UNCHANGED book, NEW rec, run' = [run EXCEPT ![r] = rec],
             rec.copy = EmptyBook
      PROVE  b \in Books
  BY <1>1, <1>3 DEF EmptyBook
<1>4. ASSUME NEW r \in Runners, TraderStep(r)
      PROVE  \/ b \in Books
             \/ \E F \in SUBSET book.pending, d \in Stored : \E closed : b = Filled(book, F, d, closed)
             \/ \E c \in Books, d \in Stored : b = Placed(c, d)
  <2>1. Date(r) \in Stored
    BY <1>4, DateTyped DEF TraderStep, Process, Place, Save, Report, TypeInv, Dated
  <2> DEFINE d == Date(r)
  <2>2. CASE Process(r)
    <3>1. PICK F \in SUBSET Fillable(book, d) :
            LET held   == {Aged(p, d) : p \in book.open \cup Opened(F, d)}
                closed == {p \in held : MustClose(p, d)}
            IN  run' = [run EXCEPT ![r].pc = "processed",
                                   ![r].copy = [pending |-> book.pending \ F, open |-> held \ closed]]
      BY <2>2 DEF Process
    <3> DEFINE held   == {Aged(p, d) : p \in book.open \cup Opened(F, d)}
               closed == {p \in held : MustClose(p, d)}
    <3>2. run' = [run EXCEPT ![r].pc = "processed", ![r].copy = Filled(book, F, d, closed)]
      BY <3>1 DEF Filled
    <3>3. F \in SUBSET book.pending /\ UNCHANGED book
      BY <2>2 DEF Process, Fillable
    <3> HIDE DEF closed, held, d
    <3>4. \A q \in Runners : run'[q].copy = IF q = r THEN Filled(book, F, d, closed) ELSE run[q].copy
      BY <3>2, <1>1 DEF RunType
    <3> QED
      BY <3>3, <3>4, <2>1 DEF d, EmptyBook
  <2>3. CASE Place(r)
    <3>1. run[r].copy \in BookType /\ UNCHANGED book
      BY <2>3, <1>1 DEF Place, files, RunType
    <3>2. run' = [run EXCEPT ![r].pc = "placed", ![r].copy = Placed(run[r].copy, d)]
      BY <2>3, <1>1 DEF Place, Placed, New, RunType, BookType
    <3> HIDE DEF d
    <3>3. \A q \in Runners : run'[q].copy = IF q = r THEN Placed(run[r].copy, d) ELSE run[q].copy
      BY <3>2, <1>1 DEF RunType
    <3> QED
      BY <3>1, <3>3, <2>1 DEF d, EmptyBook
  <2>4. CASE Save(r)
    <3>1. book' \in {book, run[r].copy} /\ run' = [run EXCEPT ![r].pc = "saved"]
      BY <2>4 DEF Save
    <3>2. \A q \in Runners : run'[q].copy = run[q].copy
      BY <3>1, <1>1 DEF RunType
    <3> QED
      BY <3>1, <3>2 DEF EmptyBook
  <2>5. CASE Report(r)
    <3>1. run' = [run EXCEPT ![r].pc = "next", ![r].todo = @ \ {d}, ![r].copy = EmptyBook] /\ UNCHANGED book
      BY <2>5 DEF Report
    <3>2. \A q \in Runners : run'[q].copy = IF q = r THEN EmptyBook ELSE run[q].copy
      BY <3>1, <1>1 DEF RunType
    <3> QED
      BY <3>1, <3>2 DEF EmptyBook
  <2> QED
    BY <1>4, <2>2, <2>3, <2>4, <2>5 DEF TraderStep
<1>5. ASSUME NEW r \in Runners, Start(r), Valid(Plan.label)
      PROVE  b \in Books
  <2> DEFINE rec == [pc |-> "next", todo |-> Plan.dates, label |-> Plan.label,
                     replayed |-> IF Cardinality(Plan.dates) > 1 THEN Plan.dates ELSE {},
                     copy |-> EmptyBook]
  <2>1. run' = [run EXCEPT ![r] = rec] /\ UNCHANGED book /\ rec.copy = EmptyBook
    BY <1>5 DEF Start, files
  <2> HIDE DEF rec
  <2> QED
    BY <1>3, <2>1
<1>6. ASSUME NEW r \in Runners,
             \/ Start(r) /\ ~Valid(Plan.label)
             \/ Finish(r) \/ WriteContinuity(r) \/ GateFails(r) \/ TraderDies(r) \/ RunnerDies(r)
      PROVE  b \in Books
  <2>1. PICK rec \in RunType : Rested(rec) /\ run' = [run EXCEPT ![r] = rec]
    BY <1>6, RestSteps
  <2>2. UNCHANGED book
    BY <1>6, RestSteps DEF files
  <2> QED
    BY <2>1, <2>2, <1>3 DEF Rested
<1>7. CASE StoreSession
  BY <1>2, <1>7 DEF StoreSession, Store, files
<1>8. CASE UNCHANGED vars
  BY <1>2, <1>8 DEF vars, files
<1> QED
  BY <1>4, <1>5, <1>6, <1>7, <1>8 DEF Next, TraderRuns

-----------------------------------------------------------------------------
(* One claim per symbol                                                      *)

\* What is claimed of the file holds of every copy too: that is why it
\* survives any number of runners that overwrite each other's book.
ClaimInv == TypeInv /\ \A b \in Books : OneClaimIn(b)

\* Ageing keeps the symbols and a filled order hands its symbol over to its
\* position.
LEMMA FilledClaim ==
  ASSUME NEW b \in BookType, OneClaimIn(b), NEW F \in SUBSET b.pending, NEW d \in Days, NEW closed
  PROVE  OneClaimIn(Filled(b, F, d, closed))
<1> DEFINE held == {Aged(p, d) : p \in b.open \cup Opened(F, d)}
           c == Filled(b, F, d, closed)
<1>1. b.pending \in SUBSET OrderType /\ b.open \in SUBSET PositionType
  BY DEF BookType
<1>2. Opened(F, d) \in SUBSET PositionType
  BY <1>1, OpenedTyped
<1>3. \A p \in b.open \cup Opened(F, d) : Aged(p, d).sym = p.sym
  BY <1>1, <1>2, AgedTyped
<1>4. \A p \in Opened(F, d) : \E o \in F : p.sym = o.sym
  BY DEF Opened
<1>5. \A p, q \in Opened(F, d) : p.sym = q.sym => p = q
  BY DEF Opened, OneClaimIn
<1>6. \A p \in b.open, q \in Opened(F, d) : p.sym # q.sym
  BY <1>4 DEF OneClaimIn, SymbolsIn
<1>7. \A p, q \in b.open \cup Opened(F, d) : p.sym = q.sym => p = q
  BY <1>5, <1>6 DEF OneClaimIn
<1>8. \A x, y \in held : x.sym = y.sym => x = y
  BY <1>3, <1>7
<1>9. \A x \in b.pending \ F, p \in b.open \cup Opened(F, d) : x.sym # p.sym
  BY <1>4 DEF OneClaimIn, SymbolsIn
<1>10. \A x \in b.pending \ F, y \in held : x.sym # y.sym
  BY <1>3, <1>9
<1> HIDE DEF held
<1>11. c.pending = b.pending \ F /\ c.open = held \ closed
  BY DEF Filled, held
<1> HIDE DEF c
<1>12. OneClaimIn(c)
  BY <1>8, <1>10, <1>11 DEF OneClaimIn, SymbolsIn
<1> QED
  BY <1>12 DEF c

\* A new order is placed on a symbol that nothing claims, once.
LEMMA PlacedClaim ==
  ASSUME NEW b \in BookType, OneClaimIn(b), NEW d
  PROVE  OneClaimIn(Placed(b, d))
<1>1. \A x \in New(b, d) : x.sym \notin SymbolsIn(b.pending) \cup SymbolsIn(b.open)
  BY DEF New, Claimed
<1>2. \A x, y \in New(b, d) : x.sym = y.sym => x = y
  BY DEF New
<1>3. Placed(b, d).pending = b.pending \cup New(b, d) /\ Placed(b, d).open = b.open
  BY DEF Placed, BookType
<1> QED
  BY <1>1, <1>2, <1>3 DEF OneClaimIn, SymbolsIn

LEMMA ClaimKept == Spec => []ClaimInv
<1>1. Init => ClaimInv
  <2>1. OneClaimIn(EmptyBook)
    BY DEF OneClaimIn, EmptyBook, SymbolsIn
  <2> QED
    BY <2>1, TypeInit DEF ClaimInv, Init, TraderInit, Idle, Books
<1>2. ClaimInv /\ [Next]_vars => ClaimInv'
  <2> SUFFICES ASSUME ClaimInv, [Next]_vars, NEW b \in Books'
               PROVE  OneClaimIn(b)
    BY TypeStep DEF ClaimInv
  <2>1. Books \subseteq BookType /\ Stored \subseteq Days /\ book \in Books
    BY BooksTyped DEF ClaimInv, TypeInv, TypeOK, Books
  <2>2. ASSUME NEW F \in SUBSET book.pending, NEW d \in Stored, NEW closed
        PROVE  OneClaimIn(Filled(book, F, d, closed))
    BY <2>1, FilledClaim DEF ClaimInv
  <2>3. ASSUME NEW c \in Books, NEW d \in Stored
        PROVE  OneClaimIn(Placed(c, d))
    BY <2>1, PlacedClaim DEF ClaimInv
  <2> QED
    BY <2>2, <2>3, NextBooks DEF ClaimInv
<1> QED
  BY <1>1, <1>2, PTL DEF Spec

\* No symbol is ever claimed twice by orders and positions, however the
\* runners of a strategy overlap, die and overwrite each other.
THEOREM OneClaim == Spec => []OneClaimPerSymbol
<1>1. ClaimInv => OneClaimPerSymbol
  BY DEF ClaimInv, Books, OneClaimPerSymbol
<1> QED
  BY <1>1, ClaimKept, PTL

-----------------------------------------------------------------------------
(* The reconstructed label                                                   *)

\* The label is only given together with dates on record, no plan has it, and
\* what a runner is about to write holds what is on record.
LabelInv ==
  /\ TypeInv
  /\ status.label = "reconstructed" => status.replayed # {}
  /\ \A r \in Runners :
       /\ run[r].label # "reconstructed"
       /\ run[r].pc = "label" => status.replayed \subseteq run[r].replayed

LEMMA LabelStep ==
  ASSUME NEW r, Runners = {r}, LabelInv, [Next]_vars
  PROVE  LabelInv' /\ StaysReconstructed
<1>1. TypeInv' /\ run \in [Runners -> RunType]
  BY TypeStep DEF LabelInv, TypeInv, TypeOK
<1>2. Plan.label # "reconstructed"
  BY DEF Plan
<1>3. status' = status => StaysReconstructed
  BY DEF StaysReconstructed
<1>4. ASSUME UNCHANGED status, run'[r].label # "reconstructed",
             run'[r].pc = "label" => status.replayed \subseteq run'[r].replayed
      PROVE  LabelInv' /\ StaysReconstructed
  BY <1>1, <1>3, <1>4 DEF LabelInv
<1>5. ASSUME NEW l, l # "reconstructed", NEW R, BeginWrite(r, l, R), UNCHANGED status
      PROVE  LabelInv' /\ StaysReconstructed
  <2>1. run'[r].label = l /\ run'[r].replayed = status.replayed \cup R
    BY <1>1, <1>5 DEF BeginWrite, Idle
  <2> QED
    BY <1>4, <1>5, <2>1
<1>6. CASE Start(r)
  <2>1. CASE Valid(Plan.label)
    <3>1. run'[r].label = Plan.label /\ run'[r].pc = "next" /\ UNCHANGED status
      BY <1>1, <1>6, <2>1 DEF Start
    <3> QED
      BY <1>2, <1>4, <3>1
  <2>2. CASE ~Valid(Plan.label)
    BY <1>2, <1>5, <1>6, <2>2 DEF Start
  <2> QED
    BY <2>1, <2>2
<1>7. CASE TraderRuns(r)
  <2>1. run[r] \in RunType /\ TraderStep(r) /\ UNCHANGED status
    BY <1>1, <1>7 DEF TraderRuns
  <2>2. run'[r].label = run[r].label /\ run'[r].pc # "label"
    <3>1. ASSUME NEW pc \in {"processed", "placed", "saved"}, NEW c,
                 run' = [run EXCEPT ![r].pc = pc, ![r].copy = c]
          PROVE  run'[r].label = run[r].label /\ run'[r].pc # "label"
      BY <1>1, <2>1, <3>1 DEF RunType
    <3>2. CASE Process(r)
      BY <3>1, <3>2 DEF Process
    <3>3. CASE Place(r)
      <4>1. run'[r].label = run[r].label
        BY <1>1, <3>3 DEF Place, RunType
      <4>2. run'[r].pc = "placed"
        BY <1>1, <3>3 DEF Place, RunType
      <4> QED
        BY <4>1, <4>2
    <3>4. CASE Save(r)
      BY <1>1, <2>1, <3>4 DEF Save, RunType
    <3>5. CASE Report(r)
      <4> DEFINE d == Date(r)
      <4>1. run' = [run EXCEPT ![r].pc = "next", ![r].todo = @ \ {d}, ![r].copy = EmptyBook]
        BY <3>5 DEF Report
      <4> HIDE DEF d
      <4> QED
        BY <1>1, <2>1, <4>1 DEF RunType
    <3> QED
      BY <2>1, <3>2, <3>3, <3>4, <3>5 DEF TraderStep
  <2> QED
    BY <1>4, <2>1, <2>2 DEF LabelInv
<1>8. CASE GateFails(r) \/ TraderDies(r)
  BY <1>5, <1>8 DEF GateFails, TraderDies, GiveUp, LabelInv
<1>9. CASE Finish(r)
  BY <1>2, <1>5, <1>9 DEF Finish
<1>10. CASE RunnerDies(r)
  BY <1>1, <1>4, <1>10 DEF RunnerDies, Idle
<1>11. CASE WriteContinuity(r)
  <2>1. /\ status.replayed \subseteq run[r].replayed /\ run[r].label # "reconstructed"
        /\ status' = [label |-> IF run[r].replayed # {} /\ run[r].label = "healthy"
                                THEN "reconstructed" ELSE run[r].label,
                      replayed |-> run[r].replayed]
        /\ run'[r].label = "none" /\ run'[r].pc = "idle"
    BY <1>1, <1>11 DEF WriteContinuity, LabelInv, Idle
  <2>2. StaysReconstructed
    BY <2>1 DEF StaysReconstructed, LabelInv
  <2> QED
    BY <1>1, <2>1, <2>2 DEF LabelInv
<1>12. CASE StoreSession \/ UNCHANGED vars
  <2>1. UNCHANGED <<run, status>>
    BY <1>12 DEF StoreSession, Store, vars
  <2> QED
    BY <1>4, <2>1 DEF LabelInv
<1> QED
  BY <1>6, <1>7, <1>8, <1>9, <1>10, <1>11, <1>12 DEF Next

\* With one runner, dates on record as replayed are never forgotten and an
\* epoch labelled reconstructed is never relabelled healthy, wherever the
\* runner dies: what it read of the record is still there when it writes.
THEOREM Reconstructed ==
  ASSUME NEW r, Runners = {r}
  PROVE  Spec => ReconstructedForGood
<1>1. Init => LabelInv
  BY TypeInit DEF LabelInv, Init, TraderInit, Idle
<1>2. LabelInv /\ [Next]_vars => LabelInv' /\ [StaysReconstructed]_vars
  BY LabelStep
<1> QED
  BY <1>1, <1>2, PTL DEF Spec, ReconstructedForGood

-----------------------------------------------------------------------------
(* Slots                                                                     *)

SlotInv ==
  /\ TypeInv
  /\ \A b \in Books : IsFiniteSet(b.pending) /\ IsFiniteSet(b.open) /\ SlotsIn(b)

LEMMA ImageOf ==
  ASSUME NEW S, IsFiniteSet(S), NEW f, DOMAIN f = S, NEW T, T = {f[x] : x \in S}
  PROVE  /\ IsFiniteSet(T) /\ Cardinality(T) <= Cardinality(S)
         /\ Cardinality(T) \in Nat /\ Cardinality(S) \in Nat
<1> DEFINE g == [x \in S |-> f[x]]
<1>1. g \in Surjection(S, T)
  BY DEF Surjection
<1> QED
  BY <1>1, FS_Surjection, FS_CardinalityType

\* Every position held after the fills was held before or was an order.
LEMMA FilledSlots ==
  ASSUME NEW b \in BookType, NEW F \in SUBSET b.pending, NEW d, NEW closed,
         IsFiniteSet(b.pending), IsFiniteSet(b.open), SlotsIn(b)
  PROVE  LET c == Filled(b, F, d, closed)
         IN  IsFiniteSet(c.pending) /\ IsFiniteSet(c.open) /\ SlotsIn(c)
<1> DEFINE opened == Opened(F, d)
           before == b.open \cup opened
           held   == {Aged(p, d) : p \in before}
           rest   == b.pending \ F
           c      == Filled(b, F, d, closed)
<1>1. IsFiniteSet(F) /\ IsFiniteSet(rest) /\ IsFiniteSet(F \cup rest)
  BY FS_Subset, FS_Union
<1>2. Cardinality(F) \in Nat /\ Cardinality(rest) \in Nat /\ Cardinality(b.open) \in Nat
  BY <1>1, FS_CardinalityType
<1>3. Cardinality(b.pending) = Cardinality(F) + Cardinality(rest)
  <2>1. F \cup rest = b.pending /\ F \cap rest = {}
    OBVIOUS
  <2>2. Cardinality(F \cup rest) = Cardinality(F) + Cardinality(rest) - Cardinality(F \cap rest)
    <3> HIDE DEF rest
    <3> QED
      BY <1>1, FS_Union
  <2> QED
    BY <2>1, <2>2, <1>2, FS_EmptySet
<1>4. IsFiniteSet(opened) /\ Cardinality(opened) <= Cardinality(F) /\ Cardinality(opened) \in Nat
  <2> DEFINE f == [o \in F |-> [sym |-> o.sym, sig |-> o.sig, entered |-> d, bars |-> 0]]
  <2>1. opened = {f[o] : o \in F} /\ DOMAIN f = F
    BY DEF Opened
  <2> HIDE DEF f, opened
  <2> QED
    BY <2>1, <1>1, ImageOf
<1>5. /\ IsFiniteSet(before) /\ Cardinality(before) \in Nat
      /\ Cardinality(before) <= Cardinality(b.open) + Cardinality(opened)
  <2> HIDE DEF opened
  <2>1. IsFiniteSet(before) /\ IsFiniteSet(b.open \cap opened)
    BY <1>4, FS_Union, FS_Subset
  <2>2. Cardinality(before) \in Nat /\ Cardinality(b.open \cap opened) \in Nat
    BY <2>1, FS_CardinalityType
  <2>3. Cardinality(before) = Cardinality(b.open) + Cardinality(opened) - Cardinality(b.open \cap opened)
    BY <1>4, FS_Union
  <2> QED
    BY <2>1, <2>2, <2>3, <1>2, <1>4
<1>6. IsFiniteSet(held) /\ Cardinality(held) <= Cardinality(before) /\ Cardinality(held) \in Nat
  <2> DEFINE f == [p \in before |-> Aged(p, d)]
  <2>1. held = {f[p] : p \in before} /\ DOMAIN f = before
    OBVIOUS
  <2> HIDE DEF f, held, before
  <2> QED
    BY <2>1, <1>5, ImageOf
<1>7. c.pending = rest /\ c.open \subseteq held
  BY DEF Filled
<1> HIDE DEF opened, before, held, rest, c
<1>8. /\ IsFiniteSet(c.open) /\ Cardinality(c.open) <= Cardinality(held)
      /\ Cardinality(c.open) \in Nat
  BY <1>6, <1>7, FS_Subset, FS_CardinalityType
<1>9. Cardinality(c.pending) + Cardinality(c.open) <= MaxSlots
  BY <1>2, <1>3, <1>4, <1>5, <1>6, <1>7, <1>8, TraderAssumption DEF SlotsIn
<1>10. IsFiniteSet(c.pending) /\ IsFiniteSet(c.open) /\ SlotsIn(c)
  BY <1>1, <1>7, <1>8, <1>9 DEF SlotsIn
<1> QED
  BY <1>10 DEF c

\* No more orders are placed than slots are left.
LEMMA NewBounded ==
  ASSUME TypeInv, NEW b, NEW d \in Stored,
         Cardinality(b.pending) \in Nat, Cardinality(b.open) \in Nat
  PROVE  /\ IsFiniteSet(New(b, d)) /\ Cardinality(New(b, d)) \in Nat
         /\ Cardinality(New(b, d)) <= SlotsLeft(b)
<1> DEFINE ranked == sessions[d].signals
           n == SlotsLeft(b)
           best == {j \in DOMAIN ranked : j <= n}
           picked == Selected(b, d)
           free == picked \ Claimed(b)
<1>1. n \in Nat
  BY TraderAssumption DEF SlotsLeft
<1>2. DOMAIN ranked \subseteq Nat \ {0}
  <2>1. sessions[d] \in SessionData
    BY DEF TypeInv, TypeOK, Range, Stored
  <2> QED
    BY <2>1, TraderAssumption
<1>3. IsFiniteSet(best) /\ Cardinality(best) <= n /\ Cardinality(best) \in Nat
  <2> HIDE DEF n, ranked
  <2>1. best \subseteq 1..n
    BY <1>1, <1>2
  <2>2. IsFiniteSet(1..n) /\ Cardinality(1..n) = n
    <3>1. 1 \in Int /\ n \in Int
      BY <1>1
    <3>2. IsFiniteSet(1..n) /\ Cardinality(1..n) = IF 1 > n THEN 0 ELSE n - 1 + 1
      BY <3>1, FS_Interval
    <3> QED
      BY <1>1, <3>2
  <2> QED
    BY <2>1, <2>2, FS_Subset, FS_CardinalityType
<1>4. IsFiniteSet(picked) /\ Cardinality(picked) <= Cardinality(best) /\ Cardinality(picked) \in Nat
  <2> DEFINE f == [j \in best |-> ranked[j]]
  <2>1. picked = {f[j] : j \in best} /\ DOMAIN f = best
    BY DEF Selected
  <2> HIDE DEF f, picked, best
  <2> QED
    BY <2>1, <1>3, ImageOf
<1>5. IsFiniteSet(free) /\ Cardinality(free) <= Cardinality(picked) /\ Cardinality(free) \in Nat
  <2> HIDE DEF picked
  <2> QED
    BY <1>4, FS_Subset, FS_CardinalityType
<1>6. /\ IsFiniteSet(New(b, d)) /\ Cardinality(New(b, d)) <= Cardinality(free)
      /\ Cardinality(New(b, d)) \in Nat
  <2> DEFINE f == [s \in free |-> [sym |-> s, sig |-> d]]
  <2>1. New(b, d) = {f[s] : s \in free} /\ DOMAIN f = free
    BY DEF New
  <2> HIDE DEF f, free
  <2> QED
    BY <2>1, <1>5, ImageOf
<1> HIDE DEF n, best, picked, free
<1> QED
  BY <1>1, <1>3, <1>4, <1>5, <1>6 DEF n

LEMMA PlacedSlots ==
  ASSUME TypeInv, NEW b \in BookType, NEW d \in Stored,
         IsFiniteSet(b.pending), IsFiniteSet(b.open), SlotsIn(b)
  PROVE  LET c == Placed(b, d)
         IN  IsFiniteSet(c.pending) /\ IsFiniteSet(c.open) /\ SlotsIn(c)
<1> DEFINE c == Placed(b, d)
           new == New(b, d)
<1>1. Cardinality(b.pending) \in Nat /\ Cardinality(b.open) \in Nat
  BY FS_CardinalityType
<1>2. IsFiniteSet(new) /\ Cardinality(new) \in Nat /\ Cardinality(new) <= SlotsLeft(b)
  BY <1>1, NewBounded
<1>3. c.pending = b.pending \cup new /\ c.open = b.open
  BY DEF Placed, BookType
<1> HIDE DEF c, new
<1>4. IsFiniteSet(c.pending) /\ IsFiniteSet(b.pending \cap new)
  BY <1>2, <1>3, FS_Union, FS_Subset
<1>5. Cardinality(c.pending) = Cardinality(b.pending) + Cardinality(new) - Cardinality(b.pending \cap new)
  BY <1>2, <1>3, FS_Union
<1>6. Cardinality(c.pending) \in Nat /\ Cardinality(b.pending \cap new) \in Nat
  BY <1>4, FS_CardinalityType
<1>7. SlotsIn(c)
  BY <1>1, <1>2, <1>3, <1>5, <1>6, TraderAssumption DEF SlotsIn, SlotsLeft
<1>8. IsFiniteSet(c.pending) /\ IsFiniteSet(c.open) /\ SlotsIn(c)
  BY <1>3, <1>4, <1>7
<1> QED
  BY <1>8 DEF c

LEMMA SlotsKept == Spec => []SlotInv
<1>1. Init => SlotInv
  <2>1. IsFiniteSet(EmptyBook.pending) /\ IsFiniteSet(EmptyBook.open) /\ SlotsIn(EmptyBook)
    BY FS_EmptySet, TraderAssumption DEF EmptyBook, SlotsIn
  <2> QED
    BY <2>1, TypeInit DEF SlotInv, Init, TraderInit, Idle, Books
<1>2. SlotInv /\ [Next]_vars => SlotInv'
  <2> SUFFICES ASSUME SlotInv, [Next]_vars, NEW b \in Books'
               PROVE  IsFiniteSet(b.pending) /\ IsFiniteSet(b.open) /\ SlotsIn(b)
    BY TypeStep DEF SlotInv
  <2>1. Books \subseteq BookType /\ book \in Books
    BY BooksTyped DEF SlotInv, Books
  <2>2. ASSUME NEW F \in SUBSET book.pending, NEW d \in Stored, NEW closed, b = Filled(book, F, d, closed)
        PROVE  IsFiniteSet(b.pending) /\ IsFiniteSet(b.open) /\ SlotsIn(b)
    BY <2>1, <2>2, FilledSlots DEF SlotInv
  <2>3. ASSUME NEW c \in Books, NEW d \in Stored, b = Placed(c, d)
        PROVE  IsFiniteSet(b.pending) /\ IsFiniteSet(b.open) /\ SlotsIn(b)
    BY <2>1, <2>3, PlacedSlots DEF SlotInv
  <2> QED
    BY <2>2, <2>3, NextBooks DEF SlotInv
<1> QED
  BY <1>1, <1>2, PTL DEF Spec

\* Orders and positions together never take more than MAX_SLOTS, in the file
\* and in every trader's copy of it.
THEOREM Slots == Spec => []SlotsBounded
<1>1. SlotInv => SlotsBounded
  BY DEF SlotInv, Books, SlotsBounded
<1> QED
  BY <1>1, SlotsKept, PTL

-----------------------------------------------------------------------------
(* Dates in order, with one runner                                           *)

\* What the runner has still to do is later than all that is reported.
OrderInv ==
  /\ TypeInv /\ ReportsAscend
  /\ \A r \in Runners : \A d \in run[r].todo, i \in DOMAIN report : report[i] < d

LEMMA PlanLater ==
  ASSUME TypeInv, Stored # {}, NEW d \in Plan.dates, NEW i \in DOMAIN report
  PROVE  report[i] < d
<1>1. Reported \in SUBSET Days /\ report[i] \in Reported /\ d \in Days /\ Days \subseteq Nat
  BY ReportedTyped, PlanTyped, TraderAssumption DEF TypeInv, TypeOK, Reported, Range
<1>2. Max(Reported) \in Days /\ report[i] <= Max(Reported)
  BY <1>1, MaxDate
<1>3. report # <<>>
  OBVIOUS
<1>4. d \in Stored /\ d \notin Reported /\ ~(d < Max(Reported))
  BY <1>3 DEF Plan, Trailing, Interior, Missing
<1>5. d # Max(Reported)
  BY <1>1, <1>4, MaxDate
<1>6. d \in Nat /\ Max(Reported) \in Nat /\ report[i] \in Nat
  BY <1>1, <1>2
<1> QED
  BY <1>2, <1>4, <1>5, <1>6

LEMMA ReportLater ==
  ASSUME OrderInv, TypeInv', NEW r \in Runners, Runners = {r}, Report(r)
  PROVE  OrderInv'
<1>1. run[r].todo # {}
  BY DEF Report, OrderInv, TypeInv, Dated
<1>2. run[r].todo \subseteq Days /\ Days \subseteq Nat /\ report \in Seq(Days)
  BY TraderAssumption DEF OrderInv, TypeInv, TypeOK, RunType
<1> DEFINE d == Date(r)
<1>3. d \in Days /\ d \in run[r].todo /\ \A e \in run[r].todo : d <= e
  BY <1>1, DateTyped DEF OrderInv, TypeInv
<1>4. report' = Append(report, d) /\ run' = [run EXCEPT ![r].pc = "next", ![r].todo = @ \ {d}, ![r].copy = EmptyBook]
  BY DEF Report
<1> HIDE DEF d
<1>5. run'[r].todo = run[r].todo \ {d}
  BY <1>4 DEF OrderInv, TypeInv, TypeOK, RunType
<1>6. /\ DOMAIN report' = 1..(Len(report) + 1) /\ Len(report) \in Nat /\ DOMAIN report = 1..Len(report)
      /\ report'[Len(report) + 1] = d /\ \A i \in DOMAIN report : report'[i] = report[i]
  BY <1>2, <1>3, <1>4
<1>7. \A i \in DOMAIN report : report[i] < d /\ report[i] \in Nat
  <2> TAKE i \in DOMAIN report
  <2>1. report[i] \in Days
    BY <1>2
  <2> QED
    BY <2>1, <1>2, <1>3 DEF OrderInv
<1>8. ReportsAscend'
  <2> SUFFICES ASSUME NEW i \in DOMAIN report', NEW j \in DOMAIN report', i < j
               PROVE  report'[i] < report'[j]
    BY DEF ReportsAscend
  <2>1. i \in DOMAIN report
    BY <1>6
  <2>2. CASE j \in DOMAIN report
    BY <1>6, <2>1, <2>2 DEF OrderInv, ReportsAscend
  <2>3. CASE j = Len(report) + 1
    BY <1>6, <1>7, <2>1, <2>3
  <2> QED
    BY <1>6, <2>2, <2>3
<1>9. \A e \in run'[r].todo : e \in Nat /\ d < e
  <2> TAKE e \in run'[r].todo
  <2>1. e \in Nat /\ d \in Nat /\ d <= e /\ e # d
    BY <1>2, <1>3, <1>5
  <2> QED
    BY <2>1
<1>10. \A e \in run'[r].todo, i \in DOMAIN report' : report'[i] < e
  <2> SUFFICES ASSUME NEW e \in run'[r].todo, NEW i \in DOMAIN report'
               PROVE  report'[i] < e
    OBVIOUS
  <2>1. CASE i = Len(report) + 1
    BY <1>6, <1>9, <2>1
  <2>2. CASE i \in DOMAIN report
    BY <1>5, <1>6, <2>2 DEF OrderInv
  <2> QED
    BY <1>6, <2>1, <2>2
<1> QED
  BY <1>8, <1>10 DEF OrderInv

LEMMA OrderStep ==
  ASSUME NEW r, Runners = {r}, OrderInv, [Next]_vars
  PROVE  OrderInv'
<1>1. TypeInv' /\ run \in [Runners -> RunType]
  BY TypeStep DEF OrderInv, TypeInv, TypeOK
<1>2. ASSUME UNCHANGED report, run'[r].todo \subseteq run[r].todo
      PROVE  OrderInv'
  BY <1>1, <1>2 DEF OrderInv, ReportsAscend
<1>6. ASSUME \/ Start(r) /\ ~Valid(Plan.label)
             \/ Finish(r) \/ WriteContinuity(r) \/ GateFails(r) \/ TraderDies(r) \/ RunnerDies(r)
      PROVE  OrderInv'
  <2>1. PICK rec \in RunType : Rested(rec) /\ run' = [run EXCEPT ![r] = rec]
    BY <1>6, RestSteps DEF OrderInv
  <2>2. run'[r].todo = {}
    BY <1>1, <2>1 DEF Rested
  <2>3. UNCHANGED report
    BY <1>6, RestSteps DEF OrderInv, files
  <2> QED
    BY <1>2, <2>2, <2>3
<1>3. CASE Start(r)
  <2>1. CASE Valid(Plan.label)
    <3>1. run'[r].todo = Plan.dates /\ UNCHANGED report /\ Stored # {}
      BY <1>1, <1>3, <2>1 DEF Start, files
    <3>2. \A d \in run'[r].todo, i \in DOMAIN report' : report'[i] < d
      BY <3>1, PlanLater DEF OrderInv
    <3> QED
      BY <1>1, <3>1, <3>2 DEF OrderInv, ReportsAscend
  <2>2. CASE ~Valid(Plan.label)
    BY <1>3, <1>6, <2>2
  <2> QED
    BY <2>1, <2>2
<1>4. CASE Process(r) \/ Place(r) \/ Save(r)
  <2>1. CASE Process(r)
    BY <1>1, <1>2, <2>1 DEF Process, RunType
  <2>2. CASE Place(r)
    BY <1>1, <1>2, <2>2 DEF Place, files, RunType
  <2>3. CASE Save(r)
    BY <1>1, <1>2, <2>3 DEF Save, RunType
  <2> QED
    BY <1>4, <2>1, <2>2, <2>3
<1>5. CASE Report(r)
  BY <1>1, <1>5, ReportLater
<1>7. CASE StoreSession
  BY <1>2, <1>7 DEF StoreSession, Store, files
<1>8. CASE UNCHANGED vars
  BY <1>2, <1>8 DEF vars, files
<1> QED
  BY <1>3, <1>4, <1>5, <1>6, <1>7, <1>8 DEF Next, TraderRuns, TraderStep

\* With one runner the sessions are reported in their order and once each,
\* whatever is stored late and wherever the runner dies.
THEOREM InOrder ==
  ASSUME NEW r, Runners = {r}
  PROVE  Spec => []ReportsAscend
<1>1. Init => OrderInv
  BY TypeInit DEF OrderInv, Init, TraderInit, Idle, ReportsAscend
<1>2. OrderInv /\ [Next]_vars => OrderInv'
  BY OrderStep
<1>3. OrderInv => ReportsAscend
  BY DEF OrderInv
<1> QED
  BY <1>1, <1>2, <1>3, PTL DEF Spec

-----------------------------------------------------------------------------
(* The steps of a lone runner and its trader                                 *)

LEMMA DaysFinite == \A D \in SUBSET Days : IsFiniteSet(D)
<1>1. PICK n \in Days : \A d \in Days : d <= n
  BY TraderAssumption
<1>2. Days \subseteq 0..n
  BY <1>1, TraderAssumption
<1>3. IsFiniteSet(0..n)
  BY TraderAssumption, FS_Interval
<1> QED
  BY <1>2, <1>3, FS_Subset

\* What the trader of r does to its copy, and that it stays at its date.
Closing(F, d) == {p \in {Aged(q, d) : q \in book.open \cup Opened(F, d)} : MustClose(p, d)}

LEMMA ProcessForm ==
  ASSUME TypeInv, NEW r \in Runners, Process(r)
  PROVE  /\ run[r].pc = "next" /\ run'[r].pc = "processed" /\ Date(r)' = Date(r)
         /\ \E F \in SUBSET Fillable(book, Date(r)) :
              /\ run'[r].copy = Filled(book, F, Date(r), Closing(F, Date(r)))
              /\ trades' = trades (+) SetToBag({TradeRow(p, Date(r)) : p \in Closing(F, Date(r))})
         /\ UNCHANGED <<sessions, book, report>>
<1>1. run \in [Runners -> RunType]
  BY DEF TypeInv, TypeOK
<1> DEFINE d == Date(r)
<1>2. PICK F \in SUBSET Fillable(book, d) :
        /\ trades' = trades (+) SetToBag({TradeRow(p, d) : p \in Closing(F, d)})
        /\ run' = [run EXCEPT ![r].pc = "processed",
                              ![r].copy = Filled(book, F, d, Closing(F, d))]
  BY DEF Process, Filled, Closing
<1> HIDE DEF d
<1>3. /\ run'[r].pc = "processed" /\ run'[r].todo = run[r].todo
      /\ run'[r].copy = Filled(book, F, d, Closing(F, d))
  BY <1>1, <1>2 DEF RunType
<1>4. Date(r)' = Date(r)
  BY <1>3 DEF Date
<1>5. run[r].pc = "next" /\ UNCHANGED <<sessions, book, report>>
  BY DEF Process
<1>6. \E G \in SUBSET Fillable(book, d) :
        /\ run'[r].copy = Filled(book, G, d, Closing(G, d))
        /\ trades' = trades (+) SetToBag({TradeRow(p, d) : p \in Closing(G, d)})
  BY <1>2, <1>3
<1> QED
  BY <1>3, <1>4, <1>5, <1>6 DEF d

LEMMA PlaceForm ==
  ASSUME TypeInv, NEW r \in Runners, Place(r)
  PROVE  /\ run[r].pc = "processed" /\ run'[r].pc = "placed" /\ Date(r)' = Date(r)
         /\ run'[r].copy = Placed(run[r].copy, Date(r))
         /\ UNCHANGED <<sessions, files>>
<1>1. run \in [Runners -> RunType]
  BY DEF TypeInv, TypeOK
<1> DEFINE d == Date(r)
<1>2. /\ run' = [run EXCEPT ![r].pc = "placed", ![r].copy = Placed(run[r].copy, d)]
      /\ run[r].pc = "processed" /\ UNCHANGED <<sessions, files>>
  BY <1>1 DEF Place, Placed, New, RunType, BookType
<1> HIDE DEF d
<1>3. /\ run'[r].pc = "placed" /\ run'[r].todo = run[r].todo
      /\ run'[r].copy = Placed(run[r].copy, d)
  BY <1>1, <1>2 DEF RunType
<1> QED
  BY <1>2, <1>3 DEF Date, d

LEMMA SaveForm ==
  ASSUME TypeInv, NEW r \in Runners, Save(r)
  PROVE  /\ run[r].pc = "placed" /\ run'[r].pc = "saved" /\ Date(r)' = Date(r)
         /\ AlwaysSaves => book' = run[r].copy
         /\ UNCHANGED <<sessions, trades, report>>
<1>1. run \in [Runners -> RunType]
  BY DEF TypeInv, TypeOK
<1>2. run'[r].pc = "saved" /\ run'[r].todo = run[r].todo
  BY <1>1 DEF Save, RunType
<1> QED
  BY <1>2 DEF Save, Date

Done(r) == Reported \cup {Date(r)}

LEMMA ReportForm ==
  ASSUME TypeInv, NEW r \in Runners, Report(r)
  PROVE  /\ run[r].pc = "saved" /\ run'[r].pc = "next" /\ Reported' = Done(r)
         /\ UNCHANGED <<sessions, book, trades>>
<1>1. /\ run \in [Runners -> RunType] /\ report \in Seq(Days)
      /\ Date(r) \in Days /\ report' = Append(report, Date(r))
  BY DateTyped DEF TypeInv, TypeOK, Dated, Report
<1>2. run'[r].pc = "next"
  BY <1>1 DEF Report, RunType
<1>3. Reported' = Reported \cup {Date(r)}
  BY <1>1 DEF Reported, Range
<1> QED
  BY <1>2, <1>3 DEF Report, Done

\* Every other step leaves the store and the files alone, and ends a trader
\* only if it dies.
LEMMA RunnerSteps ==
  ASSUME NEW r, Runners = {r}, TypeInv, [Next]_vars
  PROVE  \/ TraderStep(r) \/ StoreSession
         \/ /\ UNCHANGED <<sessions, files>>
            /\ \/ UNCHANGED run
               \/ /\ run'[r].pc \in Resting
                  /\ MaxDeaths = 0 => run[r].pc \in Resting
<1>1. run \in [Runners -> RunType] /\ deaths \in 0..MaxDeaths
  BY DEF TypeInv, TypeOK
<1>2. CASE Start(r) /\ Valid(Plan.label)
  BY <1>1, <1>2 DEF Start
<1>3. CASE \/ Start(r) /\ ~Valid(Plan.label)
           \/ Finish(r) \/ WriteContinuity(r) \/ GateFails(r) \/ TraderDies(r) \/ RunnerDies(r)
  <2>1. PICK rec \in RunType : Rested(rec) /\ run' = [run EXCEPT ![r] = rec]
    BY <1>3, RestSteps
  <2>2. run'[r].pc \in Resting
    BY <1>1, <2>1 DEF Rested
  <2>3. UNCHANGED <<sessions, files>>
    BY <1>3, RestSteps
  <2>4. MaxDeaths = 0 => run[r].pc \in Resting
    BY <1>1, <1>3 DEF Start, Finish, WriteContinuity, GateFails, TraderDies, RunnerDies, Die
  <2> QED
    BY <2>2, <2>3, <2>4
<1>5. CASE UNCHANGED vars
  BY <1>5 DEF vars
<1> QED
  BY <1>2, <1>3, <1>5 DEF Next, TraderRuns

\* A trader works on a stored date that is later than all that is reported.
LEMMA WorkingLater ==
  ASSUME OrderInv, NEW r \in Runners, run[r].todo # {}
  PROVE  /\ Date(r) \in Stored /\ Date(r) \in Days
         /\ \A e \in Reported : e < Date(r)
<1>1. Date(r) \in run[r].todo /\ Date(r) \in Days
  BY DateTyped DEF OrderInv, TypeInv
<1> QED
  BY <1>1 DEF OrderInv, TypeInv, Dated, Reported, Range

-----------------------------------------------------------------------------
(* The time exit                                                             *)

\* The sessions of market m with a candle that a position has been through,
\* among dates D.
Passed(m, p, D) == {d \in D : d >= p.entered /\ p.sym \in m[d].candles}
Count(m, p, D) == Cardinality(Passed(m, p, D))

\* Every session among D that a position of b went through has aged it, and
\* not to the limit.
AgedFor(m, b, D) == \A p \in b.open : p.bars < MaxBars /\ Count(m, p, D) <= p.bars

\* While a trader works on a date its copy has been aged for that date as
\* well, and from the save on so has the book; the date of a trader that dies
\* is gone through again and ages the positions twice, never too little.
TimeInv ==
  /\ OrderInv /\ Reported \subseteq Stored
  /\ AgedFor(sessions, book, Reported)
  /\ \A r \in Runners :
       /\ run[r].pc \in {"processed", "placed"} => AgedFor(sessions, run[r].copy, Done(r))
       /\ run[r].pc = "saved" => AgedFor(sessions, book, Done(r))

LEMMA CountTyped ==
  ASSUME NEW m, NEW p, NEW D \in SUBSET Days, NEW E \in SUBSET D
  PROVE  Count(m, p, D) \in Nat /\ Count(m, p, E) \in Nat /\ Count(m, p, E) <= Count(m, p, D)
<1>1. IsFiniteSet(Passed(m, p, D)) /\ IsFiniteSet(Passed(m, p, E))
  BY DaysFinite DEF Passed
<1>2. Passed(m, p, E) \subseteq Passed(m, p, D)
  BY DEF Passed
<1> QED
  BY <1>1, <1>2, FS_Subset, FS_CardinalityType DEF Count

\* One more date counts once, if the position has a candle on it.
LEMMA CountGrows ==
  ASSUME NEW m, NEW p, NEW D \in SUBSET Days, NEW d \in Days, d \notin D
  PROVE  Count(m, p, D \cup {d}) =
           Count(m, p, D) + (IF d >= p.entered /\ p.sym \in m[d].candles THEN 1 ELSE 0)
<1>1. IsFiniteSet(Passed(m, p, D)) /\ d \notin Passed(m, p, D)
  BY DaysFinite DEF Passed
<1>2. Count(m, p, D) \in Nat
  BY <1>1, FS_CardinalityType DEF Count
<1>3. CASE d >= p.entered /\ p.sym \in m[d].candles
  <2>1. Passed(m, p, D \cup {d}) = Passed(m, p, D) \cup {d}
    BY <1>3 DEF Passed
  <2> QED
    BY <1>1, <1>2, <1>3, <2>1, FS_AddElement DEF Count
<1>4. CASE ~(d >= p.entered /\ p.sym \in m[d].candles)
  <2>1. Passed(m, p, D \cup {d}) = Passed(m, p, D)
    BY <1>4 DEF Passed
  <2> QED
    BY <1>2, <1>4, <2>1 DEF Count
<1> QED
  BY <1>3, <1>4

\* A later session changes nothing about the dates stored before.
LEMMA CountKept ==
  ASSUME NEW m, NEW n, NEW D, \A d \in D : n[d] = m[d], NEW p
  PROVE  Count(n, p, D) = Count(m, p, D)
<1>1. Passed(n, p, D) = Passed(m, p, D)
  BY DEF Passed
<1> QED
  BY <1>1 DEF Count

LEMMA StoreKeeps ==
  ASSUME StoreSession
  PROVE  /\ Stored \subseteq Stored' /\ \A d \in Stored : sessions'[d] = sessions[d]
         /\ UNCHANGED <<files, run>>
BY DEF StoreSession, Store, Stored

\* What fills and exits make of a position that stays: it has been aged if
\* the date has a candle for it, and not to the limit.
LEMMA KeptPosition ==
  ASSUME NEW b \in BookType, NEW d \in Days, NEW F \in SUBSET Fillable(b, d),
         NEW x \in Filled(b, F, d, {p \in {Aged(q, d) : q \in b.open \cup Opened(F, d)} : MustClose(p, d)}).open
  PROVE  \E q \in b.open \cup Opened(F, d) :
           /\ x = Aged(q, d) /\ q \in PositionType
           /\ x.sym = q.sym /\ x.sig = q.sig /\ x.entered = q.entered
           /\ Candle(d, q.sym) => x.bars = q.bars + 1 /\ x.bars < MaxBars
           /\ ~Candle(d, q.sym) => x.bars = q.bars /\ q \in b.open
<1>1. PICK q \in b.open \cup Opened(F, d) : x = Aged(q, d) /\ ~MustClose(x, d)
  BY DEF Filled
<1>2. /\ F \in SUBSET OrderType /\ b.open \in SUBSET PositionType
      /\ \A o \in F : Candle(d, o.sym)
  BY DEF Fillable, BookType
<1>3. q \in PositionType
  BY <1>1, <1>2, OpenedTyped
<1>4. q \in Opened(F, d) => Candle(d, q.sym)
  BY <1>2 DEF Opened
<1>5. x.sym = q.sym /\ x.sig = q.sig /\ x.entered = q.entered
  BY <1>1, <1>3 DEF Aged, PositionType
<1>6. CASE Candle(d, q.sym)
  <2>1. x.bars = q.bars + 1 /\ q.bars \in Nat
    BY <1>1, <1>3, <1>6 DEF Aged, PositionType
  <2>2. ~(x.bars >= MaxBars)
    BY <1>1, <1>5, <1>6 DEF MustClose
  <2>3. x.bars < MaxBars
    BY <2>1, <2>2, TraderAssumption
  <2> QED
    BY <1>1, <1>3, <1>5, <1>6, <2>1, <2>3
<1>7. CASE ~Candle(d, q.sym)
  BY <1>1, <1>3, <1>4, <1>5, <1>7 DEF Aged
<1> QED
  BY <1>6, <1>7

LEMMA ProcessAges ==
  ASSUME TypeInv, NEW d \in Days, \A e \in Reported : e < d,
         NEW F \in SUBSET Fillable(book, d), AgedFor(sessions, book, Reported)
  PROVE  AgedFor(sessions, Filled(book, F, d, Closing(F, d)), Reported \cup {d})
<1> SUFFICES ASSUME NEW x \in Filled(book, F, d, Closing(F, d)).open
             PROVE  x.bars < MaxBars /\ Count(sessions, x, Reported \cup {d}) <= x.bars
  BY DEF AgedFor
<1>1. book \in BookType /\ Reported \in SUBSET Days /\ Days \subseteq Nat
  BY ReportedTyped, TraderAssumption DEF TypeInv, TypeOK
<1>2. PICK q \in book.open \cup Opened(F, d) :
        /\ q \in PositionType
        /\ x.sym = q.sym /\ x.entered = q.entered
        /\ Candle(d, q.sym) => x.bars = q.bars + 1 /\ x.bars < MaxBars
        /\ ~Candle(d, q.sym) => x.bars = q.bars /\ q \in book.open
  BY <1>1, KeptPosition DEF Closing
<1>3. q.bars \in Nat
  BY <1>2 DEF PositionType
<1>4. Count(sessions, x, Reported) \in Nat /\ d \notin Reported
  BY <1>1, CountTyped
<1>5. Count(sessions, x, Reported) = Count(sessions, q, Reported)
  BY <1>2 DEF Count, Passed
<1>6. Count(sessions, q, Reported) <= q.bars
  <2>1. CASE q \in book.open
    BY <2>1 DEF AgedFor
  <2>2. CASE q \in Opened(F, d)
    <3>1. q.entered = d
      BY <2>2 DEF Opened
    <3>2. \A e \in Reported : ~(e >= d)
      <4> SUFFICES ASSUME NEW e \in Reported PROVE ~(e >= d)
        OBVIOUS
      <4>1. e \in Nat /\ d \in Nat /\ e < d
        BY <1>1
      <4> QED
        BY <4>1
    <3>3. Passed(sessions, q, Reported) = {}
      BY <3>1, <3>2 DEF Passed
    <3> QED
      BY <1>3, <3>3, FS_EmptySet DEF Count
  <2> QED
    BY <2>1, <2>2
<1>7. CASE Candle(d, q.sym)
  <2>1. Count(sessions, x, Reported \cup {d}) <= Count(sessions, x, Reported) + 1
    BY <1>1, <1>4, CountGrows
  <2>2. Count(sessions, x, Reported \cup {d}) \in Nat
    BY <1>1, CountTyped
  <2> QED
    BY <1>2, <1>3, <1>4, <1>5, <1>6, <1>7, <2>1, <2>2
<1>8. CASE ~Candle(d, q.sym)
  <2>1. x.sym \notin sessions[d].candles
    BY <1>2, <1>8 DEF Candle
  <2>2. Count(sessions, x, Reported \cup {d}) = Count(sessions, x, Reported)
    BY <1>1, <1>4, <2>1, CountGrows
  <2>3. q.bars < MaxBars
    BY <1>2, <1>8 DEF AgedFor
  <2> QED
    BY <1>2, <1>5, <1>6, <1>8, <2>2, <2>3
<1> QED
  BY <1>7, <1>8

LEMMA AgedForLess ==
  ASSUME NEW m, NEW b \in BookType, NEW D \in SUBSET Days, NEW E \in SUBSET D, AgedFor(m, b, D)
  PROVE  AgedFor(m, b, E)
<1> SUFFICES ASSUME NEW p \in b.open PROVE p.bars < MaxBars /\ Count(m, p, E) <= p.bars
  BY DEF AgedFor
<1>1. p.bars \in Nat
  BY DEF BookType, PositionType
<1>2. p.bars < MaxBars /\ Count(m, p, D) <= p.bars
  BY DEF AgedFor
<1>3. Count(m, p, D) \in Nat /\ Count(m, p, E) \in Nat /\ Count(m, p, E) <= Count(m, p, D)
  BY CountTyped
<1> QED
  BY <1>1, <1>2, <1>3

LEMMA TimeStep ==
  ASSUME NEW r, Runners = {r}, AlwaysSaves, TimeInv, [Next]_vars
  PROVE  TimeInv'
<1>1. OrderInv' /\ TypeInv /\ TypeInv'
  BY OrderStep DEF TimeInv, OrderInv
<1>2. Reported \in SUBSET Days /\ book \in BookType /\ run[r].copy \in BookType
  BY <1>1, ReportedTyped DEF TypeInv, TypeOK, RunType
<1>3. run[r].pc \notin Resting => run[r].todo # {}
  BY <1>1 DEF TypeInv, Dated
<1>4. run[r].todo # {} => Done(r) \in SUBSET Stored /\ Done(r) \in SUBSET Days
  BY <1>2, WorkingLater DEF TimeInv, Done
<1>5. CASE Process(r)
  <2>1. run[r].todo # {}
    BY <1>5 DEF Process
  <2>2. PICK F \in SUBSET Fillable(book, Date(r)) :
          run'[r].copy = Filled(book, F, Date(r), Closing(F, Date(r)))
    BY <1>1, <1>5, ProcessForm
  <2>3. AgedFor(sessions, run'[r].copy, Done(r))
    BY <1>1, <2>1, <2>2, WorkingLater, ProcessAges DEF TimeInv, Done
  <2>4. run'[r].pc = "processed" /\ Date(r)' = Date(r) /\ UNCHANGED <<sessions, book, report>>
    BY <1>1, <1>5, ProcessForm
  <2>5. Done(r)' = Done(r) /\ Reported' = Reported
    BY <2>4 DEF Done, Reported
  <2> QED
    BY <1>1, <2>3, <2>4, <2>5 DEF TimeInv, Stored
<1>6. CASE Place(r)
  <2>1. /\ run[r].pc = "processed" /\ run'[r].pc = "placed" /\ Date(r)' = Date(r)
        /\ run'[r].copy.open = run[r].copy.open /\ UNCHANGED <<sessions, files>>
    BY <1>1, <1>2, <1>6, PlaceForm DEF Placed, BookType
  <2>2. Done(r)' = Done(r) /\ Reported' = Reported
    BY <2>1 DEF Done, Reported, files
  <2>3. AgedFor(sessions, run'[r].copy, Done(r))
    BY <2>1 DEF TimeInv, AgedFor
  <2> QED
    BY <1>1, <2>1, <2>2, <2>3 DEF TimeInv, Stored, files
<1>7. CASE Save(r)
  <2>1. /\ run[r].pc = "placed" /\ run'[r].pc = "saved" /\ Date(r)' = Date(r)
        /\ book' = run[r].copy /\ UNCHANGED <<sessions, report>>
    BY <1>1, <1>7, SaveForm
  <2>2. Done(r)' = Done(r) /\ Reported' = Reported
    BY <2>1 DEF Done, Reported
  <2>3. AgedFor(sessions, book', Done(r)) /\ Reported \in SUBSET Done(r)
    BY <2>1 DEF TimeInv, Done
  <2>4. AgedFor(sessions, book', Reported)
    BY <1>2, <1>3, <1>4, <2>1, <2>3, AgedForLess
  <2> QED
    BY <1>1, <2>1, <2>2, <2>3, <2>4 DEF TimeInv, Stored
<1>8. CASE Report(r)
  <2>1. /\ run[r].pc = "saved" /\ run'[r].pc = "next" /\ Reported' = Done(r)
        /\ UNCHANGED <<sessions, book>>
    BY <1>1, <1>8, ReportForm
  <2> QED
    BY <1>1, <1>3, <1>4, <2>1 DEF TimeInv, Stored
<1>9. CASE StoreSession
  <2>1. /\ Stored \subseteq Stored' /\ \A d \in Stored : sessions'[d] = sessions[d]
        /\ UNCHANGED <<files, run>>
    BY <1>9, StoreKeeps
  <2>2. ASSUME NEW b, NEW D \in SUBSET Stored, AgedFor(sessions, b, D)
        PROVE  AgedFor(sessions', b, D)
    <3>1. \A p : Count(sessions', p, D) = Count(sessions, p, D)
      BY <2>1, CountKept
    <3> QED
      BY <2>2, <3>1 DEF AgedFor
  <2>3. Done(r)' = Done(r) /\ Reported' = Reported /\ UNCHANGED <<book, run>>
    BY <2>1 DEF Done, Reported, Date, files
  <2>4. AgedFor(sessions', book, Reported)
    BY <2>2 DEF TimeInv
  <2>5. run[r].pc \in {"processed", "placed"} => AgedFor(sessions', run[r].copy, Done(r))
    BY <1>3, <1>4, <2>2 DEF TimeInv
  <2>6. run[r].pc = "saved" => AgedFor(sessions', book, Done(r))
    BY <1>3, <1>4, <2>2 DEF TimeInv
  <2> QED
    BY <1>1, <2>1, <2>3, <2>4, <2>5, <2>6 DEF TimeInv
<1>10. ASSUME UNCHANGED <<sessions, files>>, run'[r].pc \in Resting \/ UNCHANGED run
       PROVE  TimeInv'
  <2>1. Reported' = Reported /\ Stored' = Stored /\ book' = book
    BY <1>10 DEF Reported, Stored, files
  <2>2. UNCHANGED run => Done(r)' = Done(r)
    BY <2>1 DEF Done, Date
  <2> QED
    BY <1>1, <1>10, <2>1, <2>2 DEF TimeInv
<1> QED
  BY <1>1, <1>5, <1>6, <1>7, <1>8, <1>9, <1>10, RunnerSteps DEF TraderStep

\* With one runner, and a book that is saved on every date, no position is
\* held through more than MAX_HOLD_BARS sessions, wherever the trader dies.
THEOREM TimeExit ==
  ASSUME NEW r, Runners = {r}, AlwaysSaves
  PROVE  Spec => []TimeExitKept
<1>1. Init => TimeInv
  <2> SUFFICES ASSUME Init PROVE TimeInv
    OBVIOUS
  <2>1. OrderInv
    BY TypeInit DEF OrderInv, Init, TraderInit, Idle, ReportsAscend
  <2>2. book.open = {} /\ Reported = {} /\ \A q \in Runners : run[q].pc = "idle"
    BY DEF Init, TraderInit, EmptyBook, Idle, Reported, Range
  <2> QED
    BY <2>1, <2>2 DEF TimeInv, AgedFor
<1>2. TimeInv /\ [Next]_vars => TimeInv'
  BY TimeStep
<1>3. TimeInv => TimeExitKept
  <2> SUFFICES ASSUME TimeInv, NEW p \in book.open PROVE SessionsHeld(p) < MaxBars
    BY DEF TimeExitKept
  <2>1. p.bars \in Nat /\ Reported \in SUBSET Days
    BY ReportedTyped DEF TimeInv, OrderInv, TypeInv, TypeOK, BookType, PositionType
  <2>2. Count(sessions, p, Reported) <= p.bars /\ p.bars < MaxBars
    BY DEF TimeInv, AgedFor
  <2>3. Count(sessions, p, Reported) \in Nat /\ SessionsHeld(p) = Count(sessions, p, Reported)
    BY <2>1, CountTyped DEF SessionsHeld, Candle, Count, Passed
  <2> QED
    BY <2>1, <2>2, <2>3, TraderAssumption
<1> QED
  BY <1>1, <1>2, <1>3, PTL DEF Spec

-----------------------------------------------------------------------------
(* Once per session, with nobody dying                                       *)

SameOrder(x, y) == x.sym = y.sym /\ x.sig = y.sig
Rows == BagToSet(trades)

\* b is the outcome of the dates D: what it holds was signalled on one of
\* them and entered on a later one, and has been aged no more than once for
\* each.
OutcomeOf(m, b, D) ==
  /\ \A p \in b.open : /\ p.bars <= Count(m, p, D)
                       /\ p.entered \in D /\ p.sig \in D /\ p.sig < p.entered
  /\ \A o \in b.pending : o.sig \in D
\* What is traded is not in b.
NoneTraded(R, b) == \A row \in R : \A x \in b.pending \cup b.open : ~SameOrder(x, row)

\* How the copy c that a trader of date d has worked out follows from the
\* book b, when the ledger has rows R.
Follows(c, b, R, d) ==
  /\ \A x \in b.pending \cup b.open :
       \/ x \in b.pending \cap c.pending
       \/ \E y \in c.open : SameOrder(y, x)
       \/ \E row \in R : SameOrder(row, x)
  /\ \A y \in c.open : \E x \in b.pending \cup b.open : SameOrder(x, y)
  /\ \A y \in c.pending : y \in b.pending \/ y.sig = d

CleanInv ==
  /\ OrderInv /\ Reported \subseteq Stored
  /\ \A row \in Rows : /\ trades[row] = 1 /\ row.sig < row.exited
                       /\ row.exited \in Reported \cup Working
  /\ \A r \in Runners :
       /\ run[r].pc \in Resting => OutcomeOf(sessions, book, Reported) /\ NoneTraded(Rows, book)
       /\ run[r].pc \in {"processed", "placed"} =>
            /\ OutcomeOf(sessions, book, Reported) /\ Follows(run[r].copy, book, Rows, Date(r))
            /\ OutcomeOf(sessions, run[r].copy, Done(r)) /\ NoneTraded(Rows, run[r].copy)
       /\ run[r].pc = "saved" => OutcomeOf(sessions, book, Done(r)) /\ NoneTraded(Rows, book)

LEMMA WorkingIs ==
  ASSUME NEW r, Runners = {r}
  PROVE  Working = IF run[r].pc \in Resting THEN {} ELSE {Date(r)}
BY DEF Working

LEMMA AgedIs ==
  ASSUME NEW b \in BookType, NEW d \in Days, NEW F \in SUBSET b.pending,
         NEW q \in b.open \cup Opened(F, d)
  PROVE  /\ q \in PositionType /\ Aged(q, d).sym = q.sym /\ Aged(q, d).sig = q.sig
         /\ Aged(q, d).entered = q.entered
         /\ q \in Opened(F, d) => /\ q.entered = d /\ q.bars = 0
                                  /\ \E o \in F : SameOrder(o, q)
<1>1. F \in SUBSET OrderType /\ b.open \in SUBSET PositionType
  BY DEF BookType
<1>2. q \in PositionType
  BY <1>1, OpenedTyped
<1>3. q \in Opened(F, d) => q.entered = d /\ q.bars = 0 /\ \E o \in F : SameOrder(o, q)
  BY DEF Opened, SameOrder
<1> QED
  BY <1>2, <1>3 DEF Aged, PositionType

\* Fills and exits of date d turn an outcome of the dates before it into one
\* of these dates and d.
LEMMA ProcessOutcome ==
  ASSUME TypeInv, NEW d \in Days, \A e \in Reported : e < d,
         NEW F \in SUBSET Fillable(book, d), OutcomeOf(sessions, book, Reported)
  PROVE  OutcomeOf(sessions, Filled(book, F, d, Closing(F, d)), Reported \cup {d})
<1> DEFINE c == Filled(book, F, d, Closing(F, d))
<1>1. /\ book \in BookType /\ Reported \in SUBSET Days /\ Days \subseteq Nat
      /\ d \notin Reported /\ F \in SUBSET book.pending
  BY ReportedTyped, TraderAssumption DEF TypeInv, TypeOK, Fillable
<1>2. \A e \in Reported : e \in Nat /\ e <= d /\ d >= e
  BY <1>1
<1>3. ASSUME NEW x \in c.open
      PROVE  /\ x.bars <= Count(sessions, x, Reported \cup {d})
             /\ x.entered \in Reported \cup {d} /\ x.sig \in Reported /\ x.sig < x.entered
  <2>1. PICK q \in book.open \cup Opened(F, d) :
          /\ q \in PositionType
          /\ x.sym = q.sym /\ x.sig = q.sig /\ x.entered = q.entered
          /\ Candle(d, q.sym) => x.bars = q.bars + 1
          /\ ~Candle(d, q.sym) => x.bars = q.bars /\ q \in book.open
    BY <1>1, KeptPosition DEF Closing
  <2>2. CASE q \in book.open
    <3>1. /\ q.bars <= Count(sessions, q, Reported) /\ q.entered \in Reported
          /\ q.sig \in Reported /\ q.sig < q.entered
      BY <2>2 DEF OutcomeOf
    <3>2. Count(sessions, q, Reported) \in Nat /\ q.bars \in Nat
      BY <1>1, <2>1, CountTyped DEF PositionType
    <3>3. Count(sessions, x, Reported \cup {d}) = Count(sessions, q, Reported \cup {d})
      BY <2>1 DEF Count, Passed
    <3>4. Count(sessions, q, Reported \cup {d}) =
            Count(sessions, q, Reported) + (IF Candle(d, q.sym) THEN 1 ELSE 0)
      BY <1>1, <1>2, <3>1, CountGrows DEF Candle
    <3> QED
      BY <2>1, <3>1, <3>2, <3>3, <3>4
  <2>3. CASE q \in Opened(F, d)
    <3>1. q.entered = d /\ q.bars = 0 /\ \E o \in F : SameOrder(o, q)
      BY <1>1, <2>3, AgedIs
    <3>2. q.sig \in Reported
      BY <1>1, <3>1 DEF OutcomeOf, SameOrder
    <3>3. Count(sessions, x, Reported) \in Nat
      BY <1>1, CountTyped
    <3>4. d >= d
      BY <1>1
    <3>5. Count(sessions, x, Reported \cup {d}) =
            Count(sessions, x, Reported) + (IF Candle(d, q.sym) THEN 1 ELSE 0)
      BY <1>1, <2>1, <3>1, <3>4, CountGrows DEF Candle
    <3>6. x.bars <= Count(sessions, x, Reported \cup {d})
      BY <2>1, <3>1, <3>3, <3>5
    <3> QED
      BY <2>1, <3>1, <3>2, <3>6
  <2> QED
    BY <2>2, <2>3
<1>4. \A o \in c.pending : o.sig \in Reported
  BY <1>1 DEF Filled, OutcomeOf
<1> HIDE DEF c
<1>5. OutcomeOf(sessions, c, Reported \cup {d})
  BY <1>3, <1>4 DEF OutcomeOf
<1> QED
  BY <1>5 DEF c

\* The ledger rows of the exits: each closes an order of the book that is not
\* in the copy any more, and everything else is still there.
LEMMA ProcessFollows ==
  ASSUME TypeInv, OneClaimIn(book), NEW d \in Days, NEW F \in SUBSET Fillable(book, d),
         NEW R, NoneTraded(R, book), NEW C, C = {TradeRow(p, d) : p \in Closing(F, d)}
  PROVE  /\ Follows(Filled(book, F, d, Closing(F, d)), book, R \cup C, d)
         /\ NoneTraded(R \cup C, Filled(book, F, d, Closing(F, d)))
         /\ \A row \in C : row.exited = d /\ \E x \in book.pending \cup book.open : SameOrder(x, row)
<1> DEFINE H == {Aged(q, d) : q \in book.open \cup Opened(F, d)}
           c == Filled(book, F, d, Closing(F, d))
           all == Filled(book, F, d, {})
<1>1. book \in BookType /\ F \in SUBSET book.pending
  BY DEF TypeInv, TypeOK, Fillable
<1>2. \A x \in H : \E y \in book.pending \cup book.open : SameOrder(y, x)
  <2> SUFFICES ASSUME NEW q \in book.open \cup Opened(F, d)
               PROVE  \E y \in book.pending \cup book.open : SameOrder(y, Aged(q, d))
    OBVIOUS
  <2>1. Aged(q, d).sym = q.sym /\ Aged(q, d).sig = q.sig
    BY <1>1, AgedIs
  <2>2. q \in book.open \/ \E o \in F : SameOrder(o, q)
    BY <1>1, AgedIs
  <2> QED
    BY <1>1, <2>1, <2>2 DEF SameOrder
<1>3. \A p \in book.open : \E x \in H : SameOrder(x, p)
  <2> TAKE p \in book.open
  <2>1. Aged(p, d) \in H /\ Aged(p, d).sym = p.sym /\ Aged(p, d).sig = p.sig
    BY <1>1, AgedIs
  <2> QED
    BY <2>1 DEF SameOrder
<1>4. \A o \in F : \E x \in H : SameOrder(x, o)
  <2> TAKE o \in F
  <2> DEFINE q == [sym |-> o.sym, sig |-> o.sig, entered |-> d, bars |-> 0]
  <2>1. q \in Opened(F, d) /\ SameOrder(q, o)
    BY DEF Opened, SameOrder
  <2>2. Aged(q, d) \in H /\ Aged(q, d).sym = q.sym /\ Aged(q, d).sig = q.sig
    BY <1>1, <2>1, AgedIs
  <2> QED
    BY <2>1, <2>2 DEF SameOrder
<1>5. c.pending = book.pending \ F /\ c.open = H \ Closing(F, d)
  BY DEF Filled
<1>6. /\ \A x, y \in H : x.sym = y.sym => x = y
      /\ \A x \in c.pending, y \in H : x.sym # y.sym
  <2>1. OneClaimIn(all)
    BY <1>1, FilledClaim
  <2>2. all.pending = book.pending \ F /\ all.open = H
    BY DEF Filled
  <2> HIDE DEF all, H, c
  <2> QED
    BY <1>5, <2>1, <2>2 DEF OneClaimIn, SymbolsIn
<1>7. Closing(F, d) \subseteq H
  BY DEF Closing
<1>8. \A row \in C : \E p \in Closing(F, d) : SameOrder(row, p) /\ row.exited = d
  BY DEF TradeRow, SameOrder
<1>9. \A p \in Closing(F, d) : \E row \in C : SameOrder(row, p)
  <2> TAKE p \in Closing(F, d)
  <2>1. TradeRow(p, d) \in C /\ SameOrder(TradeRow(p, d), p)
    BY DEF TradeRow, SameOrder
  <2> QED
    BY <2>1
<1> HIDE DEF H, c
<1>10. \A row \in C : row.exited = d /\ \E x \in book.pending \cup book.open : SameOrder(x, row)
  BY <1>2, <1>7, <1>8 DEF SameOrder
<1>11. NoneTraded(R \cup C, c)
  <2> SUFFICES ASSUME NEW row \in R \cup C, NEW x \in c.pending \cup c.open, SameOrder(x, row)
               PROVE  FALSE
    BY DEF NoneTraded
  <2>1. CASE row \in C
    <3>1. PICK p \in Closing(F, d) : row.sym = p.sym
      BY <2>1, <1>8 DEF SameOrder
    <3> QED
      BY <3>1, <1>5, <1>6, <1>7 DEF SameOrder
  <2>2. CASE row \in R
    <3>1. \E y \in book.pending \cup book.open : SameOrder(y, x)
      BY <1>2, <1>5 DEF SameOrder
    <3> QED
      BY <2>2, <3>1 DEF NoneTraded, SameOrder
  <2> QED
    BY <2>1, <2>2
<1>12. Follows(c, book, R \cup C, d)
  <2>1. ASSUME NEW x \in book.pending \cup book.open
        PROVE  \/ x \in book.pending \cap c.pending
               \/ \E y \in c.open : SameOrder(y, x)
               \/ \E row \in R \cup C : SameOrder(row, x)
    <3>1. x \in book.pending \cap c.pending \/ \E y \in H : SameOrder(y, x)
      BY <1>3, <1>4, <1>5
    <3>2. \A y \in H : y \in c.open \/ \E row \in C : SameOrder(row, y)
      BY <1>5, <1>9
    <3> QED
      BY <3>1, <3>2 DEF SameOrder
  <2>2. \A y \in c.open : \E x \in book.pending \cup book.open : SameOrder(x, y)
    BY <1>2, <1>5
  <2>3. \A y \in c.pending : y \in book.pending
    BY <1>5
  <2> QED
    BY <2>1, <2>2, <2>3 DEF Follows
<1> QED
  BY <1>10, <1>11, <1>12 DEF c

\* New orders are signalled on the date itself, later than all that is traded.
LEMMA PlaceOutcome ==
  ASSUME NEW m, NEW c \in BookType, NEW b, NEW D, NEW d, NEW R, d \in D,
         OutcomeOf(m, c, D), Follows(c, b, R, d), NoneTraded(R, c), \A row \in R : row.sig # d
  PROVE  /\ OutcomeOf(m, Placed(c, d), D) /\ Follows(Placed(c, d), b, R, d)
         /\ NoneTraded(R, Placed(c, d))
<1> DEFINE k == Placed(c, d)
<1>1. k.pending = c.pending \cup New(c, d) /\ k.open = c.open
  BY DEF Placed, BookType
<1>2. \A y \in New(c, d) : y.sig = d
  BY DEF New
<1> HIDE DEF k
<1>3. OutcomeOf(m, k, D)
  BY <1>1, <1>2 DEF OutcomeOf
<1>4. Follows(k, b, R, d)
  BY <1>1, <1>2 DEF Follows
<1>5. NoneTraded(R, k)
  BY <1>1, <1>2 DEF NoneTraded, SameOrder
<1> QED
  BY <1>3, <1>4, <1>5 DEF k

\* A ledger that gains one row each for C, none of them there before.
LEMMA RowsAdded ==
  ASSUME NEW C, trades' = trades (+) SetToBag(C), C \cap Rows = {},
         \A row \in Rows : trades[row] = 1
  PROVE  Rows' = Rows \cup C /\ \A row \in Rows' : trades'[row] = 1
<1>1. Rows' = Rows \cup C
  BY DEF Rows, BagToSet, SetToBag, (+)
<1>2. ASSUME NEW row \in Rows' PROVE trades'[row] = 1
  <2>1. CASE row \in C
    BY <1>1, <2>1 DEF Rows, BagToSet, SetToBag, (+)
  <2>2. CASE row \notin C
    BY <1>1, <1>2, <2>2 DEF Rows, BagToSet, SetToBag, (+)
  <2> QED
    BY <2>1, <2>2
<1> QED
  BY <1>1, <1>2

LEMMA ProcessClean ==
  ASSUME NEW r, Runners = {r}, CleanInv, OrderInv', ClaimInv, Process(r)
  PROVE  CleanInv'
<1> DEFINE d == Date(r)
<1>1. /\ run[r].pc = "next" /\ run[r].todo # {} /\ TypeInv
      /\ Reported \in SUBSET Days /\ Days \subseteq Nat
  BY ReportedTyped, TraderAssumption DEF Process, CleanInv, OrderInv, TypeInv
<1>2. d \in Days /\ \A e \in Reported : e < d
  BY <1>1, WorkingLater DEF CleanInv
<1>3. Working = {} /\ OutcomeOf(sessions, book, Reported) /\ NoneTraded(Rows, book)
  BY <1>1, WorkingIs DEF CleanInv
<1>4. PICK F \in SUBSET Fillable(book, d) :
        /\ run'[r].copy = Filled(book, F, d, Closing(F, d))
        /\ trades' = trades (+) SetToBag({TradeRow(p, d) : p \in Closing(F, d)})
  BY <1>1, ProcessForm
<1>5. /\ run'[r].pc = "processed" /\ Date(r)' = d /\ UNCHANGED <<sessions, book, report>>
  BY <1>1, ProcessForm
<1> DEFINE C == {TradeRow(p, d) : p \in Closing(F, d)}
           c == Filled(book, F, d, Closing(F, d))
<1>6. trades' = trades (+) SetToBag(C)
  BY <1>4
<1>7. run'[r].copy = c
  BY <1>4
<1>8. OutcomeOf(sessions, c, Reported \cup {d})
  BY <1>1, <1>2, <1>3, ProcessOutcome
<1>9. OneClaimIn(book)
  BY DEF ClaimInv, Books
<1>10. /\ Follows(c, book, Rows \cup C, d) /\ NoneTraded(Rows \cup C, c)
       /\ \A row \in C : row.exited = d /\ \E x \in book.pending \cup book.open : SameOrder(x, row)
  <2>1. C = {TradeRow(p, d) : p \in Closing(F, d)}
    OBVIOUS
  <2> HIDE DEF C, d
  <2> QED
    BY <1>1, <1>2, <1>3, <1>9, <2>1, ProcessFollows
<1> HIDE DEF d, C, c
<1>11. d \notin Reported
  BY <1>1, <1>2
<1>12. C \cap Rows = {}
  BY <1>3, <1>10, <1>11 DEF CleanInv
<1>13. Rows' = Rows \cup C /\ \A row \in Rows' : trades'[row] = 1
  BY <1>6, <1>12, RowsAdded DEF CleanInv
<1>14. \A x \in book.pending \cup book.open : x.sig \in Reported
  BY <1>3 DEF OutcomeOf
<1>15. \A row \in C : row.sig < row.exited
  BY <1>2, <1>10, <1>14 DEF SameOrder
<1>16. Working' = {d}
  BY <1>5, WorkingIs DEF Working
<1>17. Reported' = Reported /\ Done(r)' = Reported \cup {d} /\ Stored' = Stored
  BY <1>5 DEF Reported, Done, Stored
<1>18. \A row \in Rows' : /\ trades'[row] = 1 /\ row.sig < row.exited
                          /\ row.exited \in Reported' \cup Working'
  BY <1>3, <1>10, <1>13, <1>15, <1>16, <1>17 DEF CleanInv
<1> QED
  BY <1>3, <1>5, <1>7, <1>8, <1>10, <1>13, <1>17, <1>18 DEF CleanInv

LEMMA CleanStep ==
  ASSUME NEW r, Runners = {r}, AlwaysSaves, MaxDeaths = 0, CleanInv, ClaimInv, [Next]_vars
  PROVE  CleanInv'
<1>1. OrderInv' /\ TypeInv /\ TypeInv'
  BY OrderStep DEF CleanInv, OrderInv
<1>2. Reported \in SUBSET Days /\ run[r].copy \in BookType /\ Days \subseteq Nat
  BY <1>1, ReportedTyped, TraderAssumption DEF TypeInv, TypeOK, RunType
<1>3. run[r].pc \notin Resting => run[r].todo # {}
  BY <1>1 DEF TypeInv, Dated
<1>4. run[r].todo # {} => /\ Done(r) \in SUBSET Stored /\ Done(r) \in SUBSET Days
                          /\ Date(r) \in Days /\ \A e \in Reported : e < Date(r)
  BY <1>2, WorkingLater DEF CleanInv, Done
<1>5. CASE Process(r)
  BY <1>1, <1>5, ProcessClean
<1>6. CASE Place(r)
  <2>1. /\ run[r].pc = "processed" /\ run'[r].pc = "placed" /\ Date(r)' = Date(r)
        /\ run'[r].copy = Placed(run[r].copy, Date(r)) /\ UNCHANGED <<sessions, files>>
    BY <1>1, <1>6, PlaceForm
  <2>2. /\ Done(r)' = Done(r) /\ Reported' = Reported /\ Rows' = Rows /\ Stored' = Stored
        /\ Working' = Working /\ Date(r) \in Done(r)
    BY <2>1, WorkingIs DEF Done, Reported, files, Rows, Stored, Working
  <2>3. \A row \in Rows : row.sig # Date(r)
    <3> SUFFICES ASSUME NEW row \in Rows, row.sig = Date(r) PROVE FALSE
      OBVIOUS
    <3>1. row.exited \in Reported \cup {Date(r)} /\ Date(r) < row.exited
      BY <2>1, WorkingIs DEF CleanInv
    <3>2. Date(r) \in Nat /\ \A e \in Reported : e \in Nat /\ e < Date(r)
      BY <1>2, <1>3, <1>4, <2>1
    <3> QED
      BY <3>1, <3>2
  <2>4. /\ OutcomeOf(sessions, run'[r].copy, Done(r))
        /\ Follows(run'[r].copy, book, Rows, Date(r)) /\ NoneTraded(Rows, run'[r].copy)
    BY <1>2, <2>1, <2>2, <2>3, PlaceOutcome DEF CleanInv
  <2> QED
    BY <1>1, <2>1, <2>2, <2>4 DEF CleanInv, files
<1>7. CASE Save(r)
  <2>1. /\ run[r].pc = "placed" /\ run'[r].pc = "saved" /\ Date(r)' = Date(r)
        /\ book' = run[r].copy /\ UNCHANGED <<sessions, trades, report>>
    BY <1>1, <1>7, SaveForm
  <2>2. /\ Done(r)' = Done(r) /\ Reported' = Reported /\ Rows' = Rows /\ Stored' = Stored
        /\ Working' = Working
    BY <2>1, WorkingIs DEF Done, Reported, Rows, Stored, Working
  <2> QED
    BY <1>1, <2>1, <2>2 DEF CleanInv
<1>8. CASE Report(r)
  <2>1. /\ run[r].pc = "saved" /\ run'[r].pc = "next" /\ Reported' = Done(r)
        /\ UNCHANGED <<sessions, book, trades>>
    BY <1>1, <1>8, ReportForm
  <2>2. Rows' = Rows /\ Stored' = Stored /\ Working = {Date(r)} /\ Working' = {}
    BY <2>1, WorkingIs DEF Rows, Stored, Working
  <2>3. Reported' \cup Working' = Reported \cup Working
    BY <2>1, <2>2 DEF Done
  <2> QED
    BY <1>1, <1>3, <1>4, <2>1, <2>2, <2>3 DEF CleanInv
<1>9. CASE StoreSession
  <2>1. /\ Stored \subseteq Stored' /\ \A d \in Stored : sessions'[d] = sessions[d]
        /\ UNCHANGED <<files, run>>
    BY <1>9, StoreKeeps
  <2>2. ASSUME NEW b, NEW D \in SUBSET Stored, OutcomeOf(sessions, b, D)
        PROVE  OutcomeOf(sessions', b, D)
    <3>1. \A p : Count(sessions', p, D) = Count(sessions, p, D)
      BY <2>1, CountKept
    <3> QED
      BY <2>2, <3>1 DEF OutcomeOf
  <2>3. /\ Done(r)' = Done(r) /\ Reported' = Reported /\ Rows' = Rows /\ Working' = Working
        /\ Date(r)' = Date(r) /\ UNCHANGED <<book, run, trades>>
    BY <2>1 DEF Done, Reported, Date, Rows, Working, files
  <2>4. OutcomeOf(sessions, book, Reported) => OutcomeOf(sessions', book, Reported)
    BY <2>2 DEF CleanInv
  <2>5. /\ run[r].pc \in {"processed", "placed"} => OutcomeOf(sessions', run[r].copy, Done(r))
        /\ run[r].pc = "saved" => OutcomeOf(sessions', book, Done(r))
    BY <1>3, <1>4, <2>2 DEF CleanInv
  <2> QED
    BY <1>1, <2>1, <2>3, <2>4, <2>5 DEF CleanInv
<1>10. ASSUME UNCHANGED <<sessions, files, run>>
       PROVE  CleanInv'
  <2>1. /\ Done(r)' = Done(r) /\ Reported' = Reported /\ Rows' = Rows /\ Working' = Working
        /\ Date(r)' = Date(r) /\ Stored' = Stored /\ UNCHANGED <<book, run, trades>>
    BY <1>10 DEF Done, Reported, Date, Rows, Working, Stored, files
  <2> QED
    BY <1>1, <1>10, <2>1 DEF CleanInv
<1>11. ASSUME UNCHANGED <<sessions, files>>, run'[r].pc \in Resting,
              run[r].pc \in Resting
       PROVE  CleanInv'
  <2>1. /\ Reported' = Reported /\ Rows' = Rows /\ Stored' = Stored /\ Working' = {} /\ Working = {}
        /\ UNCHANGED <<book, trades>>
    BY <1>11, WorkingIs DEF Reported, Rows, Working, Stored, files
  <2> QED
    BY <1>1, <1>11, <2>1 DEF CleanInv
<1> QED
  BY <1>1, <1>5, <1>6, <1>7, <1>8, <1>9, <1>10, <1>11, RunnerSteps DEF TraderStep

LEMMA CleanInit == Init => CleanInv
<1> SUFFICES ASSUME Init PROVE CleanInv
  OBVIOUS
<1>1. OrderInv
  BY TypeInit DEF OrderInv, Init, TraderInit, Idle, ReportsAscend
<1>2. /\ book.open = {} /\ book.pending = {} /\ Reported = {} /\ Rows = {}
      /\ \A r \in Runners : run[r].pc = "idle"
  BY DEF Init, TraderInit, EmptyBook, Idle, Reported, Range, Rows, BagToSet, EmptyBag, SetToBag
<1> QED
  BY <1>1, <1>2 DEF CleanInv, OutcomeOf, NoneTraded

LEMMA CleanKept ==
  ASSUME NEW r, Runners = {r}, AlwaysSaves, MaxDeaths = 0
  PROVE  Spec => []CleanInv
<1>1. CleanInv /\ ClaimInv /\ [Next]_vars => CleanInv'
  BY CleanStep
<1> QED
  BY <1>1, CleanInit, ClaimKept, PTL DEF Spec

\* With one runner, a book that is saved on every date and nobody dying, a
\* session ages a position once, fills it after its signal, and a closed
\* position has one ledger row and leaves the book.
THEOREM OncePer ==
  ASSUME NEW r, Runners = {r}, AlwaysSaves, MaxDeaths = 0
  PROVE  Spec => []OncePerSession
<1>1. CleanInv => OncePerSession
  <2> SUFFICES ASSUME CleanInv PROVE OncePerSession
    OBVIOUS
  <2>1. /\ TypeInv /\ Reported \in SUBSET Days /\ book \in BookType
        /\ run[r].pc \in Resting \cup {"processed", "placed", "saved"}
    BY ReportedTyped DEF CleanInv, OrderInv, TypeInv, TypeOK, RunType
  <2>2. Working \in SUBSET Days
    <3>1. run[r].pc \notin Resting => Date(r) \in Days
      BY <2>1, WorkingLater DEF CleanInv, TypeInv, Dated
    <3> QED
      BY <3>1, WorkingIs
  <2>3. \E D \in SUBSET (Reported \cup Working) : OutcomeOf(sessions, book, D)
    BY <2>1, WorkingIs DEF CleanInv, Done
  <2>4. AgedOncePerSession
    <3> SUFFICES ASSUME NEW p \in book.open
                 PROVE  p.bars <= Count(sessions, p, Reported \cup Working)
      BY DEF AgedOncePerSession, Count, Passed, Candle
    <3>1. PICK D \in SUBSET (Reported \cup Working) : OutcomeOf(sessions, book, D)
      BY <2>3
    <3>2. p.bars <= Count(sessions, p, D) /\ p.bars \in Nat
      BY <2>1, <3>1 DEF OutcomeOf, BookType, PositionType
    <3>3. /\ Count(sessions, p, D) <= Count(sessions, p, Reported \cup Working)
          /\ Count(sessions, p, D) \in Nat /\ Count(sessions, p, Reported \cup Working) \in Nat
      BY <2>1, <2>2, CountTyped
    <3> QED
      BY <3>2, <3>3
  <2>5. TradedOnce
    <3>1. Working = {} => NoneTraded(Rows, book)
      BY WorkingIs DEF CleanInv
    <3> QED
      BY <3>1 DEF TradedOnce, NoneTraded, Rows, CleanInv, SameOrder
  <2>6. EntryAfterSignal
    <3> SUFFICES ASSUME NEW p \in book.open PROVE p.entered > p.sig
      BY DEF EntryAfterSignal
    <3>1. p.sig < p.entered /\ p.sig \in Nat /\ p.entered \in Nat
      BY <2>1, <2>3, TraderAssumption DEF OutcomeOf, BookType, PositionType
    <3> QED
      BY <3>1
  <2> QED
    BY <2>4, <2>5, <2>6 DEF OncePerSession
<1> QED
  BY <1>1, CleanKept, PTL

-----------------------------------------------------------------------------
(* The trader implements OrderLifecycle                                      *)

OrderKeys == Symbols \X Days
RowOf(o) == [sym |-> o[1], sig |-> o[2]]
Moved(a, b) == a = b \/ <<a, b>> \in Lifecycle!Edges

LEMMA MovedEdges ==
  /\ \A a : Moved(a, a)
  /\ Moved("none", "pending") /\ Moved("pending", "open") /\ Moved("open", "closed")
  /\ Moved("pending", "closed")
BY DEF Moved, Lifecycle!Edges

\* The status in terms of whole orders.
LEMMA StatusIs ==
  ASSUME NEW o, NEW r, r = RowOf(o)
  PROVE  OrderStatus(o) =
           IF \E x \in book.pending : SameOrder(x, r) THEN "pending"
           ELSE IF \E p \in book.open : SameOrder(p, r) THEN "open"
           ELSE IF \E row \in Rows : SameOrder(row, r) THEN "closed"
           ELSE "none"
BY DEF OrderStatus, RowOf, SameOrder, Rows

\* The exits' ledger rows come before the save, and show only with it.
LEMMA ProcessEdges ==
  ASSUME NEW r \in Runners, TypeInv, TypeInv', Process(r), Rows \subseteq Rows',
         \A row \in Rows' \ Rows : \E x \in book.pending \cup book.open : SameOrder(x, row),
         NEW o
  PROVE  OrderStatus(o)' = OrderStatus(o)
<1>1. UNCHANGED book
  BY ProcessForm
<1>2. PICK k : k = RowOf(o)
  OBVIOUS
<1>3. OrderStatus(o) =
        IF \E x \in book.pending : SameOrder(x, k) THEN "pending"
        ELSE IF \E p \in book.open : SameOrder(p, k) THEN "open"
        ELSE IF \E row \in Rows : SameOrder(row, k) THEN "closed"
        ELSE "none"
  BY <1>2, StatusIs
<1>4. OrderStatus(o)' =
        IF \E x \in book.pending : SameOrder(x, k) THEN "pending"
        ELSE IF \E p \in book.open : SameOrder(p, k) THEN "open"
        ELSE IF \E row \in Rows' : SameOrder(row, k) THEN "closed"
        ELSE "none"
  BY <1>1, <1>2 DEF OrderStatus, RowOf, SameOrder, Rows
<1>5. ASSUME NEW row \in Rows' \ Rows, SameOrder(row, k)
      PROVE  \E x \in book.pending \cup book.open : SameOrder(x, k)
  BY <1>5 DEF SameOrder
<1> QED
  BY <1>3, <1>4, <1>5

\* The save shows all that the date has done to an order at once.
LEMMA SaveEdges ==
  ASSUME NEW r \in Runners, Runners = {r}, CleanInv, AlwaysSaves, Save(r), NEW o
  PROVE  Moved(OrderStatus(o), OrderStatus(o)')
<1> DEFINE c == run[r].copy
           d == Date(r)
<1>1. TypeInv /\ run[r].pc = "placed" /\ book' = c /\ UNCHANGED trades
  BY SaveForm DEF CleanInv, OrderInv
<1>2. /\ OutcomeOf(sessions, book, Reported) /\ Follows(c, book, Rows, d) /\ NoneTraded(Rows, c)
      /\ Working = {d} /\ d \in Days /\ \A e \in Reported : e < d
  BY <1>1, WorkingIs, WorkingLater DEF CleanInv, TypeInv, Dated
<1>3. /\ \A row \in Rows : row.sig < row.exited /\ row.exited \in Reported \cup {d}
      /\ Reported \in SUBSET Days /\ Days \subseteq Nat
  BY <1>1, <1>2, ReportedTyped, TraderAssumption DEF CleanInv, TypeInv
<1> HIDE DEF c, d
<1>4. PICK k : k = RowOf(o)
  OBVIOUS
<1>5. OrderStatus(o) =
        IF \E x \in book.pending : SameOrder(x, k) THEN "pending"
        ELSE IF \E p \in book.open : SameOrder(p, k) THEN "open"
        ELSE IF \E row \in Rows : SameOrder(row, k) THEN "closed"
        ELSE "none"
  BY <1>4, StatusIs
<1>6. OrderStatus(o)' =
        IF \E x \in c.pending : SameOrder(x, k) THEN "pending"
        ELSE IF \E p \in c.open : SameOrder(p, k) THEN "open"
        ELSE IF \E row \in Rows : SameOrder(row, k) THEN "closed"
        ELSE "none"
  BY <1>1, <1>4 DEF OrderStatus, RowOf, SameOrder, Rows
<1>7. CASE \E x \in book.pending : SameOrder(x, k)
  <2>1. PICK x \in book.pending : SameOrder(x, k)
    BY <1>7
  <2>2. x \in c.pending \/ (\E y \in c.open : SameOrder(y, k)) \/ (\E row \in Rows : SameOrder(row, k))
    BY <1>2, <2>1 DEF Follows, SameOrder
  <2> QED
    BY <1>5, <1>6, <1>7, <2>1, <2>2, MovedEdges
<1>8. CASE /\ \A x \in book.pending : ~SameOrder(x, k)
           /\ \E p \in book.open : SameOrder(p, k)
  <2>1. PICK p \in book.open : SameOrder(p, k)
    BY <1>8
  <2>2. (\E y \in c.open : SameOrder(y, k)) \/ (\E row \in Rows : SameOrder(row, k))
    <3>1. p \notin book.pending \cap c.pending
      BY <1>8, <2>1
    <3> QED
      BY <1>2, <2>1, <3>1 DEF Follows, SameOrder
  <2>3. k.sig < d
    BY <1>2, <2>1 DEF OutcomeOf, SameOrder
  <2>4. \A x \in c.pending : ~SameOrder(x, k)
    BY <1>2, <1>3, <1>8, <2>3 DEF Follows, SameOrder
  <2> QED
    BY <1>5, <1>6, <1>8, <2>2, <2>4, MovedEdges
<1>9. CASE \A x \in book.pending \cup book.open : ~SameOrder(x, k)
  <2>1. \A y \in c.open : ~SameOrder(y, k)
    BY <1>2, <1>9 DEF Follows, SameOrder
  <2>2. CASE \E x \in c.pending : SameOrder(x, k)
    <3>1. \A row \in Rows : ~SameOrder(row, k)
      BY <1>2, <2>2 DEF NoneTraded, SameOrder
    <3> QED
      BY <1>5, <1>6, <1>9, <2>2, <3>1, MovedEdges
  <2>3. CASE \A x \in c.pending : ~SameOrder(x, k)
    BY <1>5, <1>6, <1>9, <2>1, <2>3, MovedEdges
  <2> QED
    BY <2>2, <2>3
<1> QED
  BY <1>7, <1>8, <1>9

LEMMA SameCount == \A S : Lifecycle!Cardinality(S) = Cardinality(S)
BY DEF Lifecycle!Cardinality, Cardinality

\* When the live orders are among the orders P and the positions Q
\* of a book, their number and their symbols are within what the lifecycle allows.
LEMMA LiveOrders ==
  ASSUME NEW P, NEW Q, IsFiniteSet(P), IsFiniteSet(Q),
         Cardinality(P) + Cardinality(Q) <= MaxSlots,
         \A a, b \in P \cup Q : a.sym = b.sym => a = b,
         NEW st,
         \A o \in OrderKeys : st[o] \in {"pending", "open"} =>
            \E r \in P \cup Q : SameOrder(r, RowOf(o))
  PROVE  Lifecycle!Allowed(st)
<1> DEFINE L == {o \in OrderKeys : st[o] \in {"pending", "open"}}
           key == [r \in P \cup Q |-> <<r.sym, r.sig>>]
<1>1. \A o \in OrderKeys : o = <<o[1], o[2]>> /\ RowOf(o).sym = o[1] /\ RowOf(o).sig = o[2]
  BY DEF OrderKeys, RowOf
<1>2. ASSUME NEW o \in L PROVE \E r \in P \cup Q : key[r] = o /\ r.sym = o[1]
  <2>1. PICK r \in P \cup Q : SameOrder(r, RowOf(o))
    OBVIOUS
  <2>2. key[r] = <<o[1], o[2]>> /\ r.sym = o[1]
    BY <1>1, <2>1 DEF SameOrder
  <2> QED
    BY <1>1, <2>1, <2>2
<1>3. DOMAIN key = P \cup Q
  OBVIOUS
<1>4. Lifecycle!Live(st) = L
  BY DEF Lifecycle!Live, Lifecycle!Orders, OrderKeys
<1> HIDE DEF key, L
<1>5. Cardinality(L) <= MaxSlots
  <2>1. MaxSlots \in Nat
    BY TraderAssumption
  <2>2. \A o \in L : \E r \in P \cup Q : key[r] = o
    BY <1>2
  <2> QED
    BY <1>3, <2>1, <2>2, CoveredFinite
<1>6. \A o1, o2 \in L : o1[1] = o2[1] => o1 = o2
  BY <1>2
<1> QED
  BY <1>4, <1>5, <1>6, SameCount DEF Lifecycle!Allowed

LEMMA StatusEdges ==
  ASSUME NEW r, Runners = {r}, AlwaysSaves, MaxDeaths = 0,
         CleanInv, ClaimInv, CleanInv', [Next]_vars, NEW o
  PROVE  Moved(OrderStatus(o), OrderStatus(o)')
<1>1. TypeInv /\ TypeInv'
  BY DEF CleanInv, OrderInv
<1>2. CASE Process(r)
  <2>1. OneClaimIn(book) /\ run[r].pc = "next" /\ run[r].todo # {}
    BY <1>2 DEF ClaimInv, Books, Process
  <2>2. Date(r) \in Days /\ NoneTraded(Rows, book)
    BY <1>1, <2>1, DateTyped DEF CleanInv, TypeInv
  <2>3. PICK F \in SUBSET Fillable(book, Date(r)) :
          trades' = trades (+) SetToBag({TradeRow(p, Date(r)) : p \in Closing(F, Date(r))})
    BY <1>1, <1>2, ProcessForm
  <2> DEFINE C == {TradeRow(p, Date(r)) : p \in Closing(F, Date(r))}
  <2>4. Rows' = Rows \cup C
    BY <2>3 DEF Rows, BagToSet, SetToBag, (+)
  <2>5. \A row \in C : \E x \in book.pending \cup book.open : SameOrder(x, row)
    <3>1. \E D : D = C
      OBVIOUS
    <3> HIDE DEF C
    <3>2. C = {TradeRow(p, Date(r)) : p \in Closing(F, Date(r))}
      BY DEF C
    <3> QED
      BY <1>1, <2>1, <2>2, <3>2, ProcessFollows
  <2> HIDE DEF C
  <2>6. OrderStatus(o)' = OrderStatus(o)
    BY <1>1, <1>2, <2>4, <2>5, ProcessEdges
  <2> QED
    BY <2>6, MovedEdges
<1>3. CASE Save(r)
  BY <1>3, SaveEdges
<1>4. ASSUME UNCHANGED <<book, trades>> PROVE Moved(OrderStatus(o), OrderStatus(o)')
  <2>1. OrderStatus(o)' = OrderStatus(o)
    BY <1>4 DEF OrderStatus
  <2> QED
    BY <2>1, MovedEdges
<1>5. CASE Place(r) \/ Report(r)
  BY <1>1, <1>4, <1>5, PlaceForm, ReportForm DEF files
<1>6. CASE StoreSession
  BY <1>4, <1>6, StoreKeeps DEF files
<1> QED
  BY <1>1, <1>2, <1>3, <1>4, <1>5, <1>6, RunnerSteps DEF TraderStep, files

\* With one runner, a book that is saved on every date and nobody dying, the
\* trader implements OrderLifecycle: an order is placed once, entered once and
\* closed once, at most one save moves it from pending to closed, and the live
\* orders stay within the slots.
THEOREM Implements ==
  ASSUME NEW r, Runners = {r}, AlwaysSaves, MaxDeaths = 0
  PROVE  Spec => ImplementsLifecycle
<1>1. Init => Lifecycle!Init
  <2> SUFFICES ASSUME Init PROVE Lifecycle!Init
    OBVIOUS
  <2>1. book.open = {} /\ book.pending = {} /\ Rows = {}
    BY DEF Init, TraderInit, EmptyBook, Rows, BagToSet, EmptyBag, SetToBag
  <2>2. \A o : OrderStatus(o) = "none"
    BY <2>1 DEF OrderStatus, Rows
  <2> QED
    BY <2>2 DEF Lifecycle!Init, Lifecycle!Orders
<1>2. CleanInv /\ CleanInv' /\ ClaimInv /\ ClaimInv' /\ SlotInv' /\ [Next]_vars => Lifecycle!Next
  <2> SUFFICES ASSUME CleanInv, CleanInv', ClaimInv, ClaimInv', SlotInv', [Next]_vars
               PROVE  Lifecycle!Next
    OBVIOUS
  <2> DEFINE st == [o \in OrderKeys |-> OrderStatus(o)']
  <2>1. \A o \in OrderKeys : Moved(OrderStatus(o), st[o])
    BY StatusEdges
  <2>2. \A o \in OrderKeys : st[o] \in {"pending", "open"} =>
           \E x \in book'.pending \cup book'.open : SameOrder(x, RowOf(o))
    BY DEF OrderStatus, RowOf, SameOrder
  <2>3. /\ IsFiniteSet(book'.pending) /\ IsFiniteSet(book'.open)
        /\ Cardinality(book'.pending) + Cardinality(book'.open) <= MaxSlots
    BY DEF SlotInv, Books, SlotsIn
  <2>4. \A x, y \in book'.pending \cup book'.open : x.sym = y.sym => x = y
    BY DEF ClaimInv, Books, OneClaimIn, SymbolsIn
  <2>5. st \in [Symbols \X Days -> Lifecycle!Statuses]
    BY DEF OrderKeys, OrderStatus, Lifecycle!Statuses
  <2> HIDE DEF st
  <2>6. Lifecycle!Allowed(st)
    BY <2>2, <2>3, <2>4, LiveOrders
  <2>7. \A o \in OrderKeys : \/ st[o] = OrderStatus(o)
                             \/ <<OrderStatus(o), st[o]>> \in Lifecycle!Edges
    BY <2>1 DEF Moved
  <2>8. [o \in Symbols \X Days |-> OrderStatus(o)]' = st
    BY DEF st, OrderKeys
  <2> QED
    BY <2>5, <2>6, <2>7, <2>8 DEF Lifecycle!Next, Lifecycle!Move, Lifecycle!Orders, OrderKeys
<1> QED
  BY <1>1, <1>2, CleanKept, ClaimKept, SlotsKept, PTL DEF Spec, ImplementsLifecycle, Lifecycle!Spec
=============================================================================
